----------------------------- MODULE TextProofs -----------------------------
(***************************************************************************)
(* Proofs about the text of a reply, for every sequence of tokens of any   *)
(* bytes.  First the arithmetic of UTF-8: the sequences that pass the      *)
(* checks of push and are long enough are exactly the encodings of the     *)
(* characters (EncodingIs), and the carry is exactly a beginning of one    *)
(* (BegunIs).  A character in front does not change whether a text can go  *)
(* on (ViableBehind), so push, which takes one after the other, refuses    *)
(* bytes exactly if no text begins with them (ReadsParses), and what it    *)
(* refuses behind the carry no text could have held in the whole reply.    *)
(* What it decodes ends with no open pair of surrogates, so the bytes of   *)
(* the tokens' units add up (EncodedUnitsConcat); and rendering goes on    *)
(* across tokens as long as it knows of the last CR (RenderConcat).        *)
(***************************************************************************)
EXTENDS TokenText, SequenceTheorems, WellFoundedInduction, TLAPS

\* Induction over the natural numbers: a set that holds 0 and is closed under + 1.
LEMMA SetInduction ==
    ASSUME NEW S, 0 \in S, \A n \in Nat : n \in S => n + 1 \in S
    PROVE  Nat \subseteq S
<1> DEFINE less == {ab \in Nat \X Nat : ab[1] < ab[2]}
           Out == Nat \ S
<1>1. IsWellFoundedOn(less, Nat)
  BY NatLessThanWellFounded DEF OpToRel
<1> HIDE DEF less
<1> SUFFICES ASSUME Out # {} PROVE FALSE
  OBVIOUS
<1>2. PICK b \in Out : \A c \in Out : ~(<<c, b>> \in less)
  <2>1. Out \subseteq Nat /\ Out # {}
    OBVIOUS
  <2> HIDE DEF Out
  <2> QED
    BY <1>1, <2>1, WFMin, Zenon
<1>3. b \in Nat \ {0} /\ b - 1 \in Nat /\ b - 1 + 1 = b /\ b - 1 < b
  OBVIOUS
<1>4. b - 1 \in S
  BY <1>2, <1>3 DEF less
<1> QED
  BY <1>3, <1>4

-----------------------------------------------------------------------------
(* Sequences one behind the other.                                          *)

\* What is joined up to each of n sequences.
Accumulates(f, ss, n) ==
    /\ f = [i \in 1 .. n |-> f[i]]
    /\ f[1] = ss[1]
    /\ \A i \in 2 .. n : f[i] = f[i - 1] \o ss[i]

\* FlattenSeq is what is joined up to the last one.
LEMMA FlattenIs ==
    ASSUME NEW ss, NEW n \in Nat \ {0}, Len(ss) = n, NEW f, Accumulates(f, ss, n)
    PROVE  FlattenSeq(ss) = f[n]
<1> DEFINE Is(g) == g = [i \in 1 .. n |-> IF i = 1 THEN ss[i] ELSE g[i - 1] \o ss[i]]
           flat == CHOOSE g : Is(g)
<1>1. Is(f)
  <2>1. f = [i \in 1 .. n |-> f[i]]
    BY DEF Accumulates
  <2>2. ASSUME NEW i \in 1 .. n PROVE f[i] = IF i = 1 THEN ss[i] ELSE f[i - 1] \o ss[i]
    <3>1. i = 1 \/ i \in 2 .. n
      OBVIOUS
    <3> QED
      BY <3>1 DEF Accumulates
  <2> QED
    BY <2>1, <2>2
<1>2. Is(flat)
  <2> HIDE DEF Is
  <2> QED
    BY <1>1
<1> HIDE DEF flat
<1> DEFINE S == {m \in Nat : m < n => flat[m + 1] = f[m + 1]}
<1>3. 0 \in S
  <2>1. 1 \in 1 .. n /\ 0 + 1 = 1
    OBVIOUS
  <2> QED
    BY <1>1, <1>2, <2>1
<1>4. ASSUME NEW m \in Nat, m \in S PROVE m + 1 \in S
  <2> SUFFICES ASSUME m + 1 < n PROVE flat[(m + 1) + 1] = f[(m + 1) + 1]
    OBVIOUS
  <2> DEFINE k == (m + 1) + 1
  <2>1. k \in 1 .. n /\ k # 1 /\ k - 1 = m + 1 /\ flat[m + 1] = f[m + 1]
    BY <1>4
  <2> HIDE DEF k
  <2>2. flat[k] = flat[k - 1] \o ss[k] /\ f[k] = f[k - 1] \o ss[k]
    BY <1>1, <1>2, <2>1
  <2>3. flat[k] = f[k]
    BY <2>1, <2>2
  <2> QED
    BY <2>3 DEF k
<1> HIDE DEF S
<1>5. Nat \subseteq S
  BY <1>3, <1>4, SetInduction
<1>6. n - 1 \in S /\ n - 1 < n /\ (n - 1) + 1 = n
  BY <1>5
<1>7. flat[n] = f[n]
  BY <1>6 DEF S
<1>8. FlattenSeq(ss) = flat[n]
  BY DEF FlattenSeq, flat
<1> QED
  BY <1>7, <1>8

\* There is such a function.
LEMMA FlattenRuns ==
    ASSUME NEW S, NEW n \in Nat \ {0}, NEW ss, \A i \in 1 .. n : ss[i] \in Seq(S)
    PROVE  \E f : Accumulates(f, ss, n) /\ \A i \in 1 .. n : f[i] \in Seq(S)
<1> DEFINE Has(m) == \E f : Accumulates(f, ss, m) /\ \A i \in 1 .. m : f[i] \in Seq(S)
           D == {m \in Nat : m < n => Has(m + 1)}
<1>1. 0 \in D
  <2> DEFINE f == [i \in 1 .. 1 |-> ss[1]]
  <2>1. Accumulates(f, ss, 1) /\ \A i \in 1 .. 1 : f[i] \in Seq(S)
    BY DEF Accumulates
  <2>2. Has(0 + 1)
    <3> HIDE DEF f
    <3> QED
      BY <2>1
  <2> QED
    BY <2>2
<1>2. ASSUME NEW m \in Nat, m \in D PROVE m + 1 \in D
  <2> SUFFICES ASSUME m + 1 < n PROVE Has((m + 1) + 1)
    OBVIOUS
  <2> DEFINE k == m + 1
             l == k + 1
  <2>1. k \in Nat \ {0} /\ k \in 1 .. n /\ l \in 2 .. n /\ l \in Nat /\ k = l - 1 /\ k < l
        /\ l \in 1 .. l
    OBVIOUS
  <2>2. PICK f : Accumulates(f, ss, k) /\ \A i \in 1 .. k : f[i] \in Seq(S)
    BY <1>2, <2>1
  <2> HIDE DEF k, l
  <2> DEFINE g == [i \in 1 .. l |-> IF i = l THEN f[k] \o ss[l] ELSE f[i]]
  <2>3. \A i \in 1 .. k : g[i] = f[i]
    BY <2>1
  <2>4. g[l] = f[k] \o ss[l]
    <3> DEFINE end == f[k] \o ss[l]
    <3> HIDE DEF end
    <3>1. g[l] = end
      BY <2>1 DEF end
    <3> QED
      BY <3>1 DEF end
  <2>5. \A i \in 1 .. l : i = l \/ i \in 1 .. k
    BY <2>1
  <2>6. g = [i \in 1 .. l |-> g[i]]
    OBVIOUS
  <2> HIDE DEF g
  <2>7. f[k] \o ss[l] \in Seq(S)
    <3>1. f[k] \in Seq(S) /\ ss[l] \in Seq(S)
      BY <2>1, <2>2
    <3> QED
      BY <3>1, ConcatProperties
  <2>8. g[1] = ss[1]
    <3>1. 1 \in 1 .. k
      BY <2>1
    <3> QED
      BY <2>2, <2>3, <3>1 DEF Accumulates
  <2>9. ASSUME NEW i \in 2 .. l PROVE g[i] = g[i - 1] \o ss[i]
    <3>1. CASE i = l
      <4>1. k \in 1 .. k /\ i - 1 = k
        BY <2>1, <3>1
      <4> QED
        BY <2>3, <2>4, <3>1, <4>1
    <3>2. CASE i # l
      <4>1. i \in 2 .. k /\ i \in 1 .. k /\ i - 1 \in 1 .. k
        BY <2>1, <3>2
      <4> QED
        BY <2>2, <2>3, <4>1 DEF Accumulates
    <3> QED
      BY <3>1, <3>2
  <2>10. ASSUME NEW i \in 1 .. l PROVE g[i] \in Seq(S)
    BY <2>2, <2>3, <2>4, <2>5, <2>7
  <2>11. Has(l)
    BY <2>6, <2>8, <2>9, <2>10 DEF Accumulates
  <2> QED
    BY <2>11 DEF l, k
<1> HIDE DEF D
<1>3. Nat \subseteq D
  BY <1>1, <1>2, SetInduction
<1>4. n - 1 \in D /\ n - 1 < n /\ (n - 1) + 1 = n
  BY <1>3
<1> QED
  BY <1>4 DEF D

\* Joining nothing.
LEMMA FlattenNone == FlattenSeq(<< >>) = << >>
  BY DEF FlattenSeq

\* One more sequence comes behind the others.
LEMMA FlattenOneMore ==
    ASSUME NEW S, NEW ss \in Seq(Seq(S)), NEW s \in Seq(S)
    PROVE  /\ FlattenSeq(ss) \in Seq(S)
           /\ FlattenSeq(Append(ss, s)) = FlattenSeq(ss) \o s
<1> DEFINE A == Seq(S)
           n == Len(ss)
           m == n + 1
           more == Append(ss, s)
<1>1. n \in Nat /\ \A i \in 1 .. n : ss[i] \in A
  OBVIOUS
<1>2. /\ Len(more) = m /\ \A i \in 1 .. n : more[i] = ss[i]
      /\ more[m] = s
  <2>1. ss \in Seq(A) /\ s \in A
    OBVIOUS
  <2> HIDE DEF A
  <2> QED
    BY <2>1, AppendProperties
<1>3. m \in Nat \ {0} /\ m \in 1 .. m /\ m - 1 = n
  BY <1>1
<1> HIDE DEF more, n, m
<1>4. CASE n = 0
  <2>1. ss = << >> /\ FlattenSeq(ss) = << >>
    BY <1>4, FlattenNone DEF n
  <2> DEFINE f == [i \in 1 .. 1 |-> s]
  <2>2. Accumulates(f, more, 1) /\ f[1] = s /\ m = 1
    BY <1>1, <1>2, <1>3, <1>4 DEF Accumulates, m
  <2> HIDE DEF f
  <2>3. FlattenSeq(more) = s
    BY <1>2, <1>3, <2>2, FlattenIs
  <2>4. << >> \o s = s /\ << >> \in Seq(S)
    BY ConcatEmptySeq
  <2> QED
    BY <2>1, <2>3, <2>4 DEF more
<1>5. CASE n # 0
  <2>1. PICK f : Accumulates(f, ss, n) /\ \A i \in 1 .. n : f[i] \in Seq(S)
    <3>1. n \in Nat \ {0}
      BY <1>1, <1>5
    <3> QED
      BY <1>1, <3>1, FlattenRuns
  <2> DEFINE g == [i \in 1 .. m |-> IF i = m THEN f[n] \o s ELSE f[i]]
  <2>2. /\ \A i \in 1 .. n : g[i] = f[i] /\ i \in 1 .. m
        /\ g[m] = f[n] \o s
        /\ g = [i \in 1 .. m |-> g[i]]
    BY <1>1, <1>3
  <2> HIDE DEF g
  <2>3. g[1] = more[1]
    <3>1. 1 \in 1 .. n
      BY <1>1, <1>5
    <3> QED
      BY <1>2, <2>1, <2>2, <3>1 DEF Accumulates
  <2>4. ASSUME NEW i \in 2 .. m PROVE g[i] = g[i - 1] \o more[i]
    <3>1. CASE i = m
      <4>1. n \in 1 .. n /\ i - 1 = n
        BY <1>1, <1>3, <1>5, <3>1
      <4> QED
        BY <1>2, <2>2, <3>1, <4>1
    <3>2. CASE i # m
      <4>1. i \in 2 .. n /\ i \in 1 .. n /\ i - 1 \in 1 .. n
        BY <1>1, <1>3, <3>2
      <4> QED
        BY <1>2, <2>1, <2>2, <4>1 DEF Accumulates
    <3> QED
      BY <3>1, <3>2
  <2>5. Accumulates(g, more, m)
    BY <2>2, <2>3, <2>4 DEF Accumulates
  <2>6. FlattenSeq(more) = g[m]
    BY <1>2, <1>3, <2>5, FlattenIs
  <2>7. FlattenSeq(ss) = f[n]
    <3>1. n \in Nat \ {0} /\ Len(ss) = n
      BY <1>1, <1>5 DEF n
    <3> QED
      BY <2>1, <3>1, FlattenIs
  <2>8. n \in 1 .. n
    BY <1>1, <1>5
  <2> QED
    BY <2>1, <2>2, <2>6, <2>7, <2>8 DEF more
<1> QED
  BY <1>4, <1>5

\* One more sequence behind the second half.
LEMMA FlattenConcatMore ==
    ASSUME NEW S, NEW ss \in Seq(Seq(S)), NEW vv \in Seq(Seq(S)), NEW s \in Seq(S),
           FlattenSeq(ss \o vv) = FlattenSeq(ss) \o FlattenSeq(vv)
    PROVE  FlattenSeq(ss \o Append(vv, s)) = FlattenSeq(ss) \o FlattenSeq(Append(vv, s))
<1>1. ss \o Append(vv, s) = Append(ss \o vv, s) /\ ss \o vv \in Seq(Seq(S))
  <2> DEFINE A == Seq(S)
  <2>0. ss \in Seq(A) /\ vv \in Seq(A) /\ s \in A
    OBVIOUS
  <2> HIDE DEF A
  <2>1. ss \o vv \in Seq(A) /\ <<s>> \in Seq(A)
    BY <2>0, ConcatProperties
  <2>2. Append(vv, s) = vv \o <<s>> /\ Append(ss \o vv, s) = (ss \o vv) \o <<s>>
    BY <2>0, <2>1, AppendIsConcat
  <2>3. (ss \o vv) \o <<s>> = ss \o (vv \o <<s>>)
    <3>1. ASSUME NEW x \in Seq(A), NEW y \in Seq(A), NEW z \in Seq(A)
          PROVE  (x \o y) \o z = x \o (y \o z)
      OBVIOUS
    <3> QED
      BY <2>0, <2>1, <3>1
  <2> QED
    BY <2>1, <2>2, <2>3 DEF A
<1>2. /\ FlattenSeq(Append(ss \o vv, s)) = FlattenSeq(ss \o vv) \o s
      /\ FlattenSeq(Append(vv, s)) = FlattenSeq(vv) \o s
      /\ FlattenSeq(vv) \in Seq(S) /\ FlattenSeq(ss) \in Seq(S)
  BY <1>1, FlattenOneMore
<1>3. ASSUME NEW x \in Seq(S), NEW y \in Seq(S)
      PROVE  (x \o y) \o s = x \o (y \o s)
  OBVIOUS
<1>4. (FlattenSeq(ss) \o FlattenSeq(vv)) \o s = FlattenSeq(ss) \o (FlattenSeq(vv) \o s)
  BY <1>2, <1>3
<1> QED
  BY <1>1, <1>2, <1>4

\* Joined sequences of two halves are the halves joined.
LEMMA FlattenConcat ==
    ASSUME NEW S, NEW ss \in Seq(Seq(S)), NEW tt \in Seq(Seq(S))
    PROVE  FlattenSeq(ss \o tt) = FlattenSeq(ss) \o FlattenSeq(tt)
<1> DEFINE A == Seq(S)
           D == {n \in Nat : \A uu \in Seq(A) : Len(uu) = n =>
                    FlattenSeq(ss \o uu) = FlattenSeq(ss) \o FlattenSeq(uu)}
<1>1. 0 \in D
  <2> SUFFICES ASSUME NEW uu \in Seq(A), Len(uu) = 0
               PROVE  FlattenSeq(ss \o uu) = FlattenSeq(ss) \o FlattenSeq(uu)
    OBVIOUS
  <2>1. uu = << >>
    BY EmptySeq
  <2>2. ss \o << >> = ss
    <3> HIDE DEF A
    <3> QED
      BY ConcatEmptySeq DEF A
  <2>3. FlattenSeq(ss) \in Seq(S)
    <3>1. << >> \in Seq(S)
      OBVIOUS
    <3> QED
      BY <3>1, FlattenOneMore
  <2>4. FlattenSeq(ss) \o << >> = FlattenSeq(ss)
    BY <2>3, ConcatEmptySeq
  <2> QED
    BY <2>1, <2>2, <2>4, FlattenNone
<1>2. ASSUME NEW n \in Nat, n \in D PROVE n + 1 \in D
  <2> SUFFICES ASSUME NEW uu \in Seq(A), Len(uu) = n + 1
               PROVE  FlattenSeq(ss \o uu) = FlattenSeq(ss) \o FlattenSeq(uu)
    OBVIOUS
  <2>0. ss \in Seq(A)
    OBVIOUS
  <2>1. PICK vv \in Seq(A), s \in A : uu = Append(vv, s)
    <3>1. uu # << >>
      OBVIOUS
    <3> HIDE DEF A
    <3> QED
      BY <3>1, SequenceEmptyOrAppend
  <2>2. Len(vv) = n
    <3>1. Len(Append(vv, s)) = Len(vv) + 1 /\ Len(vv) \in Nat
      <4> HIDE DEF A
      <4> QED
        BY <2>1, AppendProperties
    <3> QED
      BY <2>1, <3>1
  <2>3. FlattenSeq(ss \o vv) = FlattenSeq(ss) \o FlattenSeq(vv)
    BY <1>2, <2>2
  <2> QED
    BY <2>1, <2>3, FlattenConcatMore
<1> HIDE DEF D
<1>3. Nat \subseteq D
  BY <1>1, <1>2, SetInduction
<1>4. Len(tt) \in D
  BY <1>3
<1> QED
  BY <1>4 DEF D

\* What is joined of one sequence.
LEMMA FlattenOne ==
    ASSUME NEW S, NEW s \in Seq(S)
    PROVE  FlattenSeq(<<s>>) = s
<1> DEFINE none == << >>
<1>1. none \in Seq(Seq(S)) /\ FlattenSeq(none) = << >> /\ Append(none, s) = <<s>>
  BY FlattenNone
<1> HIDE DEF none
<1>2. FlattenSeq(Append(none, s)) = FlattenSeq(none) \o s
  BY <1>1, FlattenOneMore
<1>3. << >> \o s = s
  BY ConcatEmptySeq
<1> QED
  BY <1>1, <1>2, <1>3

-----------------------------------------------------------------------------
(* How a character is encoded.                                              *)

\* The bytes of the code: all of a u8.
AllBytes == Bytes = {x \in Nat : x < 256}

\* The characters that can be written.
Valid(p) == p \in Nat /\ 0 < p /\ p <= 1114111 /\ ~Surrogate(p)

\* What push asks of the bytes at hand: they begin a sequence, and what is there of
\* it fits.
Fit(x) ==
    /\ Needed(x[1]) # 0
    /\ Needed(x[1]) >= 2 /\ Len(x) >= 2 => SecondFits(x[1], x[2])
    /\ \A i \in 2 .. Len(x) : i <= Needed(x[1]) => IsTrail(x[i])

Six == {x \in Nat : x < 64}

\* The bytes behind the first.
LEMMA TrailIs ==
    ASSUME NEW x \in Nat
    PROVE  IsTrail(x) <=> 128 <= x /\ x < 192
  BY SMT DEF IsTrail

\* The first byte.
LEMMA NeededIs ==
    ASSUME NEW x \in Nat
    PROVE  Needed(x) = IF 1 <= x /\ x <= 127 THEN 1
                       ELSE IF 194 <= x /\ x <= 223 THEN 2
                       ELSE IF 224 <= x /\ x <= 239 THEN 3
                       ELSE IF 240 <= x /\ x <= 244 THEN 4
                       ELSE 0
  BY SMT DEF Needed

Digits(a, b, c, d) == a * 262144 + b * 4096 + c * 64 + d

\* A point in digits of six bits.
LEMMA DigitsAre ==
    ASSUME NEW p \in Nat
    PROVE  \E a \in Nat, b \in Six, c \in Six, d \in Six : p = Digits(a, b, c, d)
<1>1. PICK a \in Nat, r \in Nat : p = a * 262144 + r /\ r < 262144
  <2>1. /\ p \div 262144 \in Nat /\ p % 262144 \in Nat /\ p % 262144 < 262144
        /\ p = (p \div 262144) * 262144 + (p % 262144)
    BY SMT
  <2> QED
    BY <2>1, SMT
<1>2. PICK b \in Six, s \in Nat : r = b * 4096 + s /\ s < 4096
  <2>1. /\ r \div 4096 \in Nat /\ r % 4096 \in Nat /\ r % 4096 < 4096
        /\ r = (r \div 4096) * 4096 + (r % 4096)
    BY SMT
  <2>2. r \div 4096 < 64
    BY <1>1, <2>1, SMT
  <2> QED
    BY <2>1, <2>2, SMT DEF Six
<1>3. PICK c \in Six, d \in Six : s = c * 64 + d
  <2>1. /\ s \div 64 \in Nat /\ s % 64 \in Nat /\ s % 64 < 64
        /\ s = (s \div 64) * 64 + (s % 64)
    BY SMT
  <2>2. s \div 64 < 64
    BY <1>2, <2>1, SMT
  <2> QED
    BY <2>1, <2>2, SMT DEF Six
<1>4. p = a * 262144 + b * 4096 + c * 64 + d
  BY <1>1, <1>2, <1>3, SMT DEF Six
<1> QED
  BY <1>4, SMT DEF Digits

\* The encoding of such a point.
LEMMA EncodedIs ==
    ASSUME NEW a \in Nat, NEW b \in Six, NEW c \in Six, NEW d \in Six
    PROVE  LET p == Digits(a, b, c, d)
           IN  Encoded(p) =
                  IF p <= 127 THEN <<p>>
                  ELSE IF p <= 2047 THEN <<192 + (a * 4096 + b * 64 + c), 128 + d>>
                  ELSE IF p <= 65535 THEN <<224 + (a * 64 + b), 128 + c, 128 + d>>
                  ELSE <<240 + a, 128 + b, 128 + c, 128 + d>>
<1> DEFINE q == Digits(a, b, c, d)
<1> SUFFICES ASSUME NEW p, p = q
             PROVE  Encoded(p) =
                       IF p <= 127 THEN <<p>>
                       ELSE IF p <= 2047 THEN <<192 + (a * 4096 + b * 64 + c), 128 + d>>
                       ELSE IF p <= 65535 THEN <<224 + (a * 64 + b), 128 + c, 128 + d>>
                       ELSE <<240 + a, 128 + b, 128 + c, 128 + d>>
  BY SMT
<1>a. p = a * 262144 + b * 4096 + c * 64 + d
  BY SMT DEF Digits
<1> HIDE DEF q
<1>0. /\ b \in Nat /\ c \in Nat /\ d \in Nat /\ b < 64 /\ c < 64 /\ d < 64
  BY SMT DEF Six
<1>1. p \in Nat
  BY <1>0, <1>a, SMT
<1>2. p \div 262144 = a
  <2>1. b * 4096 + c * 64 + d \in Nat /\ b * 4096 + c * 64 + d < 262144
    BY <1>0, <1>a, SMT
  <2>2. p = a * 262144 + (b * 4096 + c * 64 + d)
    BY <1>0, <1>a, SMT
  <2> QED
    BY <1>0, <1>a, <2>1, <2>2, SMT
<1>3. p \div 4096 = a * 64 + b
  <2>1. c * 64 + d \in Nat /\ c * 64 + d < 4096 /\ p = (a * 64 + b) * 4096 + (c * 64 + d)
    BY <1>0, <1>a, SMT
  <2> QED
    BY <1>0, <1>a, <2>1, SMT
<1>4. (a * 64 + b) % 64 = b
  BY <1>0, <1>a, SMT
<1>5. p \div 64 = a * 4096 + b * 64 + c
  <2>1. p = (a * 4096 + b * 64 + c) * 64 + d
    BY <1>0, <1>a, SMT
  <2> QED
    BY <1>0, <1>a, <2>1, SMT
<1>6. (a * 4096 + b * 64 + c) % 64 = c
  <2>1. a * 4096 + b * 64 + c = (a * 64 + b) * 64 + c
    BY <1>0, <1>a, SMT
  <2> QED
    BY <1>0, <1>a, <2>1, SMT
<1>7. p \div 1 = p
  BY <1>1, SMT
<1>8. p % 64 = d
  <2>1. p = (a * 4096 + b * 64 + c) * 64 + d
    BY <1>0, <1>a, SMT
  <2> QED
    BY <1>0, <1>a, <2>1, SMT
<1>9. /\ p \div 262144 = a
      /\ p \div 4096 = a * 64 + b /\ (p \div 4096) % 64 = b
      /\ p \div 64 = a * 4096 + b * 64 + c /\ (p \div 64) % 64 = c
      /\ p \div 1 = p /\ (p \div 1) % 64 = d
  BY <1>2, <1>3, <1>4, <1>5, <1>6, <1>7, <1>8, SMT
<1> QED
  BY <1>9, SMT DEF Encoded

\* A byte is a small number.
LEMMA ByteIs ==
    ASSUME AllBytes, NEW x
    PROVE  x \in Bytes <=> x \in Nat /\ x < 256
  BY SMT DEF AllBytes

\* A sequence of one byte.
LEMMA FitOne ==
    ASSUME AllBytes, NEW x1 \in Bytes
    PROVE  LET s == <<x1>>
           IN  /\ Len(s) = 1 /\ s \in Seq(Bytes) /\ s[1] = x1
               /\ Point(s) = x1
               /\ Needed(x1) = 1 <=> 1 <= x1 /\ x1 <= 127
               /\ Needed(x1) = 1 => Fit(s)
<1> DEFINE s == <<x1>>
<1>1. Len(s) = 1 /\ s \in Seq(Bytes) /\ s[1] = x1
  BY SMT
<1>2. x1 \in Nat
  BY ByteIs
<1> HIDE DEF s
<1>3. Point(s) = x1
  BY <1>1, SMT DEF Point
<1>4. Needed(x1) = 1 <=> 1 <= x1 /\ x1 <= 127
  BY <1>2, NeededIs, SMT
<1>5. Needed(x1) = 1 => Fit(s)
  BY <1>1, SMT DEF Fit
<1> QED
  BY <1>1, <1>3, <1>4, <1>5 DEF s

\* A sequence of two.
LEMMA FitTwo ==
    ASSUME AllBytes, NEW x1 \in Bytes, NEW x2 \in Bytes
    PROVE  LET s == <<x1, x2>>
           IN  /\ Len(s) = 2 /\ s \in Seq(Bytes) /\ s[1] = x1 /\ s[2] = x2
               /\ Point(s) = (x1 % 32) * 64 + (x2 % 64)
               /\ Needed(x1) = 2 <=> 194 <= x1 /\ x1 <= 223
               /\ Needed(x1) = 2 => (Fit(s) <=> 128 <= x2 /\ x2 < 192)
<1> DEFINE s == <<x1, x2>>
<1>1. Len(s) = 2 /\ s \in Seq(Bytes) /\ s[1] = x1 /\ s[2] = x2
  BY SMT
<1>2. x1 \in Nat /\ x2 \in Nat
  BY ByteIs
<1> HIDE DEF s
<1>3. Point(s) = (x1 % 32) * 64 + (x2 % 64)
  BY <1>1, SMT DEF Point
<1>4. Needed(x1) = 2 <=> 194 <= x1 /\ x1 <= 223
  BY <1>2, NeededIs, SMT
<1>5. ASSUME Needed(x1) = 2 PROVE Fit(s) <=> 128 <= x2 /\ x2 < 192
  <2>1. 194 <= x1 /\ x1 <= 223
    BY <1>4, <1>5
  <2>2. SecondFits(x1, x2) <=> IsTrail(x2)
    BY <1>2, <2>1, SMT DEF SecondFits
  <2>3. Fit(s) <=> SecondFits(x1, x2) /\ IsTrail(x2)
    BY <1>1, <1>5, SMT DEF Fit
  <2> QED
    BY <1>2, <2>2, <2>3, TrailIs
<1> QED
  BY <1>1, <1>3, <1>4, <1>5 DEF s

\* A sequence of three.
LEMMA FitThree ==
    ASSUME AllBytes, NEW x1 \in Bytes, NEW x2 \in Bytes, NEW x3 \in Bytes
    PROVE  LET s == <<x1, x2, x3>>
           IN  /\ Len(s) = 3 /\ s \in Seq(Bytes) /\ s[1] = x1 /\ s[2] = x2 /\ s[3] = x3
               /\ Point(s) = (x1 % 16) * 4096 + (x2 % 64) * 64 + (x3 % 64)
               /\ Needed(x1) = 3 <=> 224 <= x1 /\ x1 <= 239
               /\ Needed(x1) = 3 =>
                     (Fit(s) <=> /\ 128 <= x2 /\ x2 < 192 /\ 128 <= x3 /\ x3 < 192
                                 /\ x1 = 224 => x2 >= 160
                                 /\ x1 = 237 => x2 < 160)
<1> DEFINE s == <<x1, x2, x3>>
<1>1. Len(s) = 3 /\ s \in Seq(Bytes) /\ s[1] = x1 /\ s[2] = x2 /\ s[3] = x3
  BY SMT
<1>2. x1 \in Nat /\ x2 \in Nat /\ x3 \in Nat
  BY ByteIs
<1> HIDE DEF s
<1>3. Point(s) = (x1 % 16) * 4096 + (x2 % 64) * 64 + (x3 % 64)
  BY <1>1, SMT DEF Point
<1>4. Needed(x1) = 3 <=> 224 <= x1 /\ x1 <= 239
  BY <1>2, NeededIs, SMT
<1>5. ASSUME Needed(x1) = 3
      PROVE  Fit(s) <=> /\ 128 <= x2 /\ x2 < 192 /\ 128 <= x3 /\ x3 < 192
                        /\ x1 = 224 => x2 >= 160
                        /\ x1 = 237 => x2 < 160
  <2>1. 224 <= x1 /\ x1 <= 239
    BY <1>4, <1>5
  <2>2. SecondFits(x1, x2) <=> IsTrail(x2) /\ (x1 = 224 => x2 >= 160) /\ (x1 = 237 => x2 < 160)
    BY <1>2, <2>1, SMT DEF SecondFits
  <2>3. Fit(s) <=> SecondFits(x1, x2) /\ \A i \in 2 .. 3 : IsTrail(s[i])
    BY <1>1, <1>5, SMT DEF Fit
  <2>4. (\A i \in 2 .. 3 : IsTrail(s[i])) <=> IsTrail(x2) /\ IsTrail(x3)
    BY <1>1, SMT
  <2>5. /\ IsTrail(x2) <=> 128 <= x2 /\ x2 < 192
        /\ IsTrail(x3) <=> 128 <= x3 /\ x3 < 192
    BY <1>2, TrailIs
  <2> QED
    BY <2>2, <2>3, <2>4, <2>5
<1> QED
  BY <1>1, <1>3, <1>4, <1>5 DEF s

\* A sequence of four.
LEMMA FitFour ==
    ASSUME AllBytes, NEW x1 \in Bytes, NEW x2 \in Bytes, NEW x3 \in Bytes, NEW x4 \in Bytes
    PROVE  LET s == <<x1, x2, x3, x4>>
           IN  /\ Len(s) = 4 /\ s \in Seq(Bytes)
               /\ s[1] = x1 /\ s[2] = x2 /\ s[3] = x3 /\ s[4] = x4
               /\ Point(s) = (x1 % 8) * 262144 + (x2 % 64) * 4096 + (x3 % 64) * 64 + (x4 % 64)
               /\ Needed(x1) = 4 <=> 240 <= x1 /\ x1 <= 244
               /\ Needed(x1) = 4 =>
                     (Fit(s) <=> /\ 128 <= x2 /\ x2 < 192
                                 /\ 128 <= x3 /\ x3 < 192 /\ 128 <= x4 /\ x4 < 192
                                 /\ x1 = 240 => x2 >= 144
                                 /\ x1 = 244 => x2 < 144)
<1> DEFINE s == <<x1, x2, x3, x4>>
<1>1. /\ Len(s) = 4 /\ s \in Seq(Bytes)
      /\ s[1] = x1 /\ s[2] = x2 /\ s[3] = x3 /\ s[4] = x4
  BY SMT
<1>2. x1 \in Nat /\ x2 \in Nat /\ x3 \in Nat /\ x4 \in Nat
  BY ByteIs
<1> HIDE DEF s
<1>3. Point(s) = (x1 % 8) * 262144 + (x2 % 64) * 4096 + (x3 % 64) * 64 + (x4 % 64)
  BY <1>1, SMT DEF Point
<1>4. Needed(x1) = 4 <=> 240 <= x1 /\ x1 <= 244
  BY <1>2, NeededIs, SMT
<1>5. ASSUME Needed(x1) = 4
      PROVE  Fit(s) <=> /\ 128 <= x2 /\ x2 < 192
                        /\ 128 <= x3 /\ x3 < 192 /\ 128 <= x4 /\ x4 < 192
                        /\ x1 = 240 => x2 >= 144
                        /\ x1 = 244 => x2 < 144
  <2>1. 240 <= x1 /\ x1 <= 244
    BY <1>4, <1>5
  <2>2. SecondFits(x1, x2) <=> IsTrail(x2) /\ (x1 = 240 => x2 >= 144) /\ (x1 = 244 => x2 < 144)
    BY <1>2, <2>1, SMT DEF SecondFits
  <2>3. Fit(s) <=> SecondFits(x1, x2) /\ \A i \in 2 .. 4 : IsTrail(s[i])
    BY <1>1, <1>5, SMT DEF Fit
  <2>4. (\A i \in 2 .. 4 : IsTrail(s[i])) <=> IsTrail(x2) /\ IsTrail(x3) /\ IsTrail(x4)
    BY <1>1, SMT
  <2>5. /\ IsTrail(x2) <=> 128 <= x2 /\ x2 < 192
        /\ IsTrail(x3) <=> 128 <= x3 /\ x3 < 192
        /\ IsTrail(x4) <=> 128 <= x4 /\ x4 < 192
    BY <1>2, TrailIs
  <2> QED
    BY <2>2, <2>3, <2>4, <2>5
<1> QED
  BY <1>1, <1>3, <1>4, <1>5 DEF s

\* What is encoded fits, and says which character it was.
LEMMA EncodingFits ==
    ASSUME AllBytes, NEW p, Valid(p)
    PROVE  LET e == Encoded(p)
           IN  /\ e \in Seq(Bytes) /\ Len(e) \in Nat \ {0} /\ Len(e) = Needed(e[1])
               /\ Fit(e) /\ Point(e) = p
<1>0. p \in Nat /\ 0 < p /\ p <= 1114111 /\ (p < 55296 \/ 57343 < p)
  BY SMT DEF Valid, Surrogate, HighSurrogate, LowSurrogate
<1>a. PICK a \in Nat, b \in Six, c \in Six, d \in Six : p = Digits(a, b, c, d)
  <2>1. p \in Nat
    BY <1>0
  <2> QED
    BY <2>1, DigitsAre
<1>1. p = a * 262144 + b * 4096 + c * 64 + d
  BY <1>a, SMT DEF Digits
<1>2. /\ b \in Nat /\ c \in Nat /\ d \in Nat /\ b < 64 /\ c < 64 /\ d < 64
  BY SMT DEF Six
<1>3. Encoded(p) = IF p <= 127 THEN <<p>>
                   ELSE IF p <= 2047 THEN <<192 + (a * 4096 + b * 64 + c), 128 + d>>
                   ELSE IF p <= 65535 THEN <<224 + (a * 64 + b), 128 + c, 128 + d>>
                   ELSE <<240 + a, 128 + b, 128 + c, 128 + d>>
  BY <1>a, EncodedIs, SMT
<1>4. CASE p <= 127
  <2>1. Encoded(p) = <<p>> /\ p \in Bytes
    BY <1>0, <1>3, <1>4, ByteIs, SMT
  <2>2. Needed(p) = 1 /\ Fit(<<p>>) /\ <<p>>[1] = p /\ Len(<<p>>) = 1
        /\ Point(<<p>>) = p /\ <<p>> \in Seq(Bytes)
    BY <1>0, <1>4, <2>1, FitOne, SMT
  <2> QED
    BY <2>1, <2>2, SMT
<1>5. CASE 127 < p /\ p <= 2047
  <2> DEFINE h == a * 4096 + b * 64 + c
             x1 == 192 + h
             x2 == 128 + d
  <2>1. h \in Nat /\ p = h * 64 + d
    BY <1>1, <1>2, SMT
  <2> HIDE DEF h
  <2>2. 2 <= h /\ h < 32
    BY <1>2, <1>5, <2>1, SMT
  <2>3. Encoded(p) = <<x1, x2>>
    BY <1>0, <1>3, <1>5, SMT DEF h
  <2>4. x1 \in Nat /\ x2 \in Nat /\ x1 < 256 /\ x2 < 256
    BY <1>2, <2>1, <2>2, SMT
  <2>5. x1 % 32 = h /\ x2 % 64 = d
    BY <1>2, <2>1, <2>2, SMT
  <2>6. 194 <= x1 /\ x1 <= 223 /\ 128 <= x2 /\ x2 < 192
    BY <1>2, <2>1, <2>2, SMT
  <2> HIDE DEF x1, x2
  <2>7. x1 \in Bytes /\ x2 \in Bytes
    BY <2>4, ByteIs, SMT
  <2> DEFINE s == <<x1, x2>>
  <2>8. /\ Len(s) = 2 /\ s \in Seq(Bytes) /\ s[1] = x1
        /\ Point(s) = (x1 % 32) * 64 + (x2 % 64)
        /\ Needed(x1) = 2 <=> 194 <= x1 /\ x1 <= 223
        /\ Needed(x1) = 2 => (Fit(s) <=> 128 <= x2 /\ x2 < 192)
    BY <2>7, FitTwo
  <2> HIDE DEF s
  <2>9. Needed(x1) = 2 /\ Fit(s) /\ Point(s) = p
    BY <2>1, <2>5, <2>6, <2>8, SMT
  <2> QED
    BY <2>3, <2>8, <2>9, SMT DEF s
<1>6. CASE 2047 < p /\ p <= 65535
  <2> DEFINE h == a * 64 + b
             x1 == 224 + h
             x2 == 128 + c
             x3 == 128 + d
  <2>1. h \in Nat /\ p = h * 4096 + c * 64 + d
    BY <1>1, <1>2, SMT
  <2> HIDE DEF h
  <2>2. h < 16 /\ (h = 0 => c >= 32) /\ (h = 13 => c < 32)
    BY <1>0, <1>2, <1>6, <2>1, SMT
  <2>3. Encoded(p) = <<x1, x2, x3>>
    BY <1>0, <1>3, <1>6, SMT DEF h
  <2>4. x1 \in Nat /\ x2 \in Nat /\ x3 \in Nat /\ x1 < 256 /\ x2 < 256 /\ x3 < 256
    BY <1>2, <2>1, <2>2, SMT
  <2>5. x1 % 16 = h /\ x2 % 64 = c /\ x3 % 64 = d
    BY <1>2, <2>1, <2>2, SMT
  <2>6. /\ 224 <= x1 /\ x1 <= 239 /\ 128 <= x2 /\ x2 < 192 /\ 128 <= x3 /\ x3 < 192
        /\ x1 = 224 => x2 >= 160
        /\ x1 = 237 => x2 < 160
    BY <1>2, <2>1, <2>2, SMT
  <2> HIDE DEF x1, x2, x3
  <2>7. x1 \in Bytes /\ x2 \in Bytes /\ x3 \in Bytes
    BY <2>4, ByteIs, SMT
  <2> DEFINE s == <<x1, x2, x3>>
  <2>8. /\ Len(s) = 3 /\ s \in Seq(Bytes) /\ s[1] = x1
        /\ Point(s) = (x1 % 16) * 4096 + (x2 % 64) * 64 + (x3 % 64)
        /\ Needed(x1) = 3 <=> 224 <= x1 /\ x1 <= 239
        /\ Needed(x1) = 3 =>
              (Fit(s) <=> /\ 128 <= x2 /\ x2 < 192 /\ 128 <= x3 /\ x3 < 192
                          /\ x1 = 224 => x2 >= 160
                          /\ x1 = 237 => x2 < 160)
    BY <2>7, FitThree
  <2> HIDE DEF s
  <2>9. Needed(x1) = 3 /\ Fit(s) /\ Point(s) = p
    BY <2>1, <2>5, <2>6, <2>8, SMT
  <2> QED
    BY <2>3, <2>8, <2>9, SMT DEF s
<1>7. CASE 65535 < p
  <2> DEFINE x1 == 240 + a
             x2 == 128 + b
             x3 == 128 + c
             x4 == 128 + d
  <2>2. a < 5 /\ (a = 0 => b >= 16) /\ (a = 4 => b < 16)
    BY <1>0, <1>1, <1>2, <1>7, SMT
  <2>3. Encoded(p) = <<x1, x2, x3, x4>>
    BY <1>0, <1>3, <1>7, SMT
  <2>4. /\ x1 \in Nat /\ x2 \in Nat /\ x3 \in Nat /\ x4 \in Nat
        /\ x1 < 256 /\ x2 < 256 /\ x3 < 256 /\ x4 < 256
    BY <1>2, <2>2, SMT
  <2>5. x1 % 8 = a /\ x2 % 64 = b /\ x3 % 64 = c /\ x4 % 64 = d
    BY <1>2, <2>2, SMT
  <2>6. /\ 240 <= x1 /\ x1 <= 244 /\ 128 <= x2 /\ x2 < 192
        /\ 128 <= x3 /\ x3 < 192 /\ 128 <= x4 /\ x4 < 192
        /\ x1 = 240 => x2 >= 144
        /\ x1 = 244 => x2 < 144
    BY <1>2, <2>2, SMT
  <2> HIDE DEF x1, x2, x3, x4
  <2>7. x1 \in Bytes /\ x2 \in Bytes /\ x3 \in Bytes /\ x4 \in Bytes
    BY <2>4, ByteIs, SMT
  <2> DEFINE s == <<x1, x2, x3, x4>>
  <2>8. /\ Len(s) = 4 /\ s \in Seq(Bytes) /\ s[1] = x1
        /\ Point(s) = (x1 % 8) * 262144 + (x2 % 64) * 4096 + (x3 % 64) * 64 + (x4 % 64)
        /\ Needed(x1) = 4 <=> 240 <= x1 /\ x1 <= 244
        /\ Needed(x1) = 4 =>
              (Fit(s) <=> /\ 128 <= x2 /\ x2 < 192
                          /\ 128 <= x3 /\ x3 < 192 /\ 128 <= x4 /\ x4 < 192
                          /\ x1 = 240 => x2 >= 144
                          /\ x1 = 244 => x2 < 144)
    BY <2>7, FitFour
  <2> HIDE DEF s
  <2>9. Needed(x1) = 4 /\ Fit(s) /\ Point(s) = p
    BY <1>1, <2>5, <2>6, <2>8, SMT
  <2> QED
    BY <2>3, <2>8, <2>9, SMT DEF s
<1> QED
  BY <1>0, <1>4, <1>5, <1>6, <1>7, SMT

\* Four bytes that fit are the encoding of their point.
LEMMA FourIs ==
    ASSUME AllBytes, NEW x1 \in Bytes, NEW x2 \in Bytes, NEW x3 \in Bytes, NEW x4 \in Bytes,
           Needed(x1) = 4, Fit(<<x1, x2, x3, x4>>)
    PROVE  LET s == <<x1, x2, x3, x4>> IN Valid(Point(s)) /\ Encoded(Point(s)) = s
<1> DEFINE s == <<x1, x2, x3, x4>>
           a == x1 - 240
           b == x2 - 128
           c == x3 - 128
           d == x4 - 128
           p == Digits(a, b, c, d)
<1>1. /\ Point(s) = (x1 % 8) * 262144 + (x2 % 64) * 4096 + (x3 % 64) * 64 + (x4 % 64)
      /\ 240 <= x1 /\ x1 <= 244 /\ 128 <= x2 /\ x2 < 192
      /\ 128 <= x3 /\ x3 < 192 /\ 128 <= x4 /\ x4 < 192
      /\ x1 = 240 => x2 >= 144
      /\ x1 = 244 => x2 < 144
  BY FitFour, SMT
<1>2. x1 \in Nat /\ x2 \in Nat /\ x3 \in Nat /\ x4 \in Nat
  BY ByteIs
<1> HIDE DEF s
<1>3. /\ a \in Nat /\ b \in Nat /\ c \in Nat /\ d \in Nat
      /\ a < 5 /\ b < 64 /\ c < 64 /\ d < 64
      /\ x1 % 8 = a /\ x2 % 64 = b /\ x3 % 64 = c /\ x4 % 64 = d
      /\ x1 = 240 + a /\ x2 = 128 + b /\ x3 = 128 + c /\ x4 = 128 + d
      /\ a = 0 => b >= 16
      /\ a = 4 => b < 16
  BY <1>1, <1>2, SMT
<1> HIDE DEF a, b, c, d
<1>4. b \in Six /\ c \in Six /\ d \in Six
  BY <1>3, SMT DEF Six
<1>5. Point(s) = p
  <2>1. Point(s) = a * 262144 + b * 4096 + c * 64 + d
    BY <1>1, <1>3, SMT
  <2> QED
    BY <2>1, SMT DEF Digits
<1>6. p \in Nat /\ 65535 < p /\ p <= 1114111
  <2>1. b * 4096 + c * 64 + d < 262144 /\ c * 64 + d < 4096
    BY <1>3, SMT
  <2>2. a = 0 \/ a = 4 \/ (1 <= a /\ a <= 3)
    BY <1>3, SMT
  <2> QED
    BY <1>3, <2>1, <2>2, SMT DEF Digits
<1> HIDE DEF p
<1>7. Valid(p)
  BY <1>6, SMT DEF Valid, Surrogate, HighSurrogate, LowSurrogate
<1>8. Encoded(p) = IF p <= 127 THEN <<p>>
                   ELSE IF p <= 2047 THEN <<192 + (a * 4096 + b * 64 + c), 128 + d>>
                   ELSE IF p <= 65535 THEN <<224 + (a * 64 + b), 128 + c, 128 + d>>
                   ELSE <<240 + a, 128 + b, 128 + c, 128 + d>>
  <2>1. a \in Nat
    BY <1>3
  <2> QED
    BY <1>4, <2>1, EncodedIs, SMT DEF p
<1>9. Encoded(p) = <<240 + a, 128 + b, 128 + c, 128 + d>>
  BY <1>6, <1>8, SMT
<1>10. <<240 + a, 128 + b, 128 + c, 128 + d>> = s
  BY <1>3, SMT DEF s
<1> QED
  BY <1>5, <1>7, <1>9, <1>10, SMT DEF s

\* A sequence that fits and is as long as its first byte says is the encoding of
\* the character it says.
LEMMA WholeIs ==
    ASSUME AllBytes, NEW s \in Seq(Bytes), Len(s) # 0, Len(s) = Needed(s[1]), Fit(s)
    PROVE  Valid(Point(s)) /\ Encoded(Point(s)) = s
<1>1. /\ Len(s) \in Nat \ {0}
      /\ \A i \in 1 .. Len(s) : s[i] \in Bytes
  BY SMT
<1>2. s[1] \in Bytes
  BY <1>1, SMT
<1>3. Len(s) = 1 \/ Len(s) = 2 \/ Len(s) = 3 \/ Len(s) = 4
  BY <1>1, <1>2, ByteIs, NeededIs, SMT
<1> DEFINE p == Point(s)
<1>4. CASE Len(s) = 1
  <2> DEFINE x1 == s[1]
  <2>1. s = <<x1>>
    BY <1>1, <1>4, SMT
  <2> HIDE DEF x1
  <2>2. x1 \in Bytes /\ Needed(x1) = 1
    BY <1>2, <1>4 DEF x1
  <2>3. p = x1 /\ 1 <= x1 /\ x1 <= 127
    BY <2>1, <2>2, FitOne
  <2>4. x1 \in Nat
    BY <2>2, ByteIs
  <2> HIDE DEF p
  <2>5. Valid(p)
    BY <2>3, <2>4, SMT DEF Valid, Surrogate, HighSurrogate, LowSurrogate
  <2>6. Encoded(p) = <<p>>
    BY <2>3, <2>4, SMT DEF Encoded
  <2> QED
    BY <2>1, <2>3, <2>5, <2>6 DEF p
<1>5. CASE Len(s) = 2
  <2> DEFINE x1 == s[1]
             x2 == s[2]
  <2>1. s = <<x1, x2>> /\ x2 \in Bytes
    BY <1>1, <1>5, SMT
  <2> HIDE DEF x1, x2
  <2>2. x1 \in Bytes /\ Needed(x1) = 2
    BY <1>2, <1>5 DEF x1
  <2>3. /\ p = (x1 % 32) * 64 + (x2 % 64)
        /\ 194 <= x1 /\ x1 <= 223 /\ 128 <= x2 /\ x2 < 192
    BY <2>1, <2>2, FitTwo
  <2>4. x1 \in Nat /\ x2 \in Nat
    BY <2>1, <2>2, ByteIs
  <2> HIDE DEF p
  <2> DEFINE h == x1 - 192
             d == x2 - 128
  <2>5. /\ h \in Nat /\ d \in Nat /\ 2 <= h /\ h < 32 /\ d < 64
        /\ x1 % 32 = h /\ x2 % 64 = d /\ x1 = 192 + h /\ x2 = 128 + d
    BY <2>3, <2>4, SMT
  <2> HIDE DEF h, d
  <2>6. p = h * 64 + d /\ p \in Nat /\ 127 < p /\ p <= 2047
    BY <2>3, <2>5, SMT
  <2>7. Valid(p)
    BY <2>6, SMT DEF Valid, Surrogate, HighSurrogate, LowSurrogate
  <2>8. h \in Six /\ d \in Six /\ 0 \in Six /\ 0 \in Nat
    BY <2>5, SMT DEF Six
  <2>9. p = Digits(0, 0, h, d) /\ 0 * 4096 + 0 * 64 + h = h
    BY <2>5, <2>6, SMT DEF Digits
  <2>10. Encoded(p) = <<192 + h, 128 + d>>
    BY <2>6, <2>8, <2>9, EncodedIs, SMT
  <2> QED
    BY <2>1, <2>5, <2>7, <2>10 DEF p
<1>6. CASE Len(s) = 3
  <2> DEFINE x1 == s[1]
             x2 == s[2]
             x3 == s[3]
  <2>1. s = <<x1, x2, x3>> /\ x2 \in Bytes /\ x3 \in Bytes
    BY <1>1, <1>6, SMT
  <2> HIDE DEF x1, x2, x3
  <2>2. x1 \in Bytes /\ Needed(x1) = 3
    BY <1>2, <1>6 DEF x1
  <2>3. /\ p = (x1 % 16) * 4096 + (x2 % 64) * 64 + (x3 % 64)
        /\ 224 <= x1 /\ x1 <= 239 /\ 128 <= x2 /\ x2 < 192 /\ 128 <= x3 /\ x3 < 192
        /\ x1 = 224 => x2 >= 160
        /\ x1 = 237 => x2 < 160
    BY <2>1, <2>2, FitThree
  <2>4. x1 \in Nat /\ x2 \in Nat /\ x3 \in Nat
    BY <2>1, <2>2, ByteIs
  <2> HIDE DEF p
  <2> DEFINE h == x1 - 224
             c == x2 - 128
             d == x3 - 128
  <2>5. /\ h \in Nat /\ c \in Nat /\ d \in Nat /\ h < 16 /\ c < 64 /\ d < 64
        /\ x1 % 16 = h /\ x2 % 64 = c /\ x3 % 64 = d
        /\ x1 = 224 + h /\ x2 = 128 + c /\ x3 = 128 + d
        /\ h = 0 => c >= 32
        /\ h = 13 => c < 32
    BY <2>3, <2>4, SMT
  <2> HIDE DEF h, c, d
  <2>6. p = h * 4096 + c * 64 + d /\ p \in Nat /\ 2047 < p /\ p <= 65535
    BY <2>3, <2>5, SMT
  <2>7. Valid(p)
    BY <2>5, <2>6, SMT DEF Valid, Surrogate, HighSurrogate, LowSurrogate
  <2>8. h \in Six /\ c \in Six /\ d \in Six /\ 0 \in Nat
    BY <2>5, SMT DEF Six
  <2>9. p = Digits(0, h, c, d) /\ 0 * 64 + h = h
    BY <2>5, <2>6, SMT DEF Digits
  <2>10. Encoded(p) = <<224 + h, 128 + c, 128 + d>>
    BY <2>6, <2>8, <2>9, EncodedIs, SMT
  <2> QED
    BY <2>1, <2>5, <2>7, <2>10 DEF p
<1>7. CASE Len(s) = 4
  <2> DEFINE x1 == s[1]
             x2 == s[2]
             x3 == s[3]
             x4 == s[4]
  <2>1. s = <<x1, x2, x3, x4>> /\ x2 \in Bytes /\ x3 \in Bytes /\ x4 \in Bytes
    BY <1>1, <1>7, SMT
  <2> HIDE DEF x1, x2, x3, x4
  <2>2. x1 \in Bytes /\ Needed(x1) = 4
    BY <1>2, <1>7 DEF x1
  <2>3. Fit(<<x1, x2, x3, x4>>)
    BY <2>1
  <2>4. Valid(Point(<<x1, x2, x3, x4>>)) /\ Encoded(Point(<<x1, x2, x3, x4>>)) = <<x1, x2, x3, x4>>
    BY <2>1, <2>2, <2>3, FourIs
  <2> QED
    BY <2>1, <2>4
<1> QED
  BY <1>3, <1>4, <1>5, <1>6, <1>7

\* The bits that the bytes behind the first bring.
LEMMA LowIs ==
    ASSUME AllBytes, NEW unit \in Nat, NEW x
    PROVE  x \in Low(unit) <=> \E d \in Six : x = d * unit
<1>1. ASSUME x \in Low(unit) PROVE \E d \in Six : x = d * unit
  <2>1. PICK b \in Bytes : x = (b % 64) * unit
    BY <1>1, SMT DEF Low
  <2>2. b \in Nat
    BY <2>1, ByteIs
  <2>3. b % 64 \in Six
    BY <2>2, SMT DEF Six
  <2> QED
    BY <2>1, <2>3
<1>2. ASSUME NEW d \in Six, x = d * unit PROVE x \in Low(unit)
  <2> DEFINE b == 128 + d
  <2>1. b \in Nat /\ b < 256 /\ b % 64 = d /\ 128 <= b /\ b < 192
    BY SMT DEF Six
  <2> HIDE DEF b
  <2>2. b \in Bytes /\ IsTrail(b)
    BY <2>1, ByteIs, TrailIs
  <2> QED
    BY <1>2, <2>1, <2>2 DEF Low
<1> QED
  BY <1>1, <1>2

\* The characters that can be written are all there are.
LEMMA CharIs ==
    ASSUME AllBytes, NEW p
    PROVE  p \in Characters <=> Valid(p)
<1> DEFINE Two == {a * 64 + d : a \in 0 .. 31, d \in Low(1)}
           Three == {a * 4096 + c + d : a \in 0 .. 15, c \in Low(64), d \in Low(1)}
           Four == {a * 262144 + b + c + d : a \in 0 .. 7, b \in Low(4096), c \in Low(64), d \in Low(1)}
           Room == UNION {Bytes, Two, Three, Four}
           Right(q) == 0 < q /\ q <= 1114111 /\ ~Surrogate(q) /\ ToSet(Encoded(q)) \subseteq Bytes
<1>1. Characters = {q \in Room : Right(q)}
  BY SMT DEF Characters
<1>2. \A x : (x \in Low(1) <=> \E d \in Six : x = d * 1)
  BY LowIs
<1>3. \A x : (x \in Low(64) <=> \E d \in Six : x = d * 64)
  BY LowIs
<1>4. \A x : (x \in Low(4096) <=> \E d \in Six : x = d * 4096)
  BY LowIs, SMT
<1>5. Low(1) \subseteq Nat /\ Low(64) \subseteq Nat /\ Low(4096) \subseteq Nat
  BY <1>2, <1>3, <1>4, SMT DEF Six
<1>6. Six \subseteq Low(1)
  BY <1>2, SMT DEF Six
<1>7. Two \subseteq Nat /\ Three \subseteq Nat /\ Four \subseteq Nat /\ Bytes \subseteq Nat
  <2>1. \A a \in 0 .. 31, d \in Nat : a * 64 + d \in Nat
    BY SMT
  <2>2. \A a \in 0 .. 15, c \in Nat, d \in Nat : a * 4096 + c + d \in Nat
    BY SMT
  <2>3. \A a \in 0 .. 7, b \in Nat, c \in Nat, d \in Nat : a * 262144 + b + c + d \in Nat
    BY SMT
  <2> QED
    BY <1>5, <2>1, <2>2, <2>3, ByteIs, SMT
<1>8. ASSUME p \in Characters PROVE Valid(p)
  <2> HIDE DEF Two, Three, Four
  <2> QED
    BY <1>1, <1>7, <1>8, SMT DEF Valid
<1>9. ASSUME Valid(p) PROVE p \in Characters
  <2>0. p \in Nat /\ 0 < p /\ p <= 1114111 /\ ~Surrogate(p)
    BY <1>9, SMT DEF Valid
  <2>1. ToSet(Encoded(p)) \subseteq Bytes
    <3>1. Encoded(p) \in Seq(Bytes)
      BY <1>9, EncodingFits
    <3> DEFINE e == Encoded(p)
    <3> HIDE DEF e
    <3>2. \A i \in DOMAIN e : e[i] \in Bytes
      BY <3>1 DEF e
    <3> QED
      BY <3>2 DEF ToSet, e
  <2>2. PICK a \in Nat, b \in Six, c \in Six, d \in Six : p = Digits(a, b, c, d)
    BY <2>0, DigitsAre, SMT
  <2>3. b \in Nat /\ c \in Nat /\ d \in Nat /\ b < 64 /\ c < 64 /\ d < 64
    BY SMT DEF Six
  <2>4. p = a * 262144 + b * 4096 + c * 64 + d
    BY <2>2, SMT DEF Digits
  <2>5. d \in Low(1) /\ c * 64 \in Low(64) /\ b * 4096 \in Low(4096)
    BY <1>3, <1>4, <1>6, SMT
  <2>6. p \in Room
    <3>1. CASE p <= 2047
      <4>1. a = 0 /\ b = 0 /\ c < 32
        BY <2>3, <2>4, <3>1, SMT
      <4>2. c \in 0 .. 31 /\ p = c * 64 + d
        BY <2>3, <2>4, <4>1, SMT
      <4>3. p \in Two
        BY <2>5, <4>2
      <4> HIDE DEF Two, Three, Four
      <4> QED
        BY <4>3
    <3>2. CASE 2047 < p /\ p <= 65535
      <4>1. a = 0 /\ b < 16
        BY <2>3, <2>4, <3>2, SMT
      <4> DEFINE l == c * 64
      <4>2. b \in 0 .. 15 /\ p = b * 4096 + l + d /\ l \in Low(64)
        BY <2>3, <2>4, <2>5, <4>1, SMT
      <4> HIDE DEF l
      <4>3. p \in Three
        BY <2>5, <4>2, SMT
      <4> HIDE DEF Two, Three, Four
      <4> QED
        BY <4>3, SMT
    <3>3. CASE 65535 < p
      <4>1. a < 5
        BY <2>0, <2>3, <2>4, SMT
      <4> DEFINE l == c * 64
                 k == b * 4096
      <4>2. a \in 0 .. 7 /\ p = a * 262144 + k + l + d /\ l \in Low(64) /\ k \in Low(4096)
        BY <2>3, <2>4, <2>5, <4>1, SMT
      <4> HIDE DEF l, k
      <4>3. p \in Four
        BY <2>5, <4>2, SMT
      <4> HIDE DEF Two, Three, Four
      <4> QED
        BY <4>3, SMT
    <3> QED
      BY <2>0, <3>1, <3>2, <3>3, SMT
  <2> HIDE DEF Room
  <2> QED
    BY <1>1, <2>0, <2>1, <2>6, SMT
<1> QED
  BY <1>8, <1>9, SMT

\* The encodings are the sequences that fit and are as long as they need to be.
LEMMA EncodingIs ==
    ASSUME AllBytes, NEW s
    PROVE  s \in Encodings <=>
              /\ s \in Seq(Bytes) /\ Len(s) # 0 /\ Len(s) = Needed(s[1]) /\ Fit(s)
<1>1. ASSUME s \in Encodings
      PROVE  s \in Seq(Bytes) /\ Len(s) # 0 /\ Len(s) = Needed(s[1]) /\ Fit(s)
  <2>1. PICK p \in Characters : s = Encoded(p)
    BY <1>1 DEF Encodings
  <2>2. Valid(p)
    BY <2>1, CharIs
  <2> QED
    BY <2>1, <2>2, EncodingFits
<1>2. ASSUME s \in Seq(Bytes), Len(s) # 0, Len(s) = Needed(s[1]), Fit(s)
      PROVE  s \in Encodings
  <2>1. Valid(Point(s)) /\ Encoded(Point(s)) = s
    BY <1>2, WholeIs
  <2>2. Point(s) \in Characters
    BY <2>1, CharIs
  <2> QED
    BY <2>1, <2>2 DEF Encodings
<1> QED
  BY <1>1, <1>2

\* What begins like a sequence that fits, fits.
LEMMA FitPrefix ==
    ASSUME NEW e \in Seq(Bytes), Fit(e), NEW n \in 1 .. Len(e)
    PROVE  LET x == SubSeq(e, 1, n)
           IN  x \in Seq(Bytes) /\ Len(x) = n /\ x[1] = e[1] /\ Fit(x)
<1> DEFINE x == SubSeq(e, 1, n)
<1>1. n \in Nat /\ 1 <= n /\ n <= Len(e) /\ Len(e) \in Nat
  OBVIOUS
<1>2. x \in Seq(Bytes) /\ Len(x) = n /\ \A i \in 1 .. n : x[i] = e[i]
  BY <1>1
<1> HIDE DEF x
<1>3. x[1] = e[1]
  BY <1>1, <1>2
<1>4. Fit(x)
  <2>1. Needed(x[1]) = Needed(e[1])
    BY <1>3
  <2>2. ASSUME Needed(e[1]) >= 2, n >= 2 PROVE SecondFits(x[1], x[2])
    BY <1>1, <1>2, <1>3, <2>2 DEF Fit
  <2>3. ASSUME NEW i \in 2 .. n, i <= Needed(e[1]) PROVE IsTrail(x[i])
    <3>1. i \in 2 .. Len(e) /\ i \in 1 .. n
      BY <1>1
    <3> QED
      BY <1>2, <2>3, <3>1 DEF Fit
  <2> QED
    BY <1>2, <2>1, <2>2, <2>3 DEF Fit
<1> QED
  BY <1>2, <1>3, <1>4 DEF x

\* The byte that can always come next.
NextByte(first, i) ==
    IF i = 2 /\ first = 224 THEN 160 ELSE IF i = 2 /\ first = 240 THEN 144 ELSE 128

\* Whatever fits can be completed.
LEMMA Completed ==
    ASSUME AllBytes, NEW x \in Seq(Bytes), Len(x) # 0, Fit(x), Len(x) < Needed(x[1])
    PROVE  \E e \in Encodings : Len(x) < Len(e) /\ x = SubSeq(e, 1, Len(x))
<1> DEFINE n == Needed(x[1])
           l == Len(x)
           e == [i \in 1 .. n |-> IF i <= l THEN x[i] ELSE NextByte(x[1], i)]
<1>1. l \in Nat \ {0} /\ \A i \in 1 .. l : x[i] \in Bytes
  OBVIOUS
<1>2. x[1] \in Bytes /\ x[1] \in Nat
  <2>1. x[1] \in Bytes
    BY <1>1
  <2> QED
    BY <2>1, ByteIs
<1>3. n \in Nat
  BY <1>2, NeededIs, SMT
<1>4. l < n /\ 1 \in 1 .. l /\ 1 \in 1 .. n
  BY <1>1, <1>3
<1> HIDE DEF n
<1>5. \A i \in Nat : NextByte(x[1], i) \in Nat /\ 128 <= NextByte(x[1], i) /\ NextByte(x[1], i) < 192
  BY SMT DEF NextByte
<1>6. \A i \in 1 .. n : e[i] = IF i <= l THEN x[i] ELSE NextByte(x[1], i)
  OBVIOUS
<1>7. e \in Seq(Bytes) /\ Len(e) = n
  <2>1. ASSUME NEW i \in 1 .. n PROVE (IF i <= l THEN x[i] ELSE NextByte(x[1], i)) \in Bytes
    <3>1. CASE i <= l
      BY <1>1, <1>3, <3>1
    <3>2. CASE ~(i <= l)
      <4>1. i \in Nat
        BY <1>3
      <4>2. NextByte(x[1], i) \in Nat /\ NextByte(x[1], i) < 192
        BY <1>5, <4>1
      <4>3. NextByte(x[1], i) < 256
        BY <4>2, SMT
      <4> QED
        BY <3>2, <4>2, <4>3, ByteIs
    <3> QED
      BY <3>1, <3>2
  <2> DEFINE E(i) == IF i <= l THEN x[i] ELSE NextByte(x[1], i)
  <2>2. \A i \in 1 .. n : E(i) \in Bytes
    BY <2>1
  <2> HIDE DEF E
  <2>3. [i \in 1 .. n |-> E(i)] \in [1 .. n -> Bytes]
    BY <2>2
  <2>4. [i \in 1 .. n |-> E(i)] \in Seq(Bytes) /\ Len([i \in 1 .. n |-> E(i)]) = n
    BY <1>3, <2>3
  <2> QED
    BY <2>4 DEF E
<1> HIDE DEF e
<1>8. e[1] = x[1] /\ \A i \in 1 .. l : e[i] = x[i]
  BY <1>1, <1>3, <1>4, <1>6
<1>9. Fit(e)
  <2>1. Needed(e[1]) = n /\ n # 0
    BY <1>8 DEF Fit, n
  <2>2. ASSUME n >= 2 PROVE SecondFits(e[1], e[2])
    <3>1. CASE l >= 2
      <4>1. SecondFits(x[1], x[2])
        BY <2>2, <3>1 DEF Fit, n
      <4>2. 2 \in 1 .. l
        BY <1>1, <3>1
      <4> QED
        BY <1>8, <4>1, <4>2
    <3>2. CASE ~(l >= 2)
      <4>1. 2 \in 1 .. n /\ ~(2 <= l)
        BY <1>1, <1>3, <2>2, <3>2
      <4>2. e[2] = NextByte(x[1], 2)
        BY <1>6, <4>1
      <4> DEFINE b == NextByte(x[1], 2)
      <4>3. IsTrail(b)
        BY <1>5, TrailIs
      <4>4. /\ x[1] = 224 => b = 160
            /\ x[1] = 240 => b = 144
            /\ x[1] # 224 /\ x[1] # 240 => b = 128
        BY SMT DEF NextByte
      <4> HIDE DEF b
      <4>5. SecondFits(x[1], b)
        BY <1>2, <4>3, <4>4, SMT DEF SecondFits
      <4> QED
        BY <1>8, <4>2, <4>5 DEF b
    <3> QED
      BY <3>1, <3>2
  <2>3. ASSUME NEW i \in 2 .. n PROVE IsTrail(e[i])
    <3>0. i \in Nat /\ i \in 1 .. n
      BY <1>3
    <3>1. CASE i <= l
      <4>1. i \in 2 .. l /\ i \in 1 .. l /\ i <= n
        BY <1>1, <1>3, <3>1
      <4>2. IsTrail(x[i])
        BY <4>1 DEF Fit, n
      <4> QED
        BY <1>8, <4>1, <4>2
    <3>2. CASE ~(i <= l)
      BY <1>5, <1>6, <3>0, <3>2, TrailIs
    <3> QED
      BY <3>1, <3>2
  <2> QED
    BY <1>7, <2>1, <2>2, <2>3 DEF Fit
<1>10. e \in Encodings
  <2>1. Len(e) # 0 /\ Len(e) = Needed(e[1])
    BY <1>3, <1>4, <1>7, <1>8 DEF n
  <2> QED
    BY <1>7, <1>9, <2>1, EncodingIs
<1>11. x = SubSeq(e, 1, l)
  <2>1. l \in 1 .. Len(e)
    BY <1>1, <1>3, <1>4, <1>7
  <2>2. SubSeq(e, 1, l) \in Seq(Bytes) /\ Len(SubSeq(e, 1, l)) = l
        /\ \A i \in 1 .. l : SubSeq(e, 1, l)[i] = e[i]
    BY <1>7, <2>1
  <2> QED
    BY <1>8, <2>2, SeqEqual
<1> QED
  BY <1>4, <1>7, <1>10, <1>11

\* The beginnings of characters: nothing, or what fits and is too short.
LEMMA BegunIs ==
    ASSUME AllBytes, NEW x
    PROVE  x \in Begun <=>
              \/ x = << >>
              \/ /\ x \in Seq(Bytes) /\ Len(x) # 0 /\ Fit(x)
                 /\ Len(x) < Needed(x[1])
<1>1. ASSUME NEW e \in Encodings, NEW n \in 0 .. Len(e) - 1
      PROVE  LET y == SubSeq(e, 1, n)
             IN  \/ y = << >>
                 \/ /\ y \in Seq(Bytes) /\ Len(y) # 0 /\ Fit(y)
                    /\ Len(y) < Needed(y[1])
  <2>1. e \in Seq(Bytes) /\ Len(e) # 0 /\ Len(e) = Needed(e[1]) /\ Fit(e)
    BY EncodingIs
  <2>2. CASE n = 0
    BY <2>2, SubSeqEmpty
  <2>3. CASE n # 0
    <3>1. n \in 1 .. Len(e) /\ n < Len(e) /\ n # 0
      BY <2>1, <2>3
    <3> QED
      BY <2>1, <3>1, FitPrefix
  <2> QED
    BY <2>2, <2>3
<1>2. ASSUME x \in Begun
      PROVE  \E e \in Encodings : \E n \in 0 .. Len(e) - 1 : x = SubSeq(e, 1, n)
  BY <1>2 DEF Begun
<1>a. ASSUME NEW e \in Encodings, NEW n \in 0 .. Len(e) - 1
      PROVE  SubSeq(e, 1, n) \in Begun
  <2>1. SubSeq(e, 1, n) \in {SubSeq(e, 1, m) : m \in 0 .. Len(e) - 1}
    OBVIOUS
  <2> QED
    BY <2>1, Zenon DEF Begun
<1>3. << >> \in Begun
  <2>1. 1 \in Bytes /\ 1 \in Nat
    BY ByteIs, SMT
  <2>2. Needed(1) = 1
    BY NeededIs, SMT
  <2> DEFINE s == <<1>>
  <2>3. Len(s) = 1 /\ s \in Seq(Bytes) /\ s[1] = 1 /\ Fit(s)
    <3> SUFFICES ASSUME NEW x1 \in Bytes, x1 = 1
                 PROVE  LET r == <<x1>> IN Len(r) = 1 /\ r \in Seq(Bytes) /\ r[1] = x1 /\ Fit(r)
      BY <2>1
    <3>1. Needed(x1) = 1
      BY <2>2
    <3> HIDE DEF s
    <3> QED
      BY <3>1, FitOne, Zenon
  <2> HIDE DEF s
  <2>4. s \in Encodings
    <3>1. Len(s) # 0 /\ Len(s) = Needed(s[1])
      BY <2>2, <2>3, SMT
    <3> QED
      BY <2>3, <3>1, EncodingIs, Zenon
  <2>5. 0 \in 0 .. (Len(s) - 1) /\ SubSeq(s, 1, 0) = << >>
    BY <2>3, SubSeqEmpty
  <2> QED
    BY <1>a, <2>4, <2>5
<1>4. ASSUME x \in Seq(Bytes), Len(x) # 0, Fit(x), Len(x) < Needed(x[1])
      PROVE  x \in Begun
  <2>1. PICK e \in Encodings : Len(x) < Len(e) /\ x = SubSeq(e, 1, Len(x))
    BY <1>4, Completed
  <2>2. Len(x) \in 0 .. Len(e) - 1
    <3>1. e \in Seq(Bytes) /\ x \in Seq(Bytes)
      BY <1>4, EncodingIs
    <3>2. Len(e) \in Nat /\ Len(x) \in Nat
      BY <3>1
    <3> QED
      BY <2>1, <3>2
  <2> QED
    BY <1>a, <2>1, <2>2
<1> QED
  BY <1>1, <1>2, <1>3, <1>4

-----------------------------------------------------------------------------
(* Bytes with which a text may begin.                                       *)

\* The cuts of Viable.
CutsText(cuts, x) ==
    /\ cuts \subseteq 0 .. Len(x)
    /\ 0 \in cuts
    /\ \A a \in cuts : \/ SubSeq(x, a + 1, Len(x)) \in Begun
                       \/ \E b \in cuts : SubSeq(x, a + 1, b) \in Encodings

\* A text can begin with these bytes if they can be cut.
LEMMA ViableIs ==
    ASSUME NEW x
    PROVE  Viable(x) <=> \E cuts : CutsText(cuts, x)
  BY DEF Viable, CutsText

\* What lies behind the first part of a sequence.
LEMMA SubSeqBehind ==
    ASSUME NEW S, NEW e \in Seq(S), NEW x \in Seq(S), NEW a \in 0 .. Len(x), NEW b \in 0 .. Len(x)
    PROVE  SubSeq(e \o x, Len(e) + a + 1, Len(e) + b) = SubSeq(x, a + 1, b)
<1>1. Len(e) \in Nat /\ Len(x) \in Nat /\ a \in Nat /\ b \in Nat
  OBVIOUS
<1>2. CASE b <= a
  <2> DEFINE m == Len(e) + a + 1
             n == Len(e) + b
             k == a + 1
  <2>1. m \in Int /\ n \in Int /\ n < m /\ k \in Int /\ b \in Int /\ b < k
    BY <1>1, <1>2
  <2> HIDE DEF m, n, k
  <2>2. SubSeq(e \o x, m, n) = << >> /\ SubSeq(x, k, b) = << >>
    BY <2>1, SubSeqEmpty
  <2> QED
    BY <2>2 DEF m, n, k
<1>3. CASE a < b
  <2> DEFINE m == Len(e) + a + 1
             n == Len(e) + b
  <2>1. m \in Len(e) + 1 .. Len(e) + Len(x) /\ n \in Len(e) + 1 .. Len(e) + Len(x)
        /\ m - Len(e) = a + 1 /\ n - Len(e) = b
    BY <1>1, <1>3
  <2> HIDE DEF m, n
  <2>2. SubSeq(e \o x, m, n) = SubSeq(x, m - Len(e), n - Len(e))
    BY <2>1, SubSeqOfConcat2
  <2> QED
    BY <2>1, <2>2 DEF m, n
<1> QED
  BY <1>1, <1>2, <1>3

\* Nothing is behind a character but the rest of the text.
LEMMA ViableBehind ==
    ASSUME AllBytes, NEW e \in Encodings, NEW x \in Seq(Bytes)
    PROVE  Viable(e \o x) <=> Viable(x)
<1> DEFINE l == Len(e)
           y == e \o x
<1>1. e \in Seq(Bytes) /\ l # 0 /\ l = Needed(e[1]) /\ Fit(e)
  BY EncodingIs
<1>2. l \in Nat \ {0} /\ Len(x) \in Nat
  BY <1>1
<1>3. y \in Seq(Bytes) /\ Len(y) = l + Len(x) /\ \A i \in 1 .. l : y[i] = e[i]
  <2>1. /\ e \o x \in Seq(Bytes) /\ Len(e \o x) = Len(e) + Len(x)
        /\ \A i \in 1 .. Len(e) + Len(x) : (e \o x)[i] = IF i <= Len(e) THEN e[i] ELSE x[i - Len(e)]
    BY <1>1, ConcatProperties
  <2> HIDE DEF y
  <2>2. ASSUME NEW i \in 1 .. l PROVE i \in 1 .. Len(e) + Len(x) /\ i <= Len(e)
    BY <1>2
  <2> QED
    BY <2>1, <2>2 DEF y
<1>4. \A a, b \in 0 .. Len(x) : SubSeq(y, l + a + 1, l + b) = SubSeq(x, a + 1, b)
  BY <1>1, SubSeqBehind
<1>5. SubSeq(y, 1, l) = e
  <2>1. 1 \in 1 .. l /\ l \in 1 .. l
    BY <1>2
  <2>2. SubSeq(e \o x, 1, l) = SubSeq(e, 1, l)
    BY <1>1, <2>1, SubSeqOfConcat1
  <2>3. SubSeq(e, 1, l) = e
    BY <1>1, SubSeqFull
  <2> QED
    BY <2>2, <2>3
<1>6. y[1] = e[1] /\ Len(y) >= l
  BY <1>2, <1>3
<1> HIDE DEF l, y
<1>7. ASSUME Viable(x) PROVE Viable(y)
  <2>1. PICK cuts : CutsText(cuts, x)
    BY <1>7, ViableIs
  <2> DEFINE more == {0} \cup {l + c : c \in cuts}
  <2>2. \A c \in cuts : c \in 0 .. Len(x) /\ c \in Nat /\ l + c \in 0 .. Len(y) /\ l + c \in more
    BY <1>2, <1>3, <2>1 DEF CutsText
  <2>3. more \subseteq 0 .. Len(y) /\ 0 \in more
    BY <1>2, <1>3, <2>2
  <2>4. ASSUME NEW a \in more
        PROVE  \/ SubSeq(y, a + 1, Len(y)) \in Begun
               \/ \E b \in more : SubSeq(y, a + 1, b) \in Encodings
    <3>1. CASE a = 0
      <4>1. l \in more
        <5>1. 0 \in cuts /\ l + 0 = l
          BY <1>2, <2>1 DEF CutsText
        <5> QED
          BY <2>2, <5>1
      <4>2. SubSeq(y, a + 1, l) \in Encodings
        <5>1. a + 1 = 1
          BY <3>1
        <5> QED
          BY <1>5, <5>1
      <4> QED
        BY <4>1, <4>2
    <3>2. CASE a # 0
      <4>1. PICK c \in cuts : a = l + c
        BY <3>2
      <4> HIDE DEF more
      <4>2. CASE SubSeq(x, c + 1, Len(x)) \in Begun
        <5>1. Len(x) \in 0 .. Len(x) /\ c \in 0 .. Len(x)
          BY <1>2, <2>2
        <5>2. SubSeq(y, l + c + 1, l + Len(x)) = SubSeq(x, c + 1, Len(x))
          BY <1>4, <5>1
        <5> QED
          BY <1>3, <4>1, <4>2, <5>2
      <4>3. CASE \E b \in cuts : SubSeq(x, c + 1, b) \in Encodings
        <5>1. PICK b \in cuts : SubSeq(x, c + 1, b) \in Encodings
          BY <4>3
        <5>2. SubSeq(y, l + c + 1, l + b) = SubSeq(x, c + 1, b) /\ l + b \in more
          BY <1>4, <2>2
        <5> QED
          BY <4>1, <5>1, <5>2
      <4> QED
        BY <2>1, <4>2, <4>3 DEF CutsText
    <3> QED
      BY <3>1, <3>2
  <2> HIDE DEF more
  <2>5. CutsText(more, y)
    BY <2>3, <2>4 DEF CutsText
  <2> QED
    BY <2>5, ViableIs
<1>8. ASSUME Viable(y) PROVE Viable(x)
  <2>1. PICK cuts : CutsText(cuts, y)
    BY <1>8, ViableIs
  <2>2. \A c \in cuts : c \in 0 .. Len(y) /\ c \in Nat
    BY <1>2, <1>3, <2>1 DEF CutsText
  <2>3. l \in cuts
    <3>1. SubSeq(y, 0 + 1, Len(y)) = y
      BY <1>3, SubSeqFull
    <3>2. y \notin Begun
      <4>1. SUFFICES ASSUME y \in Begun PROVE FALSE
        OBVIOUS
      <4>2. y # << >>
        BY <1>2, <1>3
      <4>3. Len(y) < l
        BY <1>1, <1>6, <4>1, <4>2, BegunIs
      <4> QED
        BY <1>2, <1>3, <1>6, <4>3
    <3>3. PICK b \in cuts : SubSeq(y, 0 + 1, b) \in Encodings
      BY <2>1, <3>1, <3>2 DEF CutsText
    <3> DEFINE f == SubSeq(y, 1, b)
    <3>a. f \in Encodings
      <4>1. 0 + 1 = 1
        OBVIOUS
      <4> QED
        BY <3>3, <4>1
    <3>4. f \in Seq(Bytes) /\ Len(f) # 0 /\ Len(f) = Needed(f[1])
      <4> HIDE DEF f
      <4> QED
        BY <3>a, EncodingIs
    <3>5. b \in Nat /\ b # 0
      <4>1. b = 0 => f = << >>
        BY SubSeqEmpty
      <4> QED
        BY <2>2, <3>4, <4>1
    <3>6. b \in 1 .. Len(y)
      BY <2>2, <3>5
    <3>7. Len(f) = b /\ f[1] = y[1]
      BY <1>3, <3>5, <3>6
    <3> QED
      BY <1>1, <1>6, <3>4, <3>7
  <2> DEFINE rest == {c \in 0 .. Len(x) : l + c \in cuts}
  <2>4. rest \subseteq 0 .. Len(x) /\ 0 \in rest
    BY <1>2, <2>3
  <2>5. ASSUME NEW a \in rest
        PROVE  \/ SubSeq(x, a + 1, Len(x)) \in Begun
               \/ \E b \in rest : SubSeq(x, a + 1, b) \in Encodings
    <3>1. a \in 0 .. Len(x) /\ l + a \in cuts /\ Len(x) \in 0 .. Len(x) /\ a \in Nat
      BY <1>2
    <3> HIDE DEF rest
    <3>2. CASE SubSeq(y, l + a + 1, Len(y)) \in Begun
      <4>1. SubSeq(y, l + a + 1, l + Len(x)) = SubSeq(x, a + 1, Len(x))
        BY <1>4, <3>1
      <4> QED
        BY <1>3, <3>2, <4>1
    <3>3. CASE \E b \in cuts : SubSeq(y, l + a + 1, b) \in Encodings
      <4>1. PICK b \in cuts : SubSeq(y, l + a + 1, b) \in Encodings
        BY <3>3
      <4>2. SubSeq(y, l + a + 1, b) # << >>
        <5> DEFINE f == SubSeq(y, l + a + 1, b)
        <5>1. f \in Encodings
          BY <4>1
        <5> HIDE DEF f
        <5>2. Len(f) # 0
          BY <5>1, EncodingIs
        <5>3. f # << >>
          BY <5>2
        <5> QED
          BY <5>3 DEF f
      <4>3. b >= l + a + 1
        <5>1. l + a + 1 \in Int /\ b \in Int
          BY <1>2, <2>2, <3>1
        <5>2. ~(b < l + a + 1)
          BY <4>2, <5>1, SubSeqEmpty
        <5> QED
          BY <5>1, <5>2
      <4> DEFINE c == b - l
      <4>4. c \in 0 .. Len(x) /\ l + c = b
        BY <1>2, <1>3, <2>2, <3>1, <4>3
      <4> HIDE DEF c
      <4>5. c \in rest
        BY <4>4 DEF rest
      <4>6. SubSeq(y, l + a + 1, l + c) = SubSeq(x, a + 1, c)
        BY <1>4, <3>1, <4>4
      <4> QED
        BY <4>1, <4>4, <4>5, <4>6
    <3> QED
      BY <2>1, <3>1, <3>2, <3>3 DEF CutsText
  <2> HIDE DEF rest
  <2>6. CutsText(rest, x)
    BY <2>4, <2>5 DEF CutsText
  <2> QED
    BY <2>6, ViableIs
<1> QED
  BY <1>7, <1>8 DEF y

\* The beginning of a character is the beginning of a text.
LEMMA BegunViable ==
    ASSUME AllBytes, NEW x \in Begun
    PROVE  Viable(x) /\ x \in Seq(Bytes)
<1>1. x \in Seq(Bytes)
  BY BegunIs, EmptySeq
<1>2. SubSeq(x, 0 + 1, Len(x)) = x /\ Len(x) \in Nat
  BY <1>1, SubSeqFull
<1>3. CutsText({0}, x)
  <2> DEFINE cuts == {0}
  <2>1. cuts \subseteq 0 .. Len(x) /\ 0 \in cuts
    BY <1>2
  <2>2. ASSUME NEW a \in cuts PROVE SubSeq(x, a + 1, Len(x)) \in Begun
    <3>1. a = 0
      OBVIOUS
    <3> QED
      BY <1>2, <3>1
  <2> HIDE DEF cuts
  <2>3. CutsText(cuts, x)
    BY <2>1, <2>2 DEF CutsText
  <2> QED
    BY <2>3 DEF cuts
<1> QED
  BY <1>1, <1>3, ViableIs

\* A text begins with a character, or with the beginning of one: its first bytes
\* fit.
LEMMA ViableFits ==
    ASSUME AllBytes, NEW x \in Seq(Bytes), Len(x) # 0, Viable(x)
    PROVE  Fit(x)
<1>1. PICK cuts : CutsText(cuts, x)
  BY ViableIs
<1>2. SubSeq(x, 0 + 1, Len(x)) = x /\ Len(x) \in Nat /\ x # << >>
  BY SubSeqFull
<1>3. CASE x \in Begun
  BY <1>2, <1>3, BegunIs
<1>4. CASE x \notin Begun
  <2>1. PICK b \in cuts : SubSeq(x, 0 + 1, b) \in Encodings
    BY <1>1, <1>2, <1>4 DEF CutsText
  <2>2. b \in Nat /\ b <= Len(x)
    BY <1>1, <1>2 DEF CutsText
  <2> DEFINE f == SubSeq(x, 1, b)
  <2>a. f \in Encodings
    <3>1. 0 + 1 = 1
      OBVIOUS
    <3> QED
      BY <2>1, <3>1
  <2>3. f \in Seq(Bytes) /\ Len(f) # 0 /\ Len(f) = Needed(f[1]) /\ Fit(f)
    <3> HIDE DEF f
    <3> QED
      BY <2>a, EncodingIs
  <2>4. b # 0
    <3>1. b = 0 => f = << >>
      BY SubSeqEmpty
    <3> QED
      BY <2>3, <3>1
  <2>5. Len(f) = b /\ \A i \in 1 .. b : f[i] = x[i]
    BY <1>2, <2>2, <2>4
  <2> HIDE DEF f
  <2>6. f[1] = x[1] /\ Needed(x[1]) = b
    <3>1. 1 \in 1 .. b
      BY <2>2, <2>4
    <3> QED
      BY <2>3, <2>5, <3>1
  <2>7. ASSUME b >= 2 PROVE SecondFits(x[1], x[2])
    <3>1. 2 \in 1 .. b
      BY <2>2, <2>7
    <3> QED
      BY <2>3, <2>5, <2>6, <2>7, <3>1 DEF Fit
  <2>8. ASSUME NEW i \in 2 .. Len(x), i <= b PROVE IsTrail(x[i])
    <3>1. i \in 2 .. b /\ i \in 1 .. b
      BY <1>2, <2>2, <2>8
    <3> QED
      BY <2>3, <2>5, <2>6, <3>1 DEF Fit
  <2> QED
    BY <2>4, <2>6, <2>7, <2>8 DEF Fit
<1> QED
  BY <1>3, <1>4

-----------------------------------------------------------------------------
(* The bytes of units.                                                      *)

\* What one unit brings to EncodedUnits.
UnitBytes(units, i) ==
    IF HighSurrogate(units[i])
    THEN Encoded(Paired(units[i], units[i + 1]))
    ELSE IF LowSurrogate(units[i]) THEN << >> ELSE Encoded(units[i])

\* No pair is open at the end.
Closed(units) == units # << >> => ~HighSurrogate(units[Len(units)])

\* Whatever is encoded, these are numbers.
LEMMA EncodedNumbers ==
    ASSUME NEW p \in Int
    PROVE  Encoded(p) \in Seq(Int)
<1>1. /\ p \div 64 \in Int /\ p \div 4096 \in Int /\ p \div 262144 \in Int
      /\ (p \div 1) % 64 \in Int /\ (p \div 64) % 64 \in Int /\ (p \div 4096) % 64 \in Int
  BY SMT
<1> DEFINE a1 == 192 + (p \div 64)
           b1 == 224 + (p \div 4096)
           c1 == 240 + (p \div 262144)
           x1 == 128 + ((p \div 1) % 64)
           x2 == 128 + ((p \div 64) % 64)
           x3 == 128 + ((p \div 4096) % 64)
<1>2. a1 \in Int /\ b1 \in Int /\ c1 \in Int /\ x1 \in Int /\ x2 \in Int /\ x3 \in Int
  BY <1>1, SMT
<1>3. Encoded(p) = <<p>> \/ Encoded(p) = <<a1, x1>> \/ Encoded(p) = <<b1, x2, x1>>
      \/ Encoded(p) = <<c1, x3, x2, x1>>
  BY SMT DEF Encoded
<1> HIDE DEF a1, b1, c1, x1, x2, x3
<1>4. <<p>> \in Seq(Int) /\ <<a1, x1>> \in Seq(Int) /\ <<b1, x2, x1>> \in Seq(Int)
      /\ <<c1, x3, x2, x1>> \in Seq(Int)
  BY <1>2, SMT
<1> QED
  BY <1>3, <1>4

\* Whatever two units are paired, the result is a number.
LEMMA PairedIsNumber ==
    ASSUME NEW high \in Nat, NEW low \in Nat
    PROVE  Paired(high, low) \in Int
  BY SMT DEF Paired

\* What units bring are numbers.
LEMMA UnitBytesAre ==
    ASSUME NEW u \in Seq(Nat), Closed(u), NEW i \in 1 .. Len(u)
    PROVE  UnitBytes(u, i) \in Seq(Int)
<1>1. u[i] \in Nat
  OBVIOUS
<1>2. CASE HighSurrogate(u[i])
  <2>1. i # Len(u) /\ u # << >>
    <3>1. u # << >>
      OBVIOUS
    <3> QED
      BY <1>2, <3>1 DEF Closed
  <2>2. u[i + 1] \in Nat
    <3>1. i + 1 \in 1 .. Len(u)
      BY <2>1
    <3> QED
      BY <3>1
  <2>3. Paired(u[i], u[i + 1]) \in Int
    BY <1>1, <2>2, PairedIsNumber
  <2>4. UnitBytes(u, i) = Encoded(Paired(u[i], u[i + 1]))
    BY <1>2 DEF UnitBytes
  <2> QED
    BY <2>3, <2>4, EncodedNumbers
<1>3. CASE ~HighSurrogate(u[i])
  <2>1. UnitBytes(u, i) = << >> \/ UnitBytes(u, i) = Encoded(u[i])
    BY <1>3, SMT DEF UnitBytes
  <2>2. << >> \in Seq(Int) /\ u[i] \in Int
    BY <1>1
  <2> QED
    BY <2>1, <2>2, EncodedNumbers
<1> QED
  BY <1>2, <1>3

\* The bytes of each unit, in a row.
BytesOfEach(u) == [i \in 1 .. Len(u) |-> UnitBytes(u, i)]

\* EncodedUnits joins these.
LEMMA EncodedUnitsIs ==
    ASSUME NEW u
    PROVE  EncodedUnits(u) = FlattenSeq(BytesOfEach(u))
  BY SMT DEF EncodedUnits, BytesOfEach, UnitBytes

\* Each of them is a sequence of numbers.
LEMMA BytesOfEachAre ==
    ASSUME NEW u \in Seq(Nat), Closed(u)
    PROVE  /\ BytesOfEach(u) \in Seq(Seq(Int)) /\ Len(BytesOfEach(u)) = Len(u)
           /\ \A i \in 1 .. Len(u) : BytesOfEach(u)[i] = UnitBytes(u, i)
<1> DEFINE A == Seq(Int)
           n == Len(u)
           f == BytesOfEach(u)
<1>1. n \in Nat
  OBVIOUS
<1>2. \A i \in 1 .. n : UnitBytes(u, i) \in A
  BY UnitBytesAre
<1> HIDE DEF A, n
<1>3. f = [i \in 1 .. n |-> UnitBytes(u, i)]
  BY DEF BytesOfEach, n
<1> HIDE DEF f
<1>4. f \in [1 .. n -> A] /\ \A i \in 1 .. n : f[i] = UnitBytes(u, i)
  BY <1>2, <1>3
<1>5. f \in Seq(A) /\ Len(f) = n
  BY <1>1, <1>4
<1> QED
  BY <1>4, <1>5 DEF f, n, A

\* Two texts one behind the other: no pair is torn.
LEMMA EncodedUnitsConcat ==
    ASSUME NEW u \in Seq(Nat), Closed(u), NEW v \in Seq(Nat), Closed(v)
    PROVE  /\ u \o v \in Seq(Nat) /\ Closed(u \o v)
           /\ EncodedUnits(u \o v) = EncodedUnits(u) \o EncodedUnits(v)
<1> DEFINE w == u \o v
           n == Len(u)
           m == Len(v)
<1>1. n \in Nat /\ m \in Nat
  OBVIOUS
<1>2. /\ w \in Seq(Nat) /\ Len(w) = n + m
      /\ \A i \in 1 .. n + m : w[i] = IF i <= n THEN u[i] ELSE v[i - n]
  BY ConcatProperties
<1> HIDE DEF w
<1>3. \A i \in 1 .. n : w[i] = u[i]
  BY <1>1, <1>2
<1>4. \A j \in 1 .. m : w[n + j] = v[j]
  <2> SUFFICES ASSUME NEW j \in 1 .. m PROVE w[n + j] = v[j]
    OBVIOUS
  <2>1. n + j \in 1 .. n + m /\ ~(n + j <= n) /\ (n + j) - n = j
    BY <1>1
  <2> QED
    BY <1>2, <2>1
<1>5. (n # 0 => ~HighSurrogate(u[n])) /\ (m # 0 => ~HighSurrogate(v[m]))
  <2>1. (n # 0 => u # << >>) /\ (m # 0 => v # << >>)
    OBVIOUS
  <2> QED
    BY <2>1 DEF Closed
<1>6. Closed(w)
  <2> SUFFICES ASSUME w # << >> PROVE ~HighSurrogate(w[n + m])
    BY <1>2 DEF Closed
  <2>1. CASE m # 0
    <3>1. m \in 1 .. m
      BY <1>1, <2>1
    <3> QED
      BY <1>4, <1>5, <2>1, <3>1
  <2>2. CASE m = 0
    <3>1. n + m = n
      BY <1>1, <2>2
    <3>2. n # 0
      <4>1. w = << >> \/ Len(w) # 0
        BY <1>2
      <4> QED
        BY <1>2, <3>1, <4>1
    <3>3. n \in 1 .. n
      BY <1>1, <3>2
    <3> QED
      BY <1>3, <1>5, <3>1, <3>2, <3>3
  <2> QED
    BY <2>1, <2>2
<1>7. ASSUME NEW i \in 1 .. n PROVE UnitBytes(w, i) = UnitBytes(u, i)
  <2>1. w[i] = u[i]
    BY <1>3
  <2>2. ASSUME HighSurrogate(u[i]) PROVE w[i + 1] = u[i + 1]
    <3>1. i # n
      BY <1>1, <1>5, <2>2
    <3>2. i + 1 \in 1 .. n
      BY <1>1, <3>1
    <3> QED
      BY <1>3, <3>2
  <2> QED
    BY <2>1, <2>2, SMT DEF UnitBytes
<1>8. ASSUME NEW j \in 1 .. m PROVE UnitBytes(w, n + j) = UnitBytes(v, j)
  <2>1. w[n + j] = v[j]
    BY <1>4
  <2>2. ASSUME HighSurrogate(v[j]) PROVE w[(n + j) + 1] = v[j + 1]
    <3>1. j # m
      BY <1>1, <1>5, <2>2
    <3>2. j + 1 \in 1 .. m /\ (n + j) + 1 = n + (j + 1)
      BY <1>1, <3>1
    <3> QED
      BY <1>4, <3>2
  <2> QED
    BY <2>1, <2>2, SMT DEF UnitBytes
<1> DEFINE A == Seq(Int)
           f == BytesOfEach(u)
           g == BytesOfEach(v)
           h == BytesOfEach(w)
<1>9. /\ f \in Seq(A) /\ Len(f) = n /\ \A i \in 1 .. n : f[i] = UnitBytes(u, i)
      /\ g \in Seq(A) /\ Len(g) = m /\ \A i \in 1 .. m : g[i] = UnitBytes(v, i)
      /\ h \in Seq(A) /\ Len(h) = n + m /\ \A i \in 1 .. n + m : h[i] = UnitBytes(w, i)
  BY <1>2, <1>6, BytesOfEachAre
<1>10. EncodedUnits(u) = FlattenSeq(f) /\ EncodedUnits(v) = FlattenSeq(g)
       /\ EncodedUnits(w) = FlattenSeq(h)
  BY EncodedUnitsIs
<1> HIDE DEF f, g, h, n, m
<1>11. h = f \o g
  <2> HIDE DEF A
  <2>1. /\ f \o g \in Seq(A) /\ Len(f \o g) = n + m
        /\ \A i \in 1 .. n + m : (f \o g)[i] = IF i <= n THEN f[i] ELSE g[i - n]
    BY <1>9, ConcatProperties
  <2>2. ASSUME NEW i \in 1 .. n + m PROVE h[i] = (f \o g)[i]
    <3>1. CASE i <= n
      <4>1. i \in 1 .. n
        BY <1>1, <3>1
      <4> QED
        BY <1>7, <1>9, <2>1, <3>1, <4>1
    <3>2. CASE ~(i <= n)
      <4>1. i - n \in 1 .. m /\ n + (i - n) = i
        BY <1>1, <3>2
      <4>2. UnitBytes(w, n + (i - n)) = UnitBytes(v, i - n)
        BY <1>8, <4>1
      <4> QED
        BY <1>9, <2>1, <3>2, <4>1, <4>2
    <3> QED
      BY <3>1, <3>2
  <2> DEFINE fg == f \o g
  <2>3. fg \in Seq(A) /\ Len(fg) = n + m /\ \A i \in 1 .. n + m : h[i] = fg[i]
    BY <2>1, <2>2
  <2> HIDE DEF fg
  <2>4. h = fg
    BY <1>9, <2>3, SeqEqual
  <2> QED
    BY <2>4 DEF fg
<1>12. FlattenSeq(f \o g) = FlattenSeq(f) \o FlattenSeq(g)
  BY <1>9, FlattenConcat
<1> QED
  BY <1>2, <1>6, <1>10, <1>11, <1>12 DEF w

\* The units of nothing.
LEMMA EncodedUnitsNone == EncodedUnits(<< >>) = << >> /\ Closed(<< >>)
<1>1. BytesOfEach(<< >>) = << >>
  BY DEF BytesOfEach
<1> QED
  BY <1>1, EncodedUnitsIs, FlattenNone DEF Closed

\* A character of one unit.
LEMMA OneUnit ==
    ASSUME NEW p \in Nat, ~HighSurrogate(p), ~LowSurrogate(p)
    PROVE  /\ <<p>> \in Seq(Nat) /\ Closed(<<p>>)
           /\ EncodedUnits(<<p>>) = Encoded(p)
<1> DEFINE u == <<p>>
           e == Encoded(p)
<1>1. u \in Seq(Nat) /\ Len(u) = 1 /\ u[1] = p
  OBVIOUS
<1>2. BytesOfEach(u) = <<e>>
  <2> HIDE DEF u, e
  <2>1. UnitBytes(u, 1) = e
    BY <1>1 DEF UnitBytes, e
  <2> QED
    BY <1>1, <2>1 DEF BytesOfEach
<1>3. e \in Seq(Int)
  BY EncodedNumbers
<1> HIDE DEF u, e
<1>4. Closed(u)
  BY <1>1 DEF Closed
<1>5. FlattenSeq(<<e>>) = e
  BY <1>3, FlattenOne
<1> QED
  BY <1>1, <1>2, <1>4, <1>5, EncodedUnitsIs DEF u, e

\* A character of two.
LEMMA TwoUnits ==
    ASSUME NEW high \in Nat, NEW low \in Nat, HighSurrogate(high), LowSurrogate(low), ~HighSurrogate(low)
    PROVE  /\ <<high, low>> \in Seq(Nat) /\ Closed(<<high, low>>)
           /\ EncodedUnits(<<high, low>>) = Encoded(Paired(high, low))
<1> DEFINE u == <<high, low>>
           e == Encoded(Paired(high, low))
           none == << >>
           one == <<e>>
           both == <<e, none>>
<1>1. u \in Seq(Nat) /\ Len(u) = 2 /\ u[1] = high /\ u[2] = low
  OBVIOUS
<1>2. BytesOfEach(u) = both
  <2> HIDE DEF u, e
  <2>1. UnitBytes(u, 1) = e
    <3>1. u[1 + 1] = low
      BY <1>1
    <3> QED
      BY <1>1, <3>1 DEF UnitBytes, e
  <2>2. UnitBytes(u, 2) = none
    BY <1>1 DEF UnitBytes
  <2>3. BytesOfEach(u) = [i \in 1 .. 2 |-> UnitBytes(u, i)]
    BY <1>1 DEF BytesOfEach
  <2> HIDE DEF none
  <2> DEFINE f == [i \in 1 .. 2 |-> UnitBytes(u, i)]
  <2>4. f[1] = e /\ f[2] = none
    BY <2>1, <2>2
  <2>5. f = <<e, none>>
    BY <2>1, <2>2
  <2> QED
    BY <2>3, <2>5
<1>3. e \in Seq(Int)
  BY PairedIsNumber, EncodedNumbers
<1> HIDE DEF u, e
<1>4. Closed(u)
  BY <1>1 DEF Closed
<1>5. none \in Seq(Int)
  OBVIOUS
<1> HIDE DEF none
<1>6. one \in Seq(Seq(Int)) /\ both = Append(one, none)
  BY <1>3, <1>5
<1>7. FlattenSeq(one) = e
  BY <1>3, FlattenOne
<1> HIDE DEF one, both
<1>8. FlattenSeq(Append(one, none)) = FlattenSeq(one) \o none
  BY <1>5, <1>6, FlattenOneMore
<1>9. e \o << >> = e
  BY <1>3, ConcatEmptySeq
<1> QED
  BY <1>1, <1>2, <1>4, <1>6, <1>7, <1>8, <1>9, EncodedUnitsIs DEF u, e, none

\* The units of a character are those of its bytes.
LEMMA UnitsAre ==
    ASSUME NEW p, Valid(p)
    PROVE  Units(p) \in Seq(Nat) /\ Closed(Units(p)) /\ EncodedUnits(Units(p)) = Encoded(p)
<1>1. p \in Nat /\ 0 < p /\ p <= 1114111 /\ ~HighSurrogate(p) /\ ~LowSurrogate(p)
  BY SMT DEF Valid, Surrogate
<1>2. CASE p <= 65535
  <2>1. Units(p) = <<p>>
    BY <1>2, SMT DEF Units
  <2>2. <<p>> \in Seq(Nat) /\ Closed(<<p>>) /\ EncodedUnits(<<p>>) = Encoded(p)
    BY <1>1, OneUnit, SMT
  <2> QED
    BY <2>1, <2>2, SMT
<1>3. CASE ~(p <= 65535)
  <2> DEFINE q == p - 65536
             a == q \div 1024
             b == q % 1024
             high == 55296 + a
             low == 56320 + b
  <2>1. q \in Nat /\ q < 1048576
    BY <1>1, <1>3, SMT
  <2>2. a \in Nat /\ b \in Nat /\ b < 1024 /\ q = a * 1024 + b
    <3> HIDE DEF q
    <3> QED
      BY <2>1, SMT
  <2>3. Units(p) = <<high, low>>
    BY <1>3, SMT DEF Units
  <2>4. p = 65536 + q
    BY <1>1, SMT
  <2> HIDE DEF q, a, b
  <2>5. a < 1024
    BY <2>1, <2>2, SMT
  <2>6. high \in Nat /\ low \in Nat /\ HighSurrogate(high) /\ LowSurrogate(low) /\ ~HighSurrogate(low)
    BY <2>2, <2>5, SMT DEF HighSurrogate, LowSurrogate
  <2>7. Paired(high, low) = p
    BY <2>2, <2>4, SMT DEF Paired
  <2> HIDE DEF high, low
  <2>8. /\ <<high, low>> \in Seq(Nat) /\ Closed(<<high, low>>)
        /\ EncodedUnits(<<high, low>>) = Encoded(Paired(high, low))
    BY <2>6, TwoUnits, SMT
  <2> QED
    BY <2>3, <2>7, <2>8, SMT
<1> QED
  BY <1>2, <1>3, SMT

-----------------------------------------------------------------------------
(* The decoder.                                                             *)

\* Text that does not change what may follow.
Through(b) ==
    /\ b \in Seq(Bytes)
    /\ \A y \in Seq(Bytes) : Viable(b \o y) <=> Viable(y)

\* No text changes nothing.
LEMMA ThroughNone == Through(<< >>)
<1>1. << >> \in Seq(Bytes)
  OBVIOUS
<1>2. ASSUME NEW y \in Seq(Bytes) PROVE << >> \o y = y
  BY ConcatEmptySeq
<1> QED
  BY <1>1, <1>2 DEF Through

\* Two such texts in a row are one.
LEMMA ThroughConcat ==
    ASSUME NEW b, Through(b), NEW c, Through(c)
    PROVE  Through(b \o c)
<1>1. b \in Seq(Bytes) /\ c \in Seq(Bytes)
  BY DEF Through
<1>2. b \o c \in Seq(Bytes)
  BY <1>1
<1>3. ASSUME NEW y \in Seq(Bytes) PROVE Viable((b \o c) \o y) <=> Viable(y)
  <2>1. (b \o c) \o y = b \o (c \o y) /\ c \o y \in Seq(Bytes)
    BY <1>1
  <2>2. Viable(b \o (c \o y)) <=> Viable(c \o y)
    BY <2>1 DEF Through
  <2>3. Viable(c \o y) <=> Viable(y)
    BY DEF Through
  <2> QED
    BY <2>1, <2>2, <2>3
<1> QED
  BY <1>2, <1>3 DEF Through

\* A character is such a text.
LEMMA ThroughCharacter ==
    ASSUME AllBytes, NEW e \in Encodings
    PROVE  Through(e)
<1>1. e \in Seq(Bytes)
  BY EncodingIs
<1> QED
  BY <1>1, ViableBehind DEF Through

\* A character before what was parsed.
More(r, p) == [r EXCEPT !.units = Units(p) \o @]

\* Only the units change.
LEMMA MoreIs ==
    ASSUME NEW u, NEW c, NEW v, NEW r, r = [units |-> u, carry |-> c, valid |-> v], NEW p
    PROVE  More(r, p) = [units |-> Units(p) \o u, carry |-> c, valid |-> v]
<1>1. r.units = u
  OBVIOUS
<1> DEFINE w == Units(p) \o u
<1>2. More(r, p) = [r EXCEPT !.units = w]
  BY <1>1, Zenon DEF More
<1> HIDE DEF w
<1>3. [r EXCEPT !.units = w] = [units |-> w, carry |-> c, valid |-> v]
  OBVIOUS
<1> QED
  BY <1>2, <1>3 DEF w

\* Joining is associative.
LEMMA Associative ==
    ASSUME NEW S, NEW x \in Seq(S), NEW y \in Seq(S), NEW z \in Seq(S)
    PROVE  (x \o y) \o z = x \o (y \o z)
  OBVIOUS

\* A sequence is what is before a cut and what is behind it.
LEMMA CutIs ==
    ASSUME NEW S, NEW s \in Seq(S), NEW n \in 1 .. Len(s)
    PROVE  s = SubSeq(s, 1, n) \o SubSeq(s, n + 1, Len(s))
  OBVIOUS

\* What push makes of the bytes from one place on, from what it makes of those
\* behind.
After(f, bytes, at) ==
    IF at > Len(bytes) THEN [units |-> << >>, carry |-> << >>, valid |-> TRUE]
    ELSE
      LET needed == Needed(bytes[at])
          left == SubSeq(bytes, at, Len(bytes))
          whole == SubSeq(bytes, at, at + needed - 1)
          trails == \A i \in 2 .. Len(left) : i <= needed => IsTrail(left[i])
          second == needed >= 2 /\ Len(left) >= 2 => SecondFits(left[1], left[2])
      IN  IF needed = 0 \/ ~second \/ ~trails
          THEN [units |-> << >>, carry |-> << >>, valid |-> FALSE]
          ELSE IF Len(left) < needed
          THEN [units |-> << >>, carry |-> left, valid |-> TRUE]
          ELSE IF Surrogate(Point(whole)) \/ Point(whole) > 1114111
          THEN [units |-> << >>, carry |-> << >>, valid |-> FALSE]
          ELSE More(f[at + needed], Point(whole))

Places(bytes) == 1 .. Len(bytes) + 4
Reads(f, bytes) == f = [at \in Places(bytes) |-> After(f, bytes, at)]

\* push reads from the first byte on.
LEMMA PushIs ==
    ASSUME NEW old, NEW piece
    PROVE  push(old, piece) = (CHOOSE f : Reads(f, old \o piece))[1]
  BY SMT DEF push, Reads, Places, After, More

\* Where push goes on is behind.
LEMMA AfterSame ==
    ASSUME AllBytes, NEW bytes \in Seq(Bytes), NEW at \in Places(bytes), NEW f, NEW g,
           \A j \in Places(bytes) : j > at => f[j] = g[j]
    PROVE  After(f, bytes, at) = After(g, bytes, at)
<1>1. Len(bytes) \in Nat /\ at \in Nat /\ 1 <= at
  BY DEF Places
<1>2. CASE at > Len(bytes)
  BY <1>2, SMT DEF After
<1>3. CASE at <= Len(bytes) /\ Needed(bytes[at]) = 0
  <2>1. ~(at > Len(bytes))
    BY <1>1, <1>3
  <2> QED
    BY <1>3, <2>1, SMT DEF After
<1>4. CASE at <= Len(bytes) /\ Needed(bytes[at]) # 0
  <2> DEFINE j == at + Needed(bytes[at])
  <2>1. bytes[at] \in Nat
    <3>1. at \in 1 .. Len(bytes)
      BY <1>1, <1>4
    <3>2. bytes[at] \in Bytes
      BY <3>1
    <3> QED
      BY <3>2, ByteIs
  <2>2. j \in Places(bytes) /\ j > at
    <3>1. Needed(bytes[at]) \in {1, 2, 3, 4}
      BY <1>4, <2>1, NeededIs, SMT
    <3> QED
      BY <1>1, <1>4, <3>1, SMT DEF Places
  <2>3. f[j] = g[j]
    BY <2>2
  <2> QED
    BY <2>3, SMT DEF After
<1> QED
  BY <1>1, <1>2, <1>3, <1>4

\* push is well defined.
LEMMA ReadsExists ==
    ASSUME AllBytes, NEW bytes \in Seq(Bytes)
    PROVE  \E f : Reads(f, bytes)
<1> DEFINE l == Len(bytes) + 4
           D == Places(bytes)
           Good(f, k) == /\ f = [at \in D |-> f[at]]
                         /\ \A at \in D : at > l - k => f[at] = After(f, bytes, at)
           S == {k \in Nat : k <= l => \E f : Good(f, k)}
<1>1. l \in Nat /\ D = 1 .. l
  BY DEF Places
<1>2. 0 \in S
  <2>1. Good([at \in D |-> 0], 0)
    BY <1>1
  <2> QED
    BY <2>1
<1>3. ASSUME NEW k \in Nat, k \in S PROVE k + 1 \in S
  <2> SUFFICES ASSUME k + 1 <= l PROVE \E f : Good(f, k + 1)
    OBVIOUS
  <2>1. k <= l /\ l - k \in D
    BY <1>1
  <2> DEFINE here == l - k
  <2>2. PICK f : Good(f, k)
    BY <1>3, <2>1
  <2> DEFINE g == [at \in D |-> IF at = here THEN After(f, bytes, at) ELSE f[at]]
  <2>3. g = [at \in D |-> g[at]]
    OBVIOUS
  <2>4. ASSUME NEW at \in D, at > l - (k + 1) PROVE g[at] = After(g, bytes, at)
    <3>1. at >= here /\ here \in Nat /\ at \in Nat
      BY <1>1, <2>1, <2>4
    <3>2. \A j \in Places(bytes) : j > at => f[j] = g[j]
      BY <1>1, <3>1
    <3>3. After(f, bytes, at) = After(g, bytes, at)
      <4> HIDE DEF g, here, l
      <4> QED
        BY <3>2, AfterSame
    <3>4. g[at] = After(f, bytes, at)
      <4>1. CASE at = here
        BY <4>1
      <4>2. CASE at # here
        <5>1. at > l - k
          BY <3>1, <4>2
        <5> QED
          BY <2>2, <4>2, <5>1
      <4> QED
        BY <4>1, <4>2
    <3> QED
      BY <3>3, <3>4
  <2> QED
    <3> HIDE DEF g
    <3>1. Good(g, k + 1)
      BY <2>3, <2>4
    <3> QED
      BY <3>1
<1>4. Nat \subseteq S
  <2> HIDE DEF S
  <2> QED
    BY <1>2, <1>3, SetInduction
<1>5. PICK f : Good(f, l)
  BY <1>1, <1>4
<1>6. \A at \in D : f[at] = After(f, bytes, at)
  BY <1>1, <1>5
<1>7. f = [at \in D |-> After(f, bytes, at)]
  BY <1>5, <1>6
<1> QED
  BY <1>7 DEF Reads

\* What push may say of bytes: their text and the beginning of a character behind
\* it, or that no text begins with them.
Parsed(r, x) ==
    /\ r = [units |-> r.units, carry |-> r.carry, valid |-> r.valid]
    /\ r.valid \in BOOLEAN
    /\ r.valid => /\ r.units \in Seq(Nat) /\ Closed(r.units)
                  /\ r.carry \in Begun
                  /\ Through(EncodedUnits(r.units))
                  /\ EncodedUnits(r.units) \o r.carry = x
    /\ ~r.valid => ~Viable(x)

\* The part of a sequence that begins at a place.
LEMMA LeftIs ==
    ASSUME NEW S, NEW s \in Seq(S), NEW at \in 1 .. Len(s)
    PROVE  LET x == SubSeq(s, at, Len(s))
           IN  /\ x \in Seq(S) /\ Len(x) = Len(s) - at + 1 /\ x[1] = s[at] /\ x[1] \in S
               /\ \A n \in 1 .. Len(x) :
                     /\ SubSeq(s, at, at + n - 1) = SubSeq(x, 1, n)
                     /\ SubSeq(s, at + n, Len(s)) = SubSeq(x, n + 1, Len(x))
<1> DEFINE x == SubSeq(s, at, Len(s))
           l == Len(s) - at + 1
<1>1. Len(s) \in Nat /\ at \in Nat /\ 1 <= at /\ at <= Len(s) /\ l \in Nat \ {0}
  OBVIOUS
<1>2. x \in Seq(S) /\ Len(x) = l /\ \A i \in 1 .. l : x[i] = s[at + i - 1]
  BY <1>1
<1>3. x[1] = s[at] /\ x[1] \in S
  <2>1. 1 \in 1 .. l /\ at + 1 - 1 = at
    BY <1>1
  <2> HIDE DEF x
  <2> QED
    BY <1>1, <1>2, <2>1
<1> HIDE DEF x
<1>4. ASSUME NEW n \in 1 .. l
      PROVE  /\ SubSeq(s, at, at + n - 1) = SubSeq(x, 1, n)
             /\ SubSeq(s, at + n, Len(s)) = SubSeq(x, n + 1, l)
  <2>1. n \in Nat /\ 1 <= n /\ n <= l /\ at + n - 1 \in Nat /\ at + n - 1 <= Len(s)
    BY <1>1
  <2>2. SubSeq(s, at, at + n - 1) = SubSeq(x, 1, n)
    <3> DEFINE a == SubSeq(s, at, at + n - 1)
               b == SubSeq(x, 1, n)
    <3>1. a \in Seq(S) /\ Len(a) = n /\ \A i \in 1 .. n : a[i] = s[at + i - 1]
      BY <1>1, <2>1
    <3>2. b \in Seq(S) /\ Len(b) = n /\ \A i \in 1 .. n : b[i] = x[i]
      BY <1>2, <2>1
    <3>3. ASSUME NEW i \in 1 .. n PROVE a[i] = b[i]
      <4>1. i \in 1 .. l
        BY <2>1
      <4> HIDE DEF a, b
      <4> QED
        BY <1>2, <3>1, <3>2, <4>1
    <3> HIDE DEF a, b
    <3>4. a = b
      BY <3>1, <3>2, <3>3, SeqEqual
    <3> QED
      BY <3>4 DEF a, b
  <2>3. SubSeq(s, at + n, Len(s)) = SubSeq(x, n + 1, l)
    <3> DEFINE a == SubSeq(s, at + n, Len(s))
               b == SubSeq(x, n + 1, l)
               k == l - n
    <3>0. CASE n = l
      <4>1. Len(s) < at + n /\ l < n + 1 /\ at + n \in Int /\ n + 1 \in Int
        BY <1>1, <2>1, <3>0
      <4> QED
        BY <1>1, <1>2, <4>1, SubSeqEmpty
    <3>a. CASE n # l
      <4>0. k \in Nat \ {0} /\ at + n \in 1 .. Len(s) /\ n + 1 \in 1 .. l
        BY <1>1, <2>1, <3>a
      <4>1. a \in Seq(S) /\ Len(a) = k /\ \A i \in 1 .. k : a[i] = s[at + n + i - 1]
        BY <1>1, <2>1, <4>0
      <4>2. b \in Seq(S) /\ Len(b) = k /\ \A i \in 1 .. k : b[i] = x[n + 1 + i - 1]
        BY <1>1, <1>2, <2>1, <4>0
      <4>3. ASSUME NEW i \in 1 .. k PROVE a[i] = b[i]
        <5>1. n + i \in 1 .. l /\ n + 1 + i - 1 = n + i /\ at + n + i - 1 = at + (n + i) - 1
          BY <1>1, <2>1, <4>0
        <5> HIDE DEF a, b
        <5> QED
          BY <1>2, <4>1, <4>2, <5>1
      <4> HIDE DEF a, b
      <4>4. a = b
        BY <4>0, <4>1, <4>2, <4>3, SeqEqual
      <4> QED
        BY <4>4 DEF a, b
    <3> QED
      BY <3>0, <3>a
  <2> QED
    BY <2>2, <2>3
<1> QED
  BY <1>2, <1>3, <1>4 DEF x

\* What push says of the bytes at hand, by whether they fit and are enough.
AfterSays(f, bytes, at, x, n, e) ==
    /\ ~Fit(x) => After(f, bytes, at) = [units |-> << >>, carry |-> << >>, valid |-> FALSE]
    /\ Fit(x) /\ Len(x) < n =>
          After(f, bytes, at) = [units |-> << >>, carry |-> x, valid |-> TRUE]
    /\ Fit(x) /\ n <= Len(x) =>
          /\ e \in Encodings /\ Valid(Point(e)) /\ Encoded(Point(e)) = e
          /\ x = e \o SubSeq(x, n + 1, Len(x))
          /\ After(f, bytes, at) = More(f[at + n], Point(e))

\* What push says is what its checks say: nothing behind them is refused.
LEMMA AfterIs ==
    ASSUME AllBytes, NEW bytes \in Seq(Bytes), NEW at \in 1 .. Len(bytes), NEW f,
           NEW x, x = SubSeq(bytes, at, Len(bytes)),
           NEW n, n = Needed(x[1]), NEW e, e = SubSeq(x, 1, n)
    PROVE  AfterSays(f, bytes, at, x, n, e)
<1>1. /\ x \in Seq(Bytes) /\ Len(x) = Len(bytes) - at + 1 /\ x[1] = bytes[at] /\ x[1] \in Bytes
      /\ \A k \in 1 .. Len(x) : SubSeq(bytes, at, at + k - 1) = SubSeq(x, 1, k)
  BY LeftIs
<1>2. Len(x) \in Nat \ {0} /\ ~(at > Len(bytes))
  BY <1>1
<1>3. n \in {0, 1, 2, 3, 4}
  <2>1. x[1] \in Nat
    BY <1>1, ByteIs
  <2> QED
    BY <2>1, NeededIs, SMT
<1> DEFINE trails == \A i \in 2 .. Len(x) : i <= n => IsTrail(x[i])
           second == n >= 2 /\ Len(x) >= 2 => SecondFits(x[1], x[2])
           whole == SubSeq(bytes, at, at + n - 1)
<1>4. Fit(x) <=> ~(n = 0 \/ ~second \/ ~trails)
  BY DEF Fit
<1>5. After(f, bytes, at) =
         IF n = 0 \/ ~second \/ ~trails
         THEN [units |-> << >>, carry |-> << >>, valid |-> FALSE]
         ELSE IF Len(x) < n
         THEN [units |-> << >>, carry |-> x, valid |-> TRUE]
         ELSE IF Surrogate(Point(whole)) \/ Point(whole) > 1114111
         THEN [units |-> << >>, carry |-> << >>, valid |-> FALSE]
         ELSE More(f[at + n], Point(whole))
  BY <1>1, <1>2, SMT DEF After
<1> HIDE DEF trails, second, whole
<1>6. ~Fit(x) => After(f, bytes, at) = [units |-> << >>, carry |-> << >>, valid |-> FALSE]
  BY <1>4, <1>5, SMT
<1>7. Fit(x) /\ Len(x) < n => After(f, bytes, at) = [units |-> << >>, carry |-> x, valid |-> TRUE]
  BY <1>4, <1>5, SMT
<1>8. ASSUME Fit(x), n <= Len(x)
      PROVE  /\ e \in Encodings /\ Valid(Point(e)) /\ Encoded(Point(e)) = e
             /\ x = e \o SubSeq(x, n + 1, Len(x))
             /\ After(f, bytes, at) = More(f[at + n], Point(e))
  <2>1. n # 0 /\ n \in 1 .. Len(x)
    <3>1. n # 0
      BY <1>8 DEF Fit
    <3> QED
      BY <1>2, <1>3, <1>8, <3>1
  <2>2. e \in Seq(Bytes) /\ Len(e) = n /\ e[1] = x[1] /\ Fit(e)
    BY <1>1, <1>8, <2>1, FitPrefix
  <2>3. e \in Encodings
    BY <2>1, <2>2, EncodingIs
  <2>4. Valid(Point(e)) /\ Encoded(Point(e)) = e
    BY <2>1, <2>2, WholeIs
  <2>5. whole = e
    BY <1>1, <2>1 DEF whole
  <2>6. ~(Surrogate(Point(whole)) \/ Point(whole) > 1114111)
    BY <2>4, <2>5, SMT DEF Valid
  <2>7. After(f, bytes, at) = More(f[at + n], Point(whole))
    BY <1>4, <1>5, <1>8, <2>6, <1>2, <1>3, SMT
  <2>8. x = e \o SubSeq(x, n + 1, Len(x))
    BY <1>1, <2>1, CutIs
  <2> QED
    BY <2>3, <2>4, <2>5, <2>7, <2>8
<1> QED
  BY <1>6, <1>7, <1>8 DEF AfterSays

\* One character before bytes that were parsed.
LEMMA ParsedMore ==
    ASSUME AllBytes, NEW r, NEW y \in Seq(Bytes), Parsed(r, y),
           NEW p, Valid(p), Encoded(p) \in Encodings
    PROVE  Parsed(More(r, p), Encoded(p) \o y)
<1> DEFINE u == Units(p)
           e == Encoded(p)
           w == u \o r.units
           q == More(r, p)
<1>1. q = [units |-> w, carry |-> r.carry, valid |-> r.valid]
  <2>1. r = [units |-> r.units, carry |-> r.carry, valid |-> r.valid]
    BY DEF Parsed
  <2> QED
    BY <2>1, MoreIs
<1>2. u \in Seq(Nat) /\ Closed(u) /\ EncodedUnits(u) = e
  BY UnitsAre
<1>3. e \in Encodings /\ e \in Seq(Bytes)
  BY EncodingIs
<1> HIDE DEF u, e
<1>4. ASSUME r.valid
      PROVE  /\ w \in Seq(Nat) /\ Closed(w)
             /\ Through(EncodedUnits(w))
             /\ EncodedUnits(w) \o r.carry = e \o y
  <2> DEFINE v == r.units
  <2>1. v \in Seq(Nat) /\ Closed(v) /\ Through(EncodedUnits(v)) /\ r.carry \in Begun
        /\ EncodedUnits(v) \o r.carry = y
    BY <1>4 DEF Parsed
  <2> HIDE DEF v
  <2>2. u \o v \in Seq(Nat) /\ Closed(u \o v) /\ EncodedUnits(u \o v) = e \o EncodedUnits(v)
    BY <1>2, <2>1, EncodedUnitsConcat
  <2>3. Through(e \o EncodedUnits(v))
    BY <1>3, <2>1, ThroughCharacter, ThroughConcat
  <2>4. (e \o EncodedUnits(v)) \o r.carry = e \o y
    <3>1. EncodedUnits(v) \in Seq(Bytes) /\ r.carry \in Seq(Bytes)
      BY <2>1, BegunViable DEF Through
    <3>2. (e \o EncodedUnits(v)) \o r.carry = e \o (EncodedUnits(v) \o r.carry)
      <4>1. \A a, b, c \in Seq(Bytes) : (a \o b) \o c = a \o (b \o c)
        BY Associative
      <4> QED
        BY <1>3, <3>1, <4>1, Zenon
    <3> QED
      BY <2>1, <3>2
  <2> QED
    BY <2>2, <2>3, <2>4 DEF v
<1>5. ASSUME ~r.valid PROVE ~Viable(e \o y)
  <2>1. ~Viable(y)
    BY <1>5 DEF Parsed
  <2> QED
    BY <1>3, <2>1, ViableBehind
<1>6. q.units = w /\ q.carry = r.carry /\ q.valid = r.valid
  <2> HIDE DEF w, q
  <2> QED
    BY <1>1
<1>7. r.valid \in BOOLEAN /\ (r.valid => r.carry \in Begun)
  BY DEF Parsed
<1> HIDE DEF w, q
<1>8. Parsed(q, e \o y)
  BY <1>1, <1>4, <1>5, <1>6, <1>7 DEF Parsed
<1> QED
  BY <1>8 DEF q, u, e

\* Bytes with no whole character are carried.
LEMMA ParsedShort ==
    ASSUME AllBytes, NEW x \in Begun, NEW r, r = [units |-> << >>, carry |-> x, valid |-> TRUE]
    PROVE  Parsed(r, x)
<1>1. r.units = << >> /\ r.carry = x /\ r.valid = TRUE
  OBVIOUS
<1>2. << >> \in Seq(Nat) /\ Closed(<< >>) /\ EncodedUnits(<< >>) = << >>
  BY EncodedUnitsNone
<1>3. Through(<< >>)
  BY ThroughNone
<1>4. << >> \o x = x
  BY BegunViable, ConcatEmptySeq
<1> QED
  BY <1>1, <1>2, <1>3, <1>4, Zenon DEF Parsed

\* From every place on, push says what is true of the bytes there.
LEMMA ReadsParses ==
    ASSUME AllBytes, NEW bytes \in Seq(Bytes), NEW f, Reads(f, bytes),
           NEW at \in 1 .. Len(bytes) + 1
    PROVE  Parsed(f[at], SubSeq(bytes, at, Len(bytes)))
<1> DEFINE l == Len(bytes)
           Is(a) == Parsed(f[a], SubSeq(bytes, a, l))
           S == {k \in Nat : \A a \in 1 .. l + 1 : a >= l + 1 - k => Is(a)}
<1>1. l \in Nat
  OBVIOUS
<1>2. \A a \in 1 .. l + 1 : f[a] = After(f, bytes, a)
  <2>1. \A a \in 1 .. l + 1 : a \in Places(bytes)
    BY <1>1 DEF Places
  <2> QED
    BY <2>1 DEF Reads
<1>3. 0 \in S
  <2>1. SubSeq(bytes, l + 1, l) = << >>
    BY <1>1, SubSeqEmpty
  <2>2. f[l + 1] = [units |-> << >>, carry |-> << >>, valid |-> TRUE]
    <3>1. l + 1 \in 1 .. l + 1 /\ l + 1 > l
      BY <1>1
    <3>2. f[l + 1] = After(f, bytes, l + 1)
      BY <1>2, <3>1
    <3> QED
      BY <3>1, <3>2, SMT DEF After
  <2>3. << >> \in Begun
    BY BegunIs
  <2> DEFINE r == f[l + 1]
  <2> HIDE DEF r
  <2>4. Parsed(r, << >>)
    BY <2>2, <2>3, ParsedShort DEF r
  <2>5. \A a \in 1 .. l + 1 : a >= l + 1 - 0 => a = l + 1
    BY <1>1
  <2>6. Is(l + 1)
    BY <2>1, <2>4 DEF r
  <2> HIDE DEF Is
  <2> QED
    BY <2>5, <2>6
<1>4. ASSUME NEW k \in Nat, k \in S PROVE k + 1 \in S
  <2> SUFFICES ASSUME NEW a \in 1 .. l + 1, a >= l + 1 - (k + 1) PROVE Is(a)
    OBVIOUS
  <2>1. CASE a >= l + 1 - k
    BY <1>4, <2>1
  <2>2. CASE ~(a >= l + 1 - k)
    <3>1. a \in 1 .. l /\ a = l - k
      BY <1>1, <2>2
    <3> DEFINE x == SubSeq(bytes, a, l)
               n == Needed(x[1])
               e == SubSeq(x, 1, n)
               y == SubSeq(x, n + 1, Len(x))
    <3>2. x \in Seq(Bytes) /\ Len(x) = l - a + 1 /\ x[1] \in Bytes
          /\ \A i \in 1 .. Len(x) : SubSeq(bytes, a + i, l) = SubSeq(x, i + 1, Len(x))
      BY <3>1, LeftIs
    <3>3. Len(x) \in Nat \ {0}
      BY <3>1, <3>2
    <3>4. f[a] = After(f, bytes, a)
      BY <1>2
    <3>a. x = SubSeq(bytes, a, Len(bytes))
      OBVIOUS
    <3>b. n = Needed(x[1])
      OBVIOUS
    <3>c. e = SubSeq(x, 1, n)
      OBVIOUS
    <3>d. a \in 1 .. Len(bytes)
      BY <3>1
    <3>7. Is(a) <=> Parsed(f[a], x)
      OBVIOUS
    <3> HIDE DEF x, n, e, y, Is
    <3>5. /\ ~Fit(x) => After(f, bytes, a) = [units |-> << >>, carry |-> << >>, valid |-> FALSE]
          /\ Fit(x) /\ Len(x) < n =>
                After(f, bytes, a) = [units |-> << >>, carry |-> x, valid |-> TRUE]
          /\ Fit(x) /\ n <= Len(x) =>
                /\ e \in Encodings /\ Valid(Point(e)) /\ Encoded(Point(e)) = e
                /\ x = e \o SubSeq(x, n + 1, Len(x))
                /\ After(f, bytes, a) = More(f[a + n], Point(e))
      <4>1. AfterSays(f, bytes, a, x, n, e)
        BY <3>d, <3>a, <3>b, <3>c, AfterIs
      <4> QED
        BY <4>1 DEF AfterSays
    <3>6. n \in {0, 1, 2, 3, 4}
      <4>1. x[1] \in Nat
        BY <3>2, ByteIs
      <4> QED
        BY <3>b, <4>1, NeededIs, SMT
    <3> DEFINE r == f[a]
    <3> HIDE DEF r
    <3>8. CASE ~Fit(x)
      <4>1. r = [units |-> << >>, carry |-> << >>, valid |-> FALSE]
        BY <3>4, <3>5, <3>8 DEF r
      <4>2. r.units = << >> /\ r.carry = << >> /\ r.valid = FALSE
        BY <4>1
      <4>3. ~Viable(x)
        BY <3>2, <3>3, <3>8, ViableFits
      <4>4. Parsed(r, x)
        BY <4>1, <4>2, <4>3, Zenon DEF Parsed
      <4> QED
        BY <3>7, <4>4 DEF r
    <3>9. CASE Fit(x) /\ Len(x) < n
      <4>1. r = [units |-> << >>, carry |-> x, valid |-> TRUE]
        BY <3>4, <3>5, <3>9 DEF r
      <4>2. x \in Begun
        BY <3>2, <3>3, <3>9, BegunIs DEF n
      <4>3. Parsed(r, x)
        BY <4>1, <4>2, ParsedShort
      <4> QED
        BY <3>7, <4>3 DEF r
    <3>10. CASE Fit(x) /\ n <= Len(x)
      <4>1. n # 0
        BY <3>10 DEF Fit, n
      <4>2. n \in 1 .. Len(x) /\ a + n \in 1 .. l + 1 /\ a + n >= l + 1 - k
        BY <1>1, <3>1, <3>2, <3>3, <3>6, <3>10, <4>1
      <4>3. Is(a + n)
        BY <1>4, <4>2
      <4>4. SubSeq(bytes, a + n, l) = y
        BY <3>2, <4>2 DEF y
      <4> DEFINE q == f[a + n]
                 p == Point(e)
      <4>5. Parsed(q, y)
        BY <4>3, <4>4 DEF Is
      <4>6. r = More(q, p) /\ Valid(p) /\ Encoded(p) = e /\ e \in Encodings /\ x = e \o y
        BY <3>4, <3>5, <3>10 DEF r, y
      <4>7. y \in Seq(Bytes)
        <5>1. n + 1 \in Int /\ Len(x) \in Int
          BY <3>3, <3>6
        <5>2. n \in Nat /\ n + 1 >= 1
          BY <3>6
        <5> QED
          BY <3>2, <3>3, <5>2 DEF y
      <4> HIDE DEF q, p
      <4>8. Parsed(More(q, p), Encoded(p) \o y)
        BY <4>5, <4>6, <4>7, ParsedMore
      <4> QED
        BY <3>7, <4>6, <4>8 DEF r
    <3> QED
      BY <3>3, <3>6, <3>8, <3>9, <3>10
  <2> QED
    BY <2>1, <2>2
<1>5. Nat \subseteq S
  <2> HIDE DEF S
  <2> QED
    BY <1>3, <1>4, SetInduction
<1>6. l \in S /\ at >= l + 1 - l
  <2> HIDE DEF S
  <2> QED
    BY <1>1, <1>5
<1> HIDE DEF Is
<1>7. Is(at)
  BY <1>6
<1> QED
  BY <1>7 DEF Is

\* push says what is true of the carry and the token.
LEMMA PushParses ==
    ASSUME AllBytes, NEW old \in Seq(Bytes), NEW piece \in Seq(Bytes)
    PROVE  Parsed(push(old, piece), old \o piece)
<1> DEFINE bytes == old \o piece
           f == CHOOSE g : Reads(g, bytes)
<1>1. bytes \in Seq(Bytes) /\ SubSeq(bytes, 1, Len(bytes)) = bytes /\ Len(bytes) \in Nat
  <2>1. bytes \in Seq(Bytes)
    OBVIOUS
  <2> HIDE DEF bytes
  <2> QED
    BY <2>1, SubSeqFull
<1>2. push(old, piece) = f[1]
  BY PushIs
<1> HIDE DEF bytes
<1>3. Reads(f, bytes)
  BY <1>1, ReadsExists
<1> HIDE DEF f
<1>4. 1 \in 1 .. Len(bytes) + 1
  BY <1>1
<1>5. Parsed(f[1], SubSeq(bytes, 1, Len(bytes)))
  BY <1>1, <1>3, <1>4, ReadsParses
<1> QED
  BY <1>1, <1>2, <1>5 DEF bytes

-----------------------------------------------------------------------------
(* The console.                                                             *)

\* What one unit becomes, was_cr saying whether a CR is before it.
OneRendered(unit, was_cr) ==
    IF unit = LineFeed /\ ~was_cr THEN <<CarriageReturn, LineFeed>> ELSE <<unit>>

Before(units, was_cr, i) == IF i = 1 THEN was_cr ELSE units[i - 1] = CarriageReturn
Pieces(units, was_cr) ==
    [i \in 1 .. Len(units) |-> OneRendered(units[i], Before(units, was_cr, i))]

\* render_console_text joins what the units become.
LEMMA RenderIs ==
    ASSUME NEW u, NEW c
    PROVE  render_console_text(u, c) = FlattenSeq(Pieces(u, c))
  BY DEF render_console_text, Pieces, OneRendered, Before

\* A unit becomes itself or a CR and an LF.
LEMMA OneRenderedIs ==
    ASSUME NEW x \in Nat, NEW c
    PROVE  /\ OneRendered(x, c) \in Seq(Nat)
           /\ x = LineFeed /\ ~c => OneRendered(x, c) = <<CarriageReturn, LineFeed>>
           /\ ~(x = LineFeed /\ ~c) => OneRendered(x, c) = <<x>>
<1>1. CarriageReturn \in Nat /\ LineFeed \in Nat
  BY DEF CarriageReturn, LineFeed
<1>2. <<CarriageReturn, LineFeed>> \in Seq(Nat) /\ <<x>> \in Seq(Nat)
  BY <1>1
<1> QED
  BY <1>2 DEF OneRendered

\* What the units become is one sequence for each.
LEMMA PiecesAre ==
    ASSUME NEW u \in Seq(Nat), NEW c
    PROVE  /\ Pieces(u, c) \in Seq(Seq(Nat)) /\ Len(Pieces(u, c)) = Len(u)
           /\ \A i \in 1 .. Len(u) : Pieces(u, c)[i] = OneRendered(u[i], Before(u, c, i))
<1> DEFINE A == Seq(Nat)
           n == Len(u)
           f == Pieces(u, c)
<1>1. n \in Nat /\ \A i \in 1 .. n : u[i] \in Nat
  OBVIOUS
<1>2. \A i \in 1 .. n : OneRendered(u[i], Before(u, c, i)) \in A
  BY <1>1, OneRenderedIs
<1>3. f = [i \in 1 .. n |-> OneRendered(u[i], Before(u, c, i))]
  BY DEF Pieces
<1> HIDE DEF A, n, f
<1>4. f \in [1 .. n -> A]
  BY <1>2, <1>3
<1>5. f \in Seq(A) /\ Len(f) = n
  BY <1>1, <1>4
<1>6. \A i \in 1 .. n : f[i] = OneRendered(u[i], Before(u, c, i))
  BY <1>3
<1> QED
  BY <1>5, <1>6 DEF A, n, f

\* Two sequences, one behind the other.
LEMMA ConcatIs ==
    ASSUME NEW S, NEW x \in Seq(S), NEW y \in Seq(S),
           NEW n, n = Len(x), NEW m, m = Len(y)
    PROVE  /\ x \o y \in Seq(S) /\ Len(x \o y) = n + m
           /\ \A i \in 1 .. n + m : (x \o y)[i] = IF i <= n THEN x[i] ELSE y[i - n]
  OBVIOUS

\* A text with one unit more.
OneMore(s, x) == s \o <<x>>

\* Its units, one by one.
LEMMA OneMoreIs ==
    ASSUME NEW s \in Seq(Nat), NEW x \in Nat
    PROVE  /\ OneMore(s, x) \in Seq(Nat)
           /\ Len(OneMore(s, x)) = Len(s) + 1
           /\ OneMore(s, x)[Len(s) + 1] = x
           /\ \A i \in 1 .. Len(s) : OneMore(s, x)[i] = s[i]
  BY DEF OneMore

\* Rendering goes on where it ended, if it knows whether that was a CR.
LEMMA RenderConcat ==
    ASSUME NEW u \in Seq(Nat), NEW v \in Seq(Nat), NEW c \in BOOLEAN
    PROVE  /\ EndsInCr(u, c) \in BOOLEAN
           /\ render_console_text(u \o v, c)
                 = render_console_text(u, c) \o render_console_text(v, EndsInCr(u, c))
           /\ EndsInCr(u \o v, c) = EndsInCr(v, EndsInCr(u, c))
<1> DEFINE d == EndsInCr(u, c)
           w == u \o v
           n == Len(u)
           m == Len(v)
<1>1. /\ n \in Nat /\ m \in Nat /\ w \in Seq(Nat) /\ Len(w) = n + m
      /\ \A i \in 1 .. n + m : w[i] = IF i <= n THEN u[i] ELSE v[i - n]
  OBVIOUS
<1>a. \A i \in 1 .. m : w[n + i] = v[i]
  OBVIOUS
<1>2. d = IF n = 0 THEN c ELSE u[n] = CarriageReturn
  BY DEF EndsInCr
<1>3. d \in BOOLEAN
  BY <1>2
<1> HIDE DEF d, w
<1> DEFINE pu == Pieces(u, c)
           pv == Pieces(v, d)
           pw == Pieces(w, c)
<1>4. /\ pu \in Seq(Seq(Nat)) /\ Len(pu) = n
      /\ \A i \in 1 .. n : pu[i] = OneRendered(u[i], Before(u, c, i))
  BY PiecesAre
<1>5. /\ pv \in Seq(Seq(Nat)) /\ Len(pv) = m
      /\ \A i \in 1 .. m : pv[i] = OneRendered(v[i], Before(v, d, i))
  BY PiecesAre
<1>6. /\ pw \in Seq(Seq(Nat)) /\ Len(pw) = n + m
      /\ \A i \in 1 .. n + m : pw[i] = OneRendered(w[i], Before(w, c, i))
  BY <1>1, PiecesAre
<1>7. ASSUME NEW i \in 1 .. n
      PROVE  w[i] = u[i] /\ Before(w, c, i) = Before(u, c, i)
  <2>1. i \in 1 .. n + m /\ i <= n
    BY <1>1
  <2>2. w[i] = u[i]
    BY <1>1, <2>1
  <2>3. CASE i = 1
    BY <2>2, <2>3 DEF Before
  <2>4. CASE i # 1
    <3>1. i - 1 \in 1 .. n + m /\ i - 1 <= n
      BY <1>1, <2>1, <2>4
    <3>2. w[i - 1] = u[i - 1]
      BY <1>1, <3>1
    <3> QED
      BY <2>2, <2>4, <3>2 DEF Before
  <2> QED
    BY <2>3, <2>4
<1>8. ASSUME NEW i \in 1 .. m
      PROVE  w[n + i] = v[i] /\ Before(w, c, n + i) = Before(v, d, i)
  <2>1. i \in Nat /\ n + i \in 1 .. n + m /\ ~(n + i <= n) /\ n + i - n = i
    BY <1>1
  <2>2. w[n + i] = v[i]
    BY <1>1, <2>1
  <2>3. CASE i = 1 /\ n = 0
    BY <1>2, <2>2, <2>3 DEF Before
  <2>4. CASE i = 1 /\ n # 0
    <3>1. n + i # 1 /\ n + i - 1 = n /\ n \in 1 .. n + m /\ n <= n
      BY <1>1, <2>4
    <3>2. w[n] = u[n]
      BY <1>1, <3>1
    <3> QED
      BY <1>2, <2>2, <2>4, <3>1, <3>2 DEF Before
  <2>5. CASE i # 1
    <3>1. n + i # 1 /\ i - 1 \in 1 .. m /\ n + (i - 1) = n + i - 1
      BY <1>1, <2>1, <2>5
    <3>2. w[n + (i - 1)] = v[i - 1]
      BY <1>a, <3>1
    <3> QED
      BY <2>2, <2>5, <3>1, <3>2 DEF Before
  <2> QED
    BY <2>3, <2>4, <2>5
<1> HIDE DEF pu, pv, pw
<1>9. pw = pu \o pv
  <2> DEFINE q == pu \o pv
             A == Seq(Nat)
  <2>0. pu \in Seq(A) /\ pv \in Seq(A) /\ pw \in Seq(A)
    BY <1>4, <1>5, <1>6
  <2> HIDE DEF A
  <2>1. /\ q \in Seq(A) /\ Len(q) = n + m
        /\ \A i \in 1 .. n + m : q[i] = IF i <= n THEN pu[i] ELSE pv[i - n]
    <3>1. Len(pu) = n /\ Len(pv) = m
      BY <1>4, <1>5
    <3> HIDE DEF n, m
    <3>2. /\ pu \o pv \in Seq(A) /\ Len(pu \o pv) = n + m
          /\ \A i \in 1 .. n + m : (pu \o pv)[i] = IF i <= n THEN pu[i] ELSE pv[i - n]
      BY <2>0, <3>1, ConcatIs
    <3> QED
      BY <3>2
  <2>2. ASSUME NEW i \in 1 .. n + m PROVE pw[i] = q[i]
    <3>1. pw[i] = OneRendered(w[i], Before(w, c, i))
      BY <1>6
    <3>2. CASE i \in 1 .. n
      <4>1. pu[i] = OneRendered(u[i], Before(u, c, i)) /\ q[i] = pu[i]
        BY <1>1, <1>4, <2>1, <3>2
      <4> QED
        BY <1>7, <3>1, <3>2, <4>1
    <3>3. CASE i \notin 1 .. n
      <4> DEFINE k == i - n
      <4>1. k \in 1 .. m /\ n + k = i /\ ~(i <= n)
        BY <1>1, <3>3
      <4>2. q[i] = pv[k]
        BY <2>1, <4>1
      <4> HIDE DEF k
      <4>3. pv[k] = OneRendered(v[k], Before(v, d, k))
        BY <1>5, <4>1
      <4>4. w[i] = v[k] /\ Before(w, c, i) = Before(v, d, k)
        BY <1>8, <4>1
      <4> QED
        BY <3>1, <4>2, <4>3, <4>4
    <3> QED
      BY <3>2, <3>3
  <2> HIDE DEF q
  <2>3. pw = q
    <3>1. Len(pw) = Len(q) /\ \A i \in 1 .. Len(pw) : pw[i] = q[i]
      BY <1>6, <2>1, <2>2
    <3> QED
      BY <2>0, <2>1, <3>1, SeqEqual
  <2> QED
    BY <2>3 DEF q
<1>10. FlattenSeq(pw) = FlattenSeq(pu) \o FlattenSeq(pv)
  BY <1>4, <1>5, <1>9, FlattenConcat
<1>11. render_console_text(w, c) = render_console_text(u, c) \o render_console_text(v, d)
  BY <1>10, RenderIs DEF pu, pv, pw
<1>12. EndsInCr(w, c) = EndsInCr(v, d)
  <2>1. CASE m = 0
    <3>1. v = << >> /\ w = u
      BY <2>1, ConcatEmptySeq DEF w
    <3> QED
      BY <3>1 DEF EndsInCr, d
  <2>2. CASE m # 0
    <3>1. m \in 1 .. m /\ n + m # 0
      BY <1>1, <2>2
    <3>2. w[n + m] = v[m] /\ v # << >> /\ w # << >>
      <4>1. v # << >> /\ w # << >>
        BY <1>1, <2>2, <3>1
      <4> QED
        BY <1>a, <3>1, <4>1
    <3> QED
      BY <1>1, <3>2 DEF EndsInCr
  <2> QED
    BY <2>1, <2>2
<1> QED
  BY <1>3, <1>11, <1>12 DEF d, w

\* Every LF has a CR before it.
LinesFed(s) == \A i \in 1 .. Len(s) : s[i] = LineFeed => i > 1 /\ s[i - 1] = CarriageReturn

\* What is rendered from the beginning has its CRs, and ends in one if the text does.
RenderedWell(u) ==
    LET s == render_console_text(u, FALSE)
    IN  /\ s \in Seq(Nat) /\ LinesFed(s)
        /\ EndsInCr(u, FALSE) => s # << >> /\ s[Len(s)] = CarriageReturn

\* The same for one unit more.
LEMMA OneMoreRendered ==
    ASSUME NEW s \in Seq(Nat), LinesFed(s), NEW x \in Nat, NEW c \in BOOLEAN,
           c => s # << >> /\ s[Len(s)] = CarriageReturn
    PROVE  LET t == s \o OneRendered(x, c)
           IN  /\ t \in Seq(Nat) /\ LinesFed(t)
               /\ x = CarriageReturn => t # << >> /\ t[Len(t)] = CarriageReturn
<1> DEFINE n == Len(s)
           one == OneRendered(x, c)
           t == s \o one
<1>1. n \in Nat
  OBVIOUS
<1>2. one \in Seq(Nat) /\ t \in Seq(Nat)
  BY OneRenderedIs
<1>3. CASE x = LineFeed /\ ~c
  <2>1. one = <<CarriageReturn, LineFeed>>
    BY <1>3, OneRenderedIs
  <2>2. CarriageReturn # LineFeed
    BY DEF CarriageReturn, LineFeed
  <2> HIDE DEF one
  <2>3. /\ Len(t) = n + 2 /\ t[n + 1] = CarriageReturn /\ t[n + 2] = LineFeed
        /\ \A i \in 1 .. n : t[i] = s[i]
    BY <1>1, <2>1
  <2> HIDE DEF t
  <2>4. ASSUME NEW i \in 1 .. n + 2, t[i] = LineFeed PROVE i > 1 /\ t[i - 1] = CarriageReturn
    <3>1. i \in 1 .. n \/ i = n + 1 \/ i = n + 2
      BY <1>1
    <3>2. CASE i \in 1 .. n
      <4>1. s[i] = LineFeed
        BY <2>3, <2>4, <3>2
      <4>2. i > 1 /\ s[i - 1] = CarriageReturn
        BY <3>2, <4>1 DEF LinesFed
      <4>3. i - 1 \in 1 .. n
        BY <1>1, <3>2, <4>2
      <4> QED
        BY <2>3, <4>2, <4>3
    <3>3. CASE i = n + 1
      BY <2>2, <2>3, <2>4, <3>3
    <3>4. CASE i = n + 2
      <4>1. i - 1 = n + 1 /\ i > 1
        BY <1>1, <3>4
      <4> QED
        BY <2>3, <4>1
    <3> QED
      BY <3>1, <3>2, <3>3, <3>4
  <2>5. LinesFed(t)
    BY <2>3, <2>4 DEF LinesFed
  <2> QED
    BY <1>2, <1>3, <2>2, <2>5 DEF t, one
<1>4. CASE ~(x = LineFeed /\ ~c)
  <2>1. one = <<x>>
    BY <1>4, OneRenderedIs
  <2> HIDE DEF one
  <2>3. /\ Len(t) = n + 1 /\ t[n + 1] = x
        /\ \A i \in 1 .. n : t[i] = s[i]
    BY <1>1, <2>1
  <2> HIDE DEF t
  <2>4. ASSUME NEW i \in 1 .. n + 1, t[i] = LineFeed PROVE i > 1 /\ t[i - 1] = CarriageReturn
    <3>1. i \in 1 .. n \/ i = n + 1
      BY <1>1
    <3>2. CASE i \in 1 .. n
      <4>1. s[i] = LineFeed
        BY <2>3, <2>4, <3>2
      <4>2. i > 1 /\ s[i - 1] = CarriageReturn
        BY <3>2, <4>1 DEF LinesFed
      <4>3. i - 1 \in 1 .. n
        BY <1>1, <3>2, <4>2
      <4> QED
        BY <2>3, <4>2, <4>3
    <3>3. CASE i = n + 1
      <4>1. c
        BY <1>4, <2>3, <2>4, <3>3
      <4>2. s # << >> /\ s[n] = CarriageReturn
        BY <4>1
      <4>3. n # 0 /\ n \in 1 .. n /\ i - 1 = n /\ i > 1
        BY <1>1, <3>3, <4>2
      <4> QED
        BY <2>3, <4>2, <4>3
    <3> QED
      BY <3>1, <3>2, <3>3
  <2>5. LinesFed(t)
    BY <2>3, <2>4 DEF LinesFed
  <2>6. t # << >>
    BY <1>1, <2>3
  <2> QED
    BY <1>2, <2>3, <2>5, <2>6 DEF t, one
<1> QED
  BY <1>3, <1>4

\* Rendering one unit.
LEMMA RenderOne ==
    ASSUME NEW x \in Nat, NEW c
    PROVE  /\ render_console_text(<<x>>, c) = OneRendered(x, c)
           /\ EndsInCr(<<x>>, c) <=> x = CarriageReturn
<1> DEFINE u == <<x>>
           p == Pieces(u, c)
           one == OneRendered(x, c)
<1>1. Len(u) = 1 /\ u[1] = x /\ u \in Seq(Nat) /\ u # << >>
  OBVIOUS
<1>2. Before(u, c, 1) = c
  BY DEF Before
<1>3. p \in Seq(Seq(Nat)) /\ Len(p) = 1 /\ p[1] = one
  <2>1. 1 \in 1 .. 1
    OBVIOUS
  <2> HIDE DEF u
  <2> QED
    <3>1. /\ Pieces(u, c) \in Seq(Seq(Nat)) /\ Len(Pieces(u, c)) = Len(u)
          /\ \A i \in 1 .. Len(u) : Pieces(u, c)[i] = OneRendered(u[i], Before(u, c, i))
      BY <1>1, PiecesAre
    <3> QED
      BY <1>1, <1>2, <2>1, <3>1
<1>4. one \in Seq(Nat)
  BY OneRenderedIs
<1> HIDE DEF p, one
<1>5. p = <<one>>
  BY <1>3
<1>6. FlattenSeq(p) = one
  BY <1>4, <1>5, FlattenOne
<1>7. render_console_text(u, c) = one
  BY <1>6, RenderIs DEF p
<1>8. EndsInCr(u, c) <=> x = CarriageReturn
  <2> HIDE DEF u
  <2> QED
    BY <1>1 DEF EndsInCr
<1> QED
  BY <1>7, <1>8 DEF one

\* Nothing is rendered as nothing.
LEMMA RenderNone ==
    ASSUME NEW c
    PROVE  render_console_text(<< >>, c) = << >> /\ EndsInCr(<< >>, c) = c
<1>1. Pieces(<< >>, c) = << >>
  BY DEF Pieces
<1> QED
  BY <1>1, RenderIs, FlattenNone DEF EndsInCr

\* Every text is rendered well.
LEMMA AllRenderedWell ==
    ASSUME NEW u \in Seq(Nat)
    PROVE  RenderedWell(u)
<1> DEFINE S == {n \in Nat : \A v \in Seq(Nat) : Len(v) = n => RenderedWell(v)}
<1>1. 0 \in S
  <2>1. \A v \in Seq(Nat) : Len(v) = 0 => v = << >>
    OBVIOUS
  <2>2. RenderedWell(<< >>)
    <3>1. render_console_text(<< >>, FALSE) = << >> /\ EndsInCr(<< >>, FALSE) = FALSE
      BY RenderNone
    <3>2. << >> \in Seq(Nat) /\ LinesFed(<< >>)
      BY DEF LinesFed
    <3> QED
      BY <3>1, <3>2 DEF RenderedWell
  <2> QED
    BY <2>1, <2>2
<1>2. ASSUME NEW n \in Nat, n \in S PROVE n + 1 \in S
  <2> SUFFICES ASSUME NEW v \in Seq(Nat), Len(v) = n + 1 PROVE RenderedWell(v)
    OBVIOUS
  <2> DEFINE w == SubSeq(v, 1, n)
             x == v[n + 1]
  <2>1. x \in Nat
    OBVIOUS
  <2>2. w \in Seq(Nat) /\ Len(w) = n /\ \A i \in 1 .. n : w[i] = v[i]
    OBVIOUS
  <2>3. v = w \o <<x>>
    <3> HIDE DEF w, x
    <3> DEFINE q == OneMore(w, x)
    <3>1. q \in Seq(Nat) /\ Len(q) = n + 1 /\ q[n + 1] = x /\ \A i \in 1 .. n : q[i] = w[i]
      <4>1. /\ q \in Seq(Nat) /\ Len(q) = Len(w) + 1 /\ q[Len(w) + 1] = x
            /\ \A i \in 1 .. Len(w) : q[i] = w[i]
        BY <2>1, <2>2, OneMoreIs
      <4> HIDE DEF q
      <4> QED
        BY <2>2, <4>1
    <3>2. ASSUME NEW i \in 1 .. n + 1 PROVE q[i] = v[i]
      <4>1. i \in 1 .. n \/ i = n + 1
        OBVIOUS
      <4> HIDE DEF q
      <4> QED
        BY <2>2, <3>1, <4>1 DEF x
    <3> HIDE DEF q
    <3>3. q = v
      BY <3>1, <3>2, SeqEqual
    <3> QED
      BY <3>3 DEF q, OneMore
  <2>4. RenderedWell(w)
    BY <1>2, <2>2
  <2> HIDE DEF w, x
  <2> DEFINE s == render_console_text(w, FALSE)
             c == EndsInCr(w, FALSE)
             t == s \o OneRendered(x, c)
  <2>5. s \in Seq(Nat) /\ LinesFed(s) /\ (c => s # << >> /\ s[Len(s)] = CarriageReturn)
    BY <2>4 DEF RenderedWell
  <2>6. /\ c \in BOOLEAN
        /\ render_console_text(v, FALSE) = s \o render_console_text(<<x>>, c)
        /\ EndsInCr(v, FALSE) = EndsInCr(<<x>>, c)
    <3>1. <<x>> \in Seq(Nat)
      BY <2>1
    <3> DEFINE one == <<x>>
    <3> HIDE DEF one
    <3>2. /\ EndsInCr(w, FALSE) \in BOOLEAN
          /\ render_console_text(w \o one, FALSE)
                = render_console_text(w, FALSE) \o render_console_text(one, EndsInCr(w, FALSE))
          /\ EndsInCr(w \o one, FALSE) = EndsInCr(one, EndsInCr(w, FALSE))
      BY <2>2, <3>1, RenderConcat DEF one
    <3> QED
      BY <2>3, <3>2 DEF one
  <2> HIDE DEF s, c
  <2>7. render_console_text(v, FALSE) = t /\ (EndsInCr(v, FALSE) <=> x = CarriageReturn)
    BY <2>1, <2>6, RenderOne
  <2>8. /\ t \in Seq(Nat) /\ LinesFed(t)
        /\ x = CarriageReturn => t # << >> /\ t[Len(t)] = CarriageReturn
    BY <2>1, <2>5, <2>6, OneMoreRendered
  <2> HIDE DEF t
  <2> QED
    BY <2>7, <2>8 DEF RenderedWell
<1>3. Nat \subseteq S
  <2> HIDE DEF S
  <2> QED
    BY <1>1, <1>2, SetInduction
<1>4. Len(u) \in Nat
  OBVIOUS
<1> QED
  BY <1>3, <1>4

-----------------------------------------------------------------------------
(* A reply.                                                                 *)

\* Everything the decoder holds belongs to the bytes it was fed, and everything
\* shown to what it decoded.
TextInv ==
    /\ fed \in Seq(Bytes)
    /\ decoded \in Seq(Nat) /\ Closed(decoded)
    /\ carry \in Begun
    /\ Through(EncodedUnits(decoded))
    /\ reply \in {"open", "whole", "UTF8_INCOMPLETE", "UTF8_INVALID"}
    /\ reply # "UTF8_INVALID" => EncodedUnits(decoded) \o carry = fed
    /\ reply = "UTF8_INVALID" => ~Viable(fed)
    /\ shown = render_console_text(decoded, FALSE)
    /\ previous_was_cr = EndsInCr(decoded, FALSE)
    /\ reply = "whole" => carry = << >>

\* What was fed and not refused begins a text.
LEMMA TextInvImplies ==
    ASSUME AllBytes, TextInv
    PROVE  TextIsFaithful
<1>1. RenderedWell(decoded)
  BY AllRenderedWell DEF TextInv
<1>2. LinesFed(shown)
  BY <1>1 DEF RenderedWell, TextInv
<1>3. ASSUME reply # "UTF8_INVALID" PROVE Viable(fed)
  <2>1. Viable(carry) /\ carry \in Seq(Bytes)
    BY BegunViable DEF TextInv
  <2>2. Viable(EncodedUnits(decoded) \o carry)
    BY <2>1 DEF TextInv, Through
  <2> QED
    BY <1>3, <2>2 DEF TextInv
<1>4. reply = "UTF8_INVALID" <=> ~Viable(fed)
  BY <1>3 DEF TextInv
<1>5. \A i \in 1 .. Len(shown) : shown[i] = LineFeed => i > 1 /\ shown[i - 1] = CarriageReturn
  BY <1>2 DEF LinesFed
<1>6. /\ reply # "UTF8_INVALID" => EncodedUnits(decoded) \o carry = fed
      /\ shown = render_console_text(decoded, FALSE)
      /\ carry \in Begun
      /\ reply = "whole" => carry = << >>
  BY DEF TextInv
<1> QED
  BY <1>4, <1>5, <1>6, Zenon DEF TextIsFaithful

\* A reply begins with nothing.
LEMMA TextInitInv ==
    ASSUME AllBytes, TextInit
    PROVE  TextInv
<1>1. << >> \in Seq(Bytes) /\ << >> \in Seq(Nat)
  OBVIOUS
<1>2. EncodedUnits(<< >>) = << >> /\ Closed(<< >>)
  BY EncodedUnitsNone
<1>3. Through(<< >>)
  BY ThroughNone
<1>4. << >> \in Begun
  BY BegunIs
<1>5. << >> \o << >> = << >>
  BY <1>1, ConcatEmptySeq
<1>6. render_console_text(<< >>, FALSE) = << >> /\ EndsInCr(<< >>, FALSE) = FALSE
  BY RenderNone
<1> QED
  BY <1>1, <1>2, <1>3, <1>4, <1>5, <1>6 DEF TextInit, TextInv

\* A token.
LEMMA TextTokenInv ==
    ASSUME AllBytes, TextInv, NEW piece \in Seq(Bytes), TextToken(piece)
    PROVE  TextInv'
<1> DEFINE b == EncodedUnits(decoded)
           x == carry \o piece
           r == push(carry, piece)
<1>1. /\ fed \in Seq(Bytes) /\ decoded \in Seq(Nat) /\ Closed(decoded) /\ carry \in Begun
      /\ carry \in Seq(Bytes) /\ Through(b) /\ b \in Seq(Bytes) /\ b \o carry = fed
      /\ reply = "open" /\ fed' = fed \o piece
  BY BegunViable DEF TextInv, TextToken, Through
<1>2. fed' \in Seq(Bytes) /\ x \in Seq(Bytes) /\ fed' = b \o x
  <2> HIDE DEF b
  <2>1. \A p, q, s \in Seq(Bytes) : (p \o q) \o s = p \o (q \o s) /\ p \o q \in Seq(Bytes)
    BY Associative
  <2>a. b \in Seq(Bytes) /\ carry \in Seq(Bytes) /\ piece \in Seq(Bytes)
    BY <1>1
  <2>2. (b \o carry) \o piece = b \o (carry \o piece)
    BY <2>a, <2>1, Zenon
  <2> QED
    BY <1>1, <2>1, <2>2
<1>3. Parsed(r, x)
  BY <1>1, PushParses
<1>4. CASE r.valid
  <2>1. /\ carry' = r.carry /\ decoded' = decoded \o r.units
        /\ shown' = shown \o render_console_text(r.units, previous_was_cr)
        /\ previous_was_cr' = EndsInCr(r.units, previous_was_cr)
        /\ reply' = reply
    BY <1>4 DEF TextToken
  <2> DEFINE u == r.units
             c == r.carry
             e == EncodedUnits(u)
  <2>2. u \in Seq(Nat) /\ Closed(u) /\ c \in Begun /\ Through(e) /\ e \o c = x
        /\ c \in Seq(Bytes) /\ e \in Seq(Bytes)
    BY <1>3, <1>4, BegunViable DEF Parsed, Through
  <2> HIDE DEF r, u, c, e, b, x
  <2>3. decoded' \in Seq(Nat) /\ Closed(decoded') /\ EncodedUnits(decoded') = b \o e
    <3>1. decoded' = decoded \o u
      BY <2>1 DEF u
    <3>2. decoded \o u \in Seq(Nat) /\ Closed(decoded \o u)
          /\ EncodedUnits(decoded \o u) = EncodedUnits(decoded) \o EncodedUnits(u)
      BY <1>1, <2>2, EncodedUnitsConcat
    <3> QED
      BY <3>1, <3>2 DEF b, e
  <2>4. Through(b \o e)
    BY <1>1, <2>2, ThroughConcat
  <2>5. (b \o e) \o c = fed'
    <3>1. \A p, q, s \in Seq(Bytes) : (p \o q) \o s = p \o (q \o s)
      BY Associative
    <3>2. (b \o e) \o c = b \o (e \o c)
      BY <1>1, <2>2, <3>1
    <3> QED
      BY <1>2, <2>2, <3>2
  <2>6. /\ shown' = render_console_text(decoded', FALSE)
        /\ previous_was_cr' = EndsInCr(decoded', FALSE)
    <3>1. /\ shown = render_console_text(decoded, FALSE)
          /\ previous_was_cr = EndsInCr(decoded, FALSE)
      BY DEF TextInv
    <3>2. /\ render_console_text(decoded \o u, FALSE)
                = render_console_text(decoded, FALSE)
                  \o render_console_text(u, EndsInCr(decoded, FALSE))
          /\ EndsInCr(decoded \o u, FALSE) = EndsInCr(u, EndsInCr(decoded, FALSE))
      BY <1>1, <2>2, RenderConcat
    <3> QED
      BY <2>1, <3>1, <3>2 DEF u
  <2>7. carry' = c /\ reply' = "open"
    BY <1>1, <2>1 DEF c
  <2> QED
    BY <1>2, <2>2, <2>3, <2>4, <2>5, <2>6, <2>7 DEF TextInv
<1>5. CASE ~r.valid
  <2>1. /\ reply' = "UTF8_INVALID" /\ carry' = carry /\ decoded' = decoded /\ shown' = shown
        /\ previous_was_cr' = previous_was_cr
    BY <1>5 DEF TextToken
  <2>2. ~Viable(x)
    BY <1>3, <1>5 DEF Parsed
  <2>3. ~Viable(fed')
    BY <1>1, <1>2, <2>2 DEF Through
  <2> QED
    BY <1>1, <1>2, <2>1, <2>3 DEF TextInv
<1> QED
  BY <1>4, <1>5

\* The end of a reply.
LEMMA EndReplyInv ==
    ASSUME TextInv, EndReply
    PROVE  TextInv'
  BY DEF TextInv, EndReply, finish

\* What is true of a reply at every time.
THEOREM TextInvariance == Bytes = 0 .. 255 => (TextSpec => []TextInv)
<1> SUFFICES ASSUME Bytes = 0 .. 255 PROVE TextSpec => []TextInv
  OBVIOUS
<1>1. AllBytes
  BY DEF AllBytes
<1>2. TextInit => TextInv
  BY <1>1, TextInitInv
<1>3. TextInv /\ [TextNext]_textVars => TextInv'
  <2> SUFFICES ASSUME TextInv, [TextNext]_textVars PROVE TextInv'
    OBVIOUS
  <2>1. ASSUME NEW piece \in BoundedSeq(Bytes, PieceBytes), TextToken(piece) PROVE TextInv'
    <3>1. piece \in Seq(Bytes)
      <4>1. PICK m \in 0 .. PieceBytes : piece \in [1 .. m -> Bytes]
        BY <2>1 DEF BoundedSeq, SeqOf
      <4>2. m \in Nat
        BY BytesAssumption
      <4> QED
        BY <4>1, <4>2
    <3> QED
      BY <1>1, <2>1, <3>1, TextTokenInv
  <2>2. CASE EndReply
    BY <2>2, EndReplyInv
  <2>3. CASE UNCHANGED textVars
    BY <2>3 DEF textVars, TextInv
  <2> QED
    BY <2>1, <2>2, <2>3 DEF TextNext
<1> QED
  BY <1>2, <1>3, PTL DEF TextSpec

\* With the bytes of the code, a reply is decoded, refused and shown faithfully
\* however it is cut into tokens.
THEOREM TextAlwaysFaithful == Bytes = 0 .. 255 => (TextSpec => []TextIsFaithful)
<1> SUFFICES ASSUME Bytes = 0 .. 255 PROVE TextSpec => []TextIsFaithful
  OBVIOUS
<1>1. AllBytes
  BY DEF AllBytes
<1>2. TextSpec => []TextInv
  BY TextInvariance
<1>3. TextInv => TextIsFaithful
  BY <1>1, TextInvImplies
<1> QED
  BY <1>2, <1>3, PTL

=============================================================================
