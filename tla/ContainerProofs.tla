--------------------------- MODULE ContainerProofs ---------------------------
(***************************************************************************)
(* Proofs about the model container, for any source that tokenizer_sections*)
(* accepts: any vocabulary, merges, template, tensors and alignment.       *)
(***************************************************************************)
EXTENDS Container, SequenceTheorems, WellFoundedInduction, TLAPS

-----------------------------------------------------------------------------
(* Recursive functions.                                                     *)

\* Induction over the natural numbers, with a set for the property.
LEMMA SetInduction ==
    ASSUME NEW S, 0 \in S, \A n \in Nat : n \in S => n + 1 \in S
    PROVE  Nat \subseteq S
<1> DEFINE less == {ab \in Nat \X Nat : ab[1] < ab[2]}
           Out == Nat \ S
<1>1. IsWellFoundedOn(less, Nat)
  BY NatLessThanWellFounded DEF OpToRel
<1> HIDE DEF less
<1> SUFFICES ASSUME Out # {} PROVE FALSE
  OBVIOUS
<1>2. PICK b \in Out : \A c \in Out : ~(<<c, b>> \in less)
  <2>1. Out \subseteq Nat /\ Out # {}
    OBVIOUS
  <2> HIDE DEF Out
  <2> QED
    BY <1>1, <2>1, WFMin, Zenon
<1>3. b \in Nat \ {0} /\ b - 1 \in Nat /\ b - 1 + 1 = b /\ b - 1 < b
  OBVIOUS
<1>4. b - 1 \in S
  BY <1>2, <1>3 DEF less
<1> QED
  BY <1>3, <1>4

\* The values of a function that begins with first and goes on by step.
Runs(f, first, step, n) ==
    f = [i \in 1 .. n |-> IF i = 1 THEN first ELSE step[<<f[i - 1], i - 1>>]]

\* There is one of any length, and it stays in the set that step stays in.
LEMMA RunExists ==
    ASSUME NEW A, NEW first \in A, NEW step \in [A \X Nat -> A], NEW n \in Nat
    PROVE  \E f : Runs(f, first, step, n + 1) /\ f \in [1 .. n + 1 -> A]
<1> DEFINE S == {m \in Nat : \E f : Runs(f, first, step, m + 1) /\ f \in [1 .. m + 1 -> A]}
<1>1. 0 \in S
  <2> DEFINE f == [i \in 1 .. 1 |-> first]
  <2>1. Runs(f, first, step, 0 + 1) /\ f \in [1 .. 0 + 1 -> A]
    BY DEF Runs
  <2> QED
    BY <2>1
<1>2. ASSUME NEW m \in Nat, m \in S PROVE m + 1 \in S
  <2>1. PICK g : Runs(g, first, step, m + 1) /\ g \in [1 .. m + 1 -> A]
    BY <1>2
  <2> DEFINE k == m + 2
             f == [i \in 1 .. k |-> IF i = k THEN step[<<g[m + 1], m + 1>>] ELSE g[i]]
  <2>2. ASSUME NEW i \in 1 .. k
        PROVE  f[i] \in A /\ f[i] = IF i = 1 THEN first ELSE step[<<f[i - 1], i - 1>>]
    <3>1. CASE i = k
      <4>1. m + 1 \in 1 .. m + 1 /\ i - 1 = m + 1 /\ m + 1 # k /\ i # 1
        BY <3>1
      <4>2. f[m + 1] = g[m + 1] /\ g[m + 1] \in A
        BY <2>1, <4>1
      <4> QED
        BY <3>1, <4>1, <4>2
    <3>2. CASE i # k
      <4>1. i \in 1 .. m + 1 /\ f[i] = g[i] /\ (i # 1 => i - 1 \in 1 .. m + 1 /\ f[i - 1] = g[i - 1])
        BY <3>2
      <4>2. g[i] = (IF i = 1 THEN first ELSE step[<<g[i - 1], i - 1>>]) /\ g[i] \in A
        BY <2>1, <4>1 DEF Runs
      <4> QED
        BY <4>1, <4>2
    <3> QED
      BY <3>1, <3>2
  <2>3. f = [i \in 1 .. k |-> f[i]]
    OBVIOUS
  <2>4. k = (m + 1) + 1 /\ m + 1 \in Nat
    OBVIOUS
  <2> HIDE DEF f, k
  <2>5. Runs(f, first, step, k) /\ f \in [1 .. k -> A]
    BY <2>2, <2>3 DEF Runs
  <2> QED
    BY <2>4, <2>5
<1> QED
  <2> HIDE DEF S
  <2>1. Nat \subseteq S
    BY <1>1, <1>2, SetInduction
  <2> QED
    BY <2>1 DEF S

-----------------------------------------------------------------------------
(* The layout.                                                              *)

\* align gives the next multiple of the unit.
LEMMA AlignIs ==
    ASSUME NEW v \in Nat
    PROVE  /\ align(v) \in Nat /\ align(v) >= v /\ align(v) % Unit = 0
           /\ v % Unit = 0 => align(v) = v
<1> DEFINE q == (v + Unit - 1) \div Unit
<1>1. Unit \in Nat \ {0}
  BY ContainerAssumption
<1>2. q \in Nat /\ Unit * q <= v + Unit - 1 /\ v + Unit - 1 < Unit * q + Unit
  BY <1>1
<1>3. align(v) = Unit * q
  BY <1>1, <1>2 DEF align
<1> HIDE DEF q
<1>4. (Unit * q) % Unit = 0
  BY <1>1, <1>2
<1>5. Unit * q \in Nat /\ Unit * q >= v
  BY <1>1, <1>2
<1>6. ASSUME v % Unit = 0 PROVE Unit * q = v
  <2> DEFINE p == v \div Unit
  <2>1. p \in Nat /\ v = Unit * p
    BY <1>1, <1>6
  <2> HIDE DEF p
  <2>2. p <= q
    BY <1>1, <1>2, <2>1
  <2>3. q <= p
    BY <1>1, <1>2, <2>1
  <2> QED
    BY <1>2, <2>1, <2>2, <2>3
<1> QED
  BY <1>3, <1>4, <1>5, <1>6

\* Offsets begins at the aligned start, and each thing begins at the aligned end
\* of the one before it.
LEMMA OffsetsAre ==
    ASSUME NEW lengths \in Seq(Nat), NEW start \in Nat
    PROVE  LET at == Offsets(lengths, start)
           IN  /\ at \in [1 .. Len(lengths) + 1 -> Nat]
               /\ at[1] = align(start)
               /\ \A i \in 1 .. Len(lengths) : at[i + 1] = align(at[i] + lengths[i])
<1> DEFINE n == Len(lengths)
           first == align(start)
           step == [p \in Nat \X Nat |-> IF p[2] \in 1 .. n THEN align(p[1] + lengths[p[2]]) ELSE 0]
           Is(f) == f = [i \in 1 .. n + 1 |->
                           IF i = 1 THEN align(start) ELSE align(f[i - 1] + lengths[i - 1])]
<1>1. n \in Nat /\ first \in Nat /\ \A i \in 1 .. n : lengths[i] \in Nat
  BY AlignIs
<1>2. step \in [Nat \X Nat -> Nat]
  <2>1. ASSUME NEW a \in Nat, NEW b \in 1 .. n PROVE align(a + lengths[b]) \in Nat
    BY <1>1, AlignIs
  <2> QED
    BY <2>1
<1>3. PICK f : Runs(f, first, step, n + 1) /\ f \in [1 .. n + 1 -> Nat]
  <2> HIDE DEF first, step, n
  <2> QED
    BY <1>1, <1>2, RunExists
<1>4. ASSUME NEW i \in 1 .. n + 1
      PROVE  f[i] = IF i = 1 THEN align(start) ELSE align(f[i - 1] + lengths[i - 1])
  <2>1. f[i] = IF i = 1 THEN first ELSE step[<<f[i - 1], i - 1>>]
    <3> HIDE DEF first, step, n
    <3> QED
      BY <1>3 DEF Runs
  <2>2. ASSUME i # 1 PROVE step[<<f[i - 1], i - 1>>] = align(f[i - 1] + lengths[i - 1])
    <3> DEFINE a == f[i - 1]
               b == i - 1
    <3>0. b \in 1 .. n /\ b \in Nat /\ b \in 1 .. n + 1
      <4> HIDE DEF n
      <4> QED
        BY <1>1, <2>2
    <3>1. b \in 1 .. n /\ a \in Nat /\ b \in Nat
      <4> HIDE DEF n, step, b
      <4>1. f[b] \in Nat
        BY <1>3, <3>0
      <4> QED
        BY <3>0, <4>1 DEF b
    <3> HIDE DEF a, b
    <3>2. <<a, b>> \in Nat \X Nat
      BY <3>1
    <3>3. step[<<a, b>>] = align(a + lengths[b])
      BY <3>1, <3>2
    <3> QED
      BY <3>3 DEF a, b
  <2> QED
    BY <2>1, <2>2
<1>5. Is(f)
  <2>1. f = [i \in 1 .. n + 1 |-> f[i]]
    BY <1>3
  <2> QED
    BY <1>4, <2>1
<1> DEFINE at == Offsets(lengths, start)
<1>6. at = CHOOSE g : Is(g)
  BY DEF Offsets
<1>7. Is(at)
  <2> HIDE DEF Is, at
  <2> QED
    BY <1>5, <1>6
<1> HIDE DEF at, n
<1>8. at = [i \in 1 .. n + 1 |-> IF i = 1 THEN align(start) ELSE align(at[i - 1] + lengths[i - 1])]
  BY <1>7
<1>9. at[1] = align(start) /\ \A i \in 1 .. n : at[i + 1] = align(at[i] + lengths[i])
  BY <1>1, <1>8
<1>10. \A i \in 1 .. n + 1 : at[i] \in Nat
  <2> DEFINE S == {m \in Nat : m + 1 \in 1 .. n + 1 => at[m + 1] \in Nat}
  <2>1. 0 \in S
    BY <1>1, <1>9
  <2>2. ASSUME NEW m \in Nat, m \in S PROVE m + 1 \in S
    <3> SUFFICES ASSUME (m + 1) + 1 \in 1 .. n + 1 PROVE at[(m + 1) + 1] \in Nat
      BY <1>1
    <3>1. m + 1 \in 1 .. n /\ at[m + 1] \in Nat
      BY <1>1, <2>2
    <3>2. at[m + 1] + lengths[m + 1] \in Nat
      BY <1>1, <3>1
    <3> QED
      BY <1>9, <3>1, <3>2, AlignIs
  <2> HIDE DEF S
  <2>3. Nat \subseteq S
    BY <2>1, <2>2, SetInduction
  <2>4. ASSUME NEW i \in 1 .. n + 1 PROVE at[i] \in Nat
    <3>1. i - 1 \in Nat /\ (i - 1) + 1 = i
      BY <1>1
    <3>2. i - 1 \in S
      BY <2>3, <3>1
    <3> QED
      BY <3>1, <3>2 DEF S
  <2> QED
    BY <2>4
<1>11. at \in [1 .. n + 1 -> Nat]
  BY <1>8, <1>10
<1> QED
  BY <1>9, <1>11 DEF at, n

\* The strings of the source.
LEMMA StringsAre ==
    /\ Vocabulary \in Seq(Seq(Bytes)) /\ Len(Vocabulary) \in Nat
    /\ \A i \in 1 .. Len(Vocabulary) :
          Vocabulary[i] \in Seq(Bytes) /\ Len(Vocabulary[i]) \in Nat \ {0}
<1> DEFINE Strings == Seq(Bytes) \ {<< >>}
<1>1. Vocabulary \in Seq(Strings)
  BY SourceAssumption
<1>2. Strings \subseteq Seq(Bytes)
  OBVIOUS
<1>3. \A s \in Strings : Len(s) \in Nat \ {0}
  OBVIOUS
<1> HIDE DEF Strings
<1>4. Len(Vocabulary) \in Nat /\ \A i \in 1 .. Len(Vocabulary) : Vocabulary[i] \in Strings
  BY <1>1
<1>5. Vocabulary \in Seq(Seq(Bytes))
  BY <1>1, <1>2
<1> QED
  BY <1>2, <1>3, <1>4, <1>5

\* The strings begin where the ones before them end.
LEMMA StartsAre ==
    /\ TokenStarts \in [1 .. Len(Vocabulary) + 1 -> Nat]
    /\ TokenStarts[1] = 0
    /\ \A i \in 1 .. Len(Vocabulary) :
          TokenStarts[i + 1] = TokenStarts[i] + Len(Vocabulary[i])
<1> DEFINE n == Len(Vocabulary)
           step == [p \in Nat \X Nat |-> IF p[2] \in 1 .. n THEN p[1] + Len(Vocabulary[p[2]]) ELSE 0]
           Is(f) == f = [i \in 1 .. n + 1 |->
                           IF i = 1 THEN 0 ELSE f[i - 1] + Len(Vocabulary[i - 1])]
           at == TokenStarts
<1>1. n \in Nat /\ \A i \in 1 .. n : Len(Vocabulary[i]) \in Nat
  BY StringsAre
<1>2. step \in [Nat \X Nat -> Nat]
  <2>1. ASSUME NEW a \in Nat, NEW b \in 1 .. n PROVE a + Len(Vocabulary[b]) \in Nat
    BY <1>1
  <2> HIDE DEF n
  <2> QED
    BY <2>1
<1>3. PICK f : Runs(f, 0, step, n + 1) /\ f \in [1 .. n + 1 -> Nat]
  <2> HIDE DEF step, n
  <2> QED
    BY <1>1, <1>2, RunExists
<1>4. ASSUME NEW i \in 1 .. n + 1
      PROVE  f[i] = IF i = 1 THEN 0 ELSE f[i - 1] + Len(Vocabulary[i - 1])
  <2>1. f[i] = IF i = 1 THEN 0 ELSE step[<<f[i - 1], i - 1>>]
    <3> HIDE DEF step, n
    <3> QED
      BY <1>3 DEF Runs
  <2>2. ASSUME i # 1 PROVE step[<<f[i - 1], i - 1>>] = f[i - 1] + Len(Vocabulary[i - 1])
    <3> DEFINE a == f[i - 1]
               b == i - 1
    <3>0. b \in 1 .. n /\ b \in Nat /\ b \in 1 .. n + 1
      <4> HIDE DEF n
      <4> QED
        BY <1>1, <2>2
    <3>1. b \in 1 .. n /\ a \in Nat /\ b \in Nat
      <4> HIDE DEF n, step, b
      <4>1. f[b] \in Nat
        BY <1>3, <3>0
      <4> QED
        BY <3>0, <4>1 DEF b
    <3> HIDE DEF a, b
    <3>2. <<a, b>> \in Nat \X Nat
      BY <3>1
    <3>3. step[<<a, b>>] = a + Len(Vocabulary[b])
      BY <3>1, <3>2
    <3> QED
      BY <3>3 DEF a, b
  <2> QED
    BY <2>1, <2>2
<1>5. Is(f)
  <2>1. f = [i \in 1 .. n + 1 |-> f[i]]
    BY <1>3
  <2> QED
    BY <1>4, <2>1
<1>6. at = CHOOSE g : Is(g)
  BY DEF TokenStarts
<1>7. Is(at)
  <2> HIDE DEF Is, at
  <2> QED
    BY <1>5, <1>6
<1> HIDE DEF at, n
<1>8. at = [i \in 1 .. n + 1 |-> IF i = 1 THEN 0 ELSE at[i - 1] + Len(Vocabulary[i - 1])]
  BY <1>7
<1>9. at[1] = 0 /\ \A i \in 1 .. n : at[i + 1] = at[i] + Len(Vocabulary[i])
  BY <1>1, <1>8
<1>10. \A i \in 1 .. n + 1 : at[i] \in Nat
  <2> DEFINE S == {m \in Nat : m + 1 \in 1 .. n + 1 => at[m + 1] \in Nat}
  <2>1. 0 \in S
    BY <1>1, <1>9
  <2>2. ASSUME NEW m \in Nat, m \in S PROVE m + 1 \in S
    <3> SUFFICES ASSUME (m + 1) + 1 \in 1 .. n + 1 PROVE at[(m + 1) + 1] \in Nat
      BY <1>1
    <3>1. m + 1 \in 1 .. n /\ at[m + 1] \in Nat
      BY <1>1, <2>2
    <3> QED
      BY <1>1, <1>9, <3>1
  <2> HIDE DEF S
  <2>3. Nat \subseteq S
    BY <2>1, <2>2, SetInduction
  <2>4. ASSUME NEW i \in 1 .. n + 1 PROVE at[i] \in Nat
    <3>1. i - 1 \in Nat /\ (i - 1) + 1 = i
      BY <1>1
    <3>2. i - 1 \in S
      BY <2>3, <3>1
    <3> QED
      BY <3>1, <3>2 DEF S
  <2> QED
    BY <2>4
<1>11. at \in [1 .. n + 1 -> Nat]
  BY <1>8, <1>10
<1> QED
  BY <1>9, <1>11 DEF at, n

\* The first strings, one behind the other, and where each is found in them.
Joins(bytes, m) ==
    /\ bytes \in Seq(Bytes) /\ Len(bytes) = TokenStarts[m + 1]
    /\ \A j \in 1 .. m : \A k \in 1 .. Len(Vocabulary[j]) :
          /\ TokenStarts[j] + k \in 1 .. Len(bytes)
          /\ bytes[TokenStarts[j] + k] = Vocabulary[j][k]

\* One string more.
LEMMA JoinsOne ==
    ASSUME NEW bytes, NEW m \in Nat, m < Len(Vocabulary), Joins(bytes, m)
    PROVE  Joins(bytes \o Vocabulary[m + 1], m + 1)
<1> DEFINE text == Vocabulary[m + 1]
           more == bytes \o text
<1>1. /\ Len(Vocabulary) \in Nat /\ m + 1 \in 1 .. Len(Vocabulary)
      /\ text \in Seq(Bytes) /\ Len(text) \in Nat
  BY StringsAre
<1>2. /\ TokenStarts[m + 1] \in Nat /\ m + 1 + 1 = m + 2
      /\ TokenStarts[m + 1 + 1] = TokenStarts[m + 1] + Len(text)
  <2>1. m + 1 \in 1 .. Len(Vocabulary) + 1
    BY <1>1
  <2> QED
    BY <1>1, <2>1, StartsAre
<1>3. bytes \in Seq(Bytes) /\ Len(bytes) = TokenStarts[m + 1]
  BY DEF Joins
<1> HIDE DEF text
<1>4. more \in Seq(Bytes) /\ Len(more) = TokenStarts[m + 1 + 1]
  BY <1>1, <1>2, <1>3
<1>5. ASSUME NEW j \in 1 .. m + 1, NEW k \in 1 .. Len(Vocabulary[j])
      PROVE  /\ TokenStarts[j] + k \in 1 .. Len(more)
             /\ more[TokenStarts[j] + k] = Vocabulary[j][k]
  <2>1. CASE j = m + 1
    <3>1. Vocabulary[j] = text /\ TokenStarts[j] = Len(bytes) /\ k \in 1 .. Len(text)
      BY <1>3, <2>1 DEF text
    <3>2. Len(bytes) \in Nat /\ Len(more) = Len(bytes) + Len(text)
      BY <1>2, <1>3, <1>4
    <3>3. Len(bytes) + k \in 1 .. Len(bytes) + Len(text)
      BY <1>1, <3>1, <3>2
    <3>4. more[Len(bytes) + k] = text[k]
      BY <1>1, <1>3, <3>1, <3>2, <3>3
    <3> QED
      BY <3>1, <3>2, <3>3, <3>4
  <2>2. CASE j # m + 1
    <3>1. j \in 1 .. m
      BY <2>2
    <3> DEFINE at == TokenStarts[j] + k
    <3>2. at \in 1 .. Len(bytes) /\ bytes[at] = Vocabulary[j][k]
      BY <3>1 DEF Joins
    <3> HIDE DEF at
    <3>3. at \in 1 .. Len(more) /\ more[at] = bytes[at]
      BY <1>1, <1>2, <1>3, <1>4, <3>2
    <3> QED
      BY <3>2, <3>3 DEF at
  <2> QED
    BY <2>1, <2>2
<1> HIDE DEF more
<1> QED
  BY <1>4, <1>5 DEF Joins, more, text

\* The bytes that pack writes are the strings one behind the other.
LEMMA FlatIs == Joins(FlattenSeq(Vocabulary), Len(Vocabulary))
<1> DEFINE n == Len(Vocabulary)
           A == Seq(Bytes)
           step == [p \in A \X Nat |-> IF p[2] + 1 \in 1 .. n THEN p[1] \o Vocabulary[p[2] + 1] ELSE << >>]
           Is(f) == f = [i \in 1 .. n |-> IF i = 1 THEN Vocabulary[i] ELSE f[i - 1] \o Vocabulary[i]]
           flat == CHOOSE f : Is(f)
<1>1. n \in Nat /\ Vocabulary \in Seq(A) /\ \A i \in 1 .. n : Vocabulary[i] \in A
  BY StringsAre
<1>2. CASE n = 0
  <2>1. FlattenSeq(Vocabulary) = Vocabulary /\ Vocabulary = << >>
    BY <1>1, <1>2 DEF FlattenSeq
  <2>2. << >> \in Seq(Bytes) /\ Len(<< >>) = 0
    OBVIOUS
  <2> QED
    BY <1>2, <2>1, <2>2, StartsAre DEF Joins
<1>3. CASE n # 0
  <2>1. step \in [A \X Nat -> A]
    <3>1. ASSUME NEW a \in A, NEW b \in Nat, b + 1 \in 1 .. n PROVE a \o Vocabulary[b + 1] \in A
      BY <1>1, <3>1
    <3>2. << >> \in A
      OBVIOUS
    <3> HIDE DEF A, n
    <3> QED
      BY <3>1, <3>2
  <2>2. PICK f : Runs(f, Vocabulary[1], step, n) /\ f \in [1 .. n -> A]
    <3>1. Vocabulary[1] \in A /\ n - 1 \in Nat /\ (n - 1) + 1 = n
      BY <1>1, <1>3
    <3> HIDE DEF step, n, A
    <3>2. \E f : Runs(f, Vocabulary[1], step, (n - 1) + 1) /\ f \in [1 .. (n - 1) + 1 -> A]
      BY <2>1, <3>1, RunExists
    <3> QED
      BY <3>1, <3>2
  <2>3. ASSUME NEW i \in 1 .. n
        PROVE  f[i] = IF i = 1 THEN Vocabulary[i] ELSE f[i - 1] \o Vocabulary[i]
    <3>1. f[i] = IF i = 1 THEN Vocabulary[1] ELSE step[<<f[i - 1], i - 1>>]
      <4> HIDE DEF step, n
      <4> QED
        BY <2>2 DEF Runs
    <3>2. ASSUME i # 1 PROVE step[<<f[i - 1], i - 1>>] = f[i - 1] \o Vocabulary[i]
      <4> DEFINE b == i - 1
                 a == f[b]
      <4>1. b \in 1 .. n /\ b \in Nat /\ b + 1 = i
        <5> HIDE DEF n
        <5> QED
          BY <1>1, <3>2
      <4>2. a \in A
        <5> HIDE DEF n, step, b, A
        <5> QED
          BY <2>2, <4>1
      <4> HIDE DEF a, b
      <4>3. <<a, b>> \in A \X Nat
        BY <4>1, <4>2
      <4>4. step[<<a, b>>] = a \o Vocabulary[b + 1]
        BY <4>1, <4>3
      <4> QED
        BY <4>1, <4>4 DEF a, b
    <3> QED
      BY <3>1, <3>2
  <2>4. Is(f)
    <3>1. f = [i \in 1 .. n |-> f[i]]
      BY <2>2
    <3> QED
      BY <2>3, <3>1
  <2>5. Is(flat)
    <3> HIDE DEF Is
    <3> QED
      BY <2>4
  <2> HIDE DEF flat
  <2>6. /\ flat[1] = Vocabulary[1]
        /\ \A i \in 1 .. n : i # 1 => flat[i] = flat[i - 1] \o Vocabulary[i]
    <3>1. 1 \in 1 .. n
      BY <1>1, <1>3
    <3> QED
      BY <2>5, <3>1
  <2> DEFINE S == {m \in Nat : m < n => Joins(flat[m + 1], m + 1)}
  <2>7. 0 \in S
    <3>1. Joins(<< >>, 0)
      <4>1. << >> \in Seq(Bytes) /\ Len(<< >>) = 0
        OBVIOUS
      <4> QED
        BY <4>1, StartsAre DEF Joins
    <3>2. Joins(<< >> \o Vocabulary[0 + 1], 0 + 1)
      <4>1. 0 \in Nat /\ 0 < Len(Vocabulary)
        BY <1>1, <1>3
      <4> DEFINE none == << >>
      <4> HIDE DEF none
      <4>2. Joins(none \o Vocabulary[0 + 1], 0 + 1)
        BY <3>1, <4>1, JoinsOne DEF none
      <4> QED
        BY <4>2 DEF none
    <3>3. << >> \o Vocabulary[1] = Vocabulary[1]
      BY <1>1, <1>3
    <3> QED
      BY <2>6, <3>2, <3>3
  <2>8. ASSUME NEW m \in Nat, m \in S PROVE m + 1 \in S
    <3> SUFFICES ASSUME m + 1 < n PROVE Joins(flat[(m + 1) + 1], (m + 1) + 1)
      OBVIOUS
    <3>1. Joins(flat[m + 1], m + 1) /\ m + 1 \in Nat /\ m + 2 \in 1 .. n /\ m + 2 # 1
          /\ m + 2 = (m + 1) + 1 /\ (m + 2) - 1 = m + 1
      BY <1>1, <2>8
    <3>2. Joins(flat[m + 1] \o Vocabulary[(m + 1) + 1], (m + 1) + 1)
      BY <3>1, JoinsOne
    <3> QED
      BY <2>6, <3>1, <3>2
  <2> HIDE DEF S
  <2>9. Nat \subseteq S
    BY <2>7, <2>8, SetInduction
  <2>10. n - 1 \in S /\ n - 1 < n /\ (n - 1) + 1 = n
    BY <1>1, <1>3, <2>9
  <2>11. Joins(flat[n], n)
    BY <2>10 DEF S
  <2>12. FlattenSeq(Vocabulary) = flat[n]
    BY <1>3 DEF FlattenSeq, flat
  <2> QED
    BY <2>11, <2>12
<1> QED
  BY <1>2, <1>3

\* Sums of multiples of the unit are multiples.
LEMMA SumOfUnits ==
    ASSUME NEW a \in Nat, NEW b \in Nat, a % Unit = 0, b % Unit = 0
    PROVE  (a + b) % Unit = 0
<1>1. Unit \in Nat \ {0}
  BY ContainerAssumption
<1> DEFINE p == a \div Unit
           q == b \div Unit
<1>2. p \in Nat /\ a = Unit * p /\ q \in Nat /\ b = Unit * q
  BY <1>1
<1> HIDE DEF p, q
<1>3. a + b = Unit * (p + q) /\ p + q \in Nat
  BY <1>1, <1>2
<1> DEFINE r == p + q
<1> HIDE DEF r
<1>4. (Unit * r) % Unit = 0
  BY <1>1, <1>3 DEF r
<1> QED
  BY <1>3, <1>4 DEF r

\* The types, the merges and the template of the source.
LEMMA TypesAre ==
    /\ Types \in Seq({1, 3, 4, 5}) /\ Len(Types) = Len(Vocabulary) /\ Len(Types) \in Nat
    /\ Merges \in Seq(Seq(Bytes) \X Seq(Bytes)) /\ Len(Merges) \in Nat
    /\ Template \in Seq(Bytes) /\ Template # << >> /\ Len(Template) \in Nat \ {0}
    /\ Template[1] = "{"
<1>1. /\ Types \in Seq({1, 3, 4, 5}) /\ Len(Types) = Len(Vocabulary)
      /\ Merges \in Seq(Seq(Bytes) \X Seq(Bytes))
      /\ Template \in Seq(Bytes) /\ Template \notin {<< >>} /\ Template[1] = "{"
  BY SourceAssumption, Zenon
<1>2. Len(Types) \in Nat
  BY <1>1, LenProperties
<1>3. Len(Merges) \in Nat
  BY <1>1, LenProperties
<1>4. Template # << >> /\ Len(Template) \in Nat \ {0}
  BY <1>1, EmptySeq
<1> QED
  BY <1>1, <1>2, <1>3, <1>4

\* The ids of one merge.
Merge(m) == <<TokenId(Merges[m][1]), TokenId(Merges[m][2]),
              TokenId(Merges[m][1] \o Merges[m][2])>>

\* The five sections of the tokenizer, with their lengths.
LEMMA SectionsAre ==
    /\ DOMAIN tokenizer_sections = 1 .. 5
    /\ tokenizer_sections[1] = TokenStarts /\ Len(TokenStarts) = Len(Vocabulary) + 1
    /\ tokenizer_sections[2] = FlattenSeq(Vocabulary)
    /\ tokenizer_sections[3] = Types
    /\ tokenizer_sections[4] = [m \in 1 .. Len(Merges) |-> Merge(m)]
    /\ tokenizer_sections[5] = Template
    /\ \A i \in 1 .. 5 : Len(tokenizer_sections[i]) \in Nat
<1>1. Len(Merges) \in Nat /\ Len(Vocabulary) \in Nat
  BY StringsAre, TypesAre
<1>2. Len(TokenStarts) = Len(Vocabulary) + 1
  BY <1>1, StartsAre
<1>3. Len(FlattenSeq(Vocabulary)) \in Nat /\ Len(Types) \in Nat /\ Len(Template) \in Nat
  <2>1. Len(FlattenSeq(Vocabulary)) \in Nat
    BY FlatIs DEF Joins
  <2>2. Len(Types) \in Nat
    BY TypesAre
  <2>3. Len(Template) \in Nat
    BY TypesAre
  <2> QED
    BY <2>1, <2>2, <2>3
<1> DEFINE merges == [m \in 1 .. Len(Merges) |-> Merge(m)]
<1>4. Len(merges) = Len(Merges)
  <2> HIDE DEF Merge
  <2>1. DOMAIN merges = 1 .. Len(Merges) /\ merges \in Seq({Merge(m) : m \in 1 .. Len(Merges)})
    BY <1>1
  <2> QED
    BY <1>1, <2>1
<1>5. tokenizer_sections = <<TokenStarts, FlattenSeq(Vocabulary), Types, merges, Template>>
  BY DEF tokenizer_sections, Merge
<1> HIDE DEF merges
<1>6. /\ DOMAIN tokenizer_sections = 1 .. 5
      /\ tokenizer_sections[1] = TokenStarts
      /\ tokenizer_sections[2] = FlattenSeq(Vocabulary)
      /\ tokenizer_sections[3] = Types
      /\ tokenizer_sections[4] = merges
      /\ tokenizer_sections[5] = Template
  BY <1>5
<1>7. ASSUME NEW i \in 1 .. 5 PROVE Len(tokenizer_sections[i]) \in Nat
  <2>1. i \in {1, 2, 3, 4, 5} /\ Len(Vocabulary) + 1 \in Nat
    BY <1>1
  <2> QED
    BY <1>1, <1>2, <1>3, <1>4, <1>6, <2>1
<1> QED
  BY <1>2, <1>6, <1>7 DEF merges

\* Sections one behind the other from the directory on, each on an aligned place.
LEMMA SectionsLaid ==
    /\ \A i \in 1 .. 6 : SectionLengths[i] \in Nat
    /\ SectionOffsets \in [1 .. 7 -> Nat]
    /\ SectionOffsets[1] >= HeaderUnits + Directory7
    /\ \A i \in 1 .. 7 : SectionOffsets[i] % Unit = 0
    /\ \A i \in 1 .. 6 : SectionOffsets[i] + SectionLengths[i] <= SectionOffsets[i + 1]
<1> DEFINE L == SectionLengths
           O == SectionOffsets
<1>1. Len(Tensors) \in Nat
  BY ContainerAssumption
<1>2. L \in [1 .. 6 -> Nat]
  <2>1. Len(Tensors) * RowUnits \in Nat
    BY <1>1 DEF RowUnits
  <2>2. ASSUME NEW i \in 1 .. 6, i # 6 PROVE Len(tokenizer_sections[i]) \in Nat
    <3>1. i \in 1 .. 5
      BY <2>2
    <3> QED
      BY <3>1, SectionsAre
  <2> QED
    BY <2>1, <2>2 DEF SectionLengths
<1> HIDE DEF L
<1>3. L \in Seq(Nat) /\ Len(L) = 6 /\ HeaderUnits + Directory7 \in Nat
  <2>1. HeaderUnits \in Nat
    BY ContainerAssumption
  <2>2. HeaderUnits + Directory7 \in Nat
    BY <2>1 DEF Directory7
  <2>3. L \in Seq(Nat) /\ Len(L) = 6
    <3> DEFINE k == 6
    <3>1. k \in Nat /\ L \in [1 .. k -> Nat]
      BY <1>2
    <3> HIDE DEF k
    <3>2. L \in Seq(Nat) /\ Len(L) = k
      BY <3>1
    <3> QED
      BY <3>2 DEF k
  <2> QED
    BY <2>2, <2>3
<1>4. /\ O \in [1 .. 6 + 1 -> Nat]
      /\ O[1] = align(HeaderUnits + Directory7)
      /\ \A i \in 1 .. 6 : O[i + 1] = align(O[i] + L[i])
  <2> DEFINE start == HeaderUnits + Directory7
  <2>1. O = Offsets(L, start)
    BY DEF SectionOffsets, L
  <2> HIDE DEF O, start
  <2> QED
    BY <1>3, <2>1, OffsetsAre DEF start
<1> HIDE DEF O
<1>5. ASSUME NEW i \in 1 .. 6
      PROVE  O[i] + L[i] \in Nat /\ O[i] + L[i] <= O[i + 1] /\ O[i + 1] % Unit = 0
  <2>1. O[i] \in Nat /\ L[i] \in Nat
    BY <1>2, <1>4
  <2>2. O[i] + L[i] \in Nat
    BY <2>1
  <2>3. align(O[i] + L[i]) >= O[i] + L[i] /\ align(O[i] + L[i]) % Unit = 0
    BY <2>2, AlignIs
  <2>4. O[i + 1] = align(O[i] + L[i])
    BY <1>4
  <2>5. O[i + 1] \in Nat
    BY <1>4
  <2> QED
    BY <2>1, <2>2, <2>3, <2>4, <2>5
<1>6. O[1] >= HeaderUnits + Directory7 /\ O[1] % Unit = 0
  BY <1>3, <1>4, AlignIs
<1>7. ASSUME NEW i \in 1 .. 7 PROVE O[i] % Unit = 0
  <2>1. CASE i = 1
    BY <1>6, <2>1
  <2>2. CASE i # 1
    <3>1. i - 1 \in 1 .. 6 /\ (i - 1) + 1 = i
      BY <2>2
    <3> QED
      BY <1>5, <3>1
  <2> QED
    BY <2>1, <2>2
<1>8. \A i \in 1 .. 6 : L[i] \in Nat
  BY <1>2
<1>9. O \in [1 .. 7 -> Nat]
  BY <1>4
<1> QED
  BY <1>5, <1>6, <1>7, <1>8, <1>9 DEF O, L

\* Tensors that fill whole units follow one another without a gap, to the end of
\* the file.
LEMMA TensorsLaid ==
    /\ Len(Tensors) \in Nat \ {0}
    /\ \A i \in 1 .. Len(Tensors) : Tensors[i] \in Nat \ {0} /\ Tensors[i] % Unit = 0
    /\ TensorOffsets \in [1 .. Len(Tensors) + 1 -> Nat]
    /\ TensorOffsets[1] = SectionOffsets[7]
    /\ \A i \in 1 .. Len(Tensors) + 1 :
          TensorOffsets[i] % Unit = 0 /\ TensorOffsets[i] >= SectionOffsets[7]
    /\ \A i \in 1 .. Len(Tensors) : TensorOffsets[i + 1] = TensorOffsets[i] + Tensors[i]
    /\ FileSize = TensorOffsets[Len(Tensors)] + Tensors[Len(Tensors)]
    /\ FileSize \in Nat \ {0} /\ FileSize >= SectionOffsets[7]
<1> DEFINE n == Len(Tensors)
           T == TensorOffsets
           start == SectionOffsets[7]
<1>1. n \in Nat \ {0} /\ \A i \in 1 .. n : Tensors[i] \in Nat \ {0} /\ Tensors[i] % Unit = 0
  <2>1. Tensors \in Seq(Nat \ {0}) /\ Tensors # << >>
    BY ContainerAssumption
  <2> QED
    BY <2>1, ContainerAssumption
<1>2. Tensors \in Seq(Nat)
  BY ContainerAssumption
<1>3. start \in Nat /\ start % Unit = 0 /\ align(start) = start
  <2>1. start \in Nat /\ start % Unit = 0
    BY SectionsLaid
  <2> HIDE DEF start
  <2> QED
    BY <2>1, AlignIs
<1>4. /\ T \in [1 .. n + 1 -> Nat] /\ T[1] = start
      /\ \A i \in 1 .. n : T[i + 1] = align(T[i] + Tensors[i])
  <2>1. T = Offsets(Tensors, start)
    BY DEF TensorOffsets
  <2> HIDE DEF T, start
  <2> QED
    BY <1>2, <1>3, <2>1, OffsetsAre
<1> HIDE DEF n, T, start
<1> DEFINE Good(i) == T[i] % Unit = 0 /\ T[i] >= start
<1>5. ASSUME NEW i \in 1 .. n, Good(i) PROVE Good(i + 1) /\ T[i + 1] = T[i] + Tensors[i]
  <2>1. T[i] \in Nat /\ Tensors[i] \in Nat /\ Tensors[i] % Unit = 0
    BY <1>1, <1>4
  <2>2. (T[i] + Tensors[i]) % Unit = 0 /\ T[i] + Tensors[i] \in Nat
    BY <1>5, <2>1, SumOfUnits
  <2>3. align(T[i] + Tensors[i]) = T[i] + Tensors[i]
    BY <2>2, AlignIs
  <2>4. T[i + 1] = T[i] + Tensors[i]
    BY <1>4, <2>3
  <2>5. T[i + 1] >= start
    BY <1>3, <1>5, <2>1, <2>4
  <2> QED
    BY <2>2, <2>4, <2>5
<1>6. \A i \in 1 .. n + 1 : Good(i)
  <2> DEFINE S == {m \in Nat : m <= n => Good(m + 1)}
  <2>1. 0 \in S
    BY <1>3, <1>4
  <2>2. ASSUME NEW m \in Nat, m \in S PROVE m + 1 \in S
    <3> SUFFICES ASSUME m + 1 <= n PROVE Good((m + 1) + 1)
      OBVIOUS
    <3>1. m + 1 \in 1 .. n /\ m <= n
      BY <1>1
    <3>2. Good(m + 1)
      BY <2>2, <3>1
    <3> HIDE DEF Good
    <3> QED
      BY <1>5, <3>1, <3>2
  <2> HIDE DEF S
  <2>3. Nat \subseteq S
    BY <2>1, <2>2, SetInduction
  <2>4. ASSUME NEW i \in 1 .. n + 1 PROVE Good(i)
    <3>1. i - 1 \in Nat /\ (i - 1) + 1 = i /\ i - 1 <= n
      BY <1>1
    <3>2. i - 1 \in S
      BY <2>3, <3>1
    <3> HIDE DEF Good
    <3>3. Good((i - 1) + 1)
      BY <3>1, <3>2 DEF S
    <3> QED
      BY <3>1, <3>3
  <2> QED
    BY <2>4
<1>7. \A i \in 1 .. n : T[i + 1] = T[i] + Tensors[i]
  <2> HIDE DEF Good
  <2>1. \A i \in 1 .. n : i \in 1 .. n + 1
    BY <1>1
  <2> QED
    BY <1>5, <1>6, <2>1
<1>8. FileSize = T[n] + Tensors[n]
  BY DEF FileSize, T, n
<1>9. FileSize \in Nat \ {0} /\ FileSize >= start
  <2>1. n \in 1 .. n /\ n \in 1 .. n + 1
    BY <1>1
  <2>2. T[n] \in Nat /\ T[n] >= start /\ Tensors[n] \in Nat \ {0}
    BY <1>1, <1>4, <1>6, <2>1
  <2> QED
    BY <1>3, <1>8, <2>2
<1> QED
  BY <1>1, <1>4, <1>6, <1>7, <1>8, <1>9 DEF n, T, start

-----------------------------------------------------------------------------
(* What the packer writes passes both validators.                           *)

\* The id of a string is where it stands.
LEMMA TokenIdIs ==
    ASSUME NEW text, \E i \in 1 .. Len(Vocabulary) : Vocabulary[i] = text
    PROVE  /\ TokenId(text) \in TokenIds /\ TokenId(text) + 1 \in 1 .. Len(Vocabulary)
           /\ Vocabulary[TokenId(text) + 1] = text
<1> DEFINE c == CHOOSE i \in 1 .. Len(Vocabulary) : Vocabulary[i] = text
<1>1. c \in 1 .. Len(Vocabulary) /\ Vocabulary[c] = text
  OBVIOUS
<1>2. TokenId(text) = c - 1
  BY DEF TokenId
<1> HIDE DEF c
<1>3. Len(Vocabulary) \in Nat
  BY StringsAre
<1>4. c - 1 \in 0 .. Len(Vocabulary) - 1 /\ (c - 1) + 1 = c
  BY <1>1, <1>3
<1> QED
  BY <1>1, <1>2, <1>4 DEF TokenIds

\* Between two starts lies the string.
LEMMA TokenFound ==
    ASSUME NEW bytes, Joins(bytes, Len(Vocabulary)), NEW j \in 1 .. Len(Vocabulary)
    PROVE  SubSeq(bytes, TokenStarts[j] + 1, TokenStarts[j + 1]) = Vocabulary[j]
<1> DEFINE a == TokenStarts[j]
           text == Vocabulary[j]
           found == SubSeq(bytes, a + 1, TokenStarts[j + 1])
<1>1. a \in Nat /\ text \in Seq(Bytes) /\ Len(text) \in Nat \ {0} /\ TokenStarts[j + 1] = a + Len(text)
  <2>1. j \in 1 .. Len(Vocabulary) + 1
    BY StringsAre
  <2> QED
    BY <2>1, StringsAre, StartsAre
<1>2. \A k \in 1 .. Len(text) : bytes[a + k] = text[k]
  BY DEF Joins
<1> HIDE DEF a, text
<1> DEFINE b == a + Len(text)
<1>3. found = SubSeq(bytes, a + 1, b)
  BY <1>1
<1>4. ASSUME NEW i \in a + 1 .. b PROVE bytes[i] = text[i - a] /\ bytes[i] \in Bytes
  <2>1. i - a \in 1 .. Len(text) /\ a + (i - a) = i
    BY <1>1
  <2>2. bytes[a + (i - a)] = text[i - a]
    BY <1>2, <2>1
  <2>3. text[i - a] \in Bytes
    BY <1>1, <2>1, ElementOfSeq
  <2> QED
    BY <2>1, <2>2, <2>3
<1>5. a + 1 \in Int /\ b \in Int /\ a + 1 <= b /\ b - (a + 1) + 1 = Len(text)
  BY <1>1
<1> HIDE DEF b, found
<1>6. /\ SubSeq(bytes, a + 1, b) \in Seq(Bytes) /\ Len(SubSeq(bytes, a + 1, b)) = Len(text)
      /\ \A i \in 1 .. Len(text) : SubSeq(bytes, a + 1, b)[i] = bytes[a + 1 + i - 1]
  <2> DEFINE m == a + 1
  <2>1. \A i \in m .. b : bytes[i] \in Bytes
    BY <1>4
  <2>2. m \in Int /\ b \in Int /\ m <= b /\ b - m + 1 = Len(text)
    BY <1>5
  <2> HIDE DEF m
  <2>3. /\ SubSeq(bytes, m, b) \in Seq(Bytes)
        /\ Len(SubSeq(bytes, m, b)) = IF m <= b THEN b - m + 1 ELSE 0
        /\ \A i \in 1 .. b - m + 1 : SubSeq(bytes, m, b)[i] = bytes[m + i - 1]
    BY <2>1, <2>2, SubSeqProperties
  <2>4. /\ SubSeq(bytes, m, b) \in Seq(Bytes) /\ Len(SubSeq(bytes, m, b)) = Len(text)
        /\ \A i \in 1 .. Len(text) : SubSeq(bytes, m, b)[i] = bytes[m + i - 1]
    BY <2>2, <2>3
  <2> QED
    BY <2>4 DEF m
<1>7. \A i \in 1 .. Len(text) : found[i] = text[i]
  <2>1. ASSUME NEW i \in 1 .. Len(text) PROVE a + 1 + i - 1 = a + i
    BY <1>1
  <2> QED
    BY <1>2, <1>3, <1>6, <2>1
<1>8. found \in Seq(Bytes) /\ Len(found) = Len(text)
  BY <1>3, <1>6
<1>9. found = text
  BY <1>1, <1>7, <1>8, SeqEqual
<1> QED
  BY <1>9 DEF found, text, a

\* The fields of the packed file.
LEMMA PackedIs ==
    /\ Packed.size = FileSize /\ Packed.header = header("content")
    /\ Packed.sections = tokenizer_sections
    /\ \A i \in 1 .. 7 : Packed.rows[i] = SectionRow(i) /\ Packed.gaps[i] = padding
    /\ \A i \in 1 .. Len(Tensors) : Packed.tensors[i] = TensorRow(i) /\ Packed.data[i] = payload(i)
  BY DEF Packed

\* Its tokens are the strings of the source.
LEMMA PackedTokens ==
    ASSUME file = Packed, NEW id \in TokenIds
    PROVE  /\ id + 1 \in 1 .. Len(Vocabulary) /\ token_bytes(id) = Vocabulary[id + 1]
<1>1. id + 1 \in 1 .. Len(Vocabulary) /\ id + 2 = (id + 1) + 1
  BY StringsAre DEF TokenIds
<1>2. file.sections[1] = TokenStarts /\ file.sections[2] = FlattenSeq(Vocabulary)
  BY PackedIs, SectionsAre
<1> DEFINE j == id + 1
<1>3. token_bytes(id) = SubSeq(FlattenSeq(Vocabulary), TokenStarts[j] + 1, TokenStarts[j + 1])
  BY <1>1, <1>2 DEF token_bytes
<1>4. j \in 1 .. Len(Vocabulary)
  BY <1>1
<1> HIDE DEF j
<1>5. token_bytes(id) = Vocabulary[j]
  BY <1>3, <1>4, FlatIs, TokenFound
<1> QED
  BY <1>1, <1>5 DEF j

\* Its sections stand where both validators look for them.
LEMMA PackedSections ==
    ASSUME file = Packed
    PROVE  /\ \A i \in 1 .. 7 : validate_section_layout(i)
           /\ file.rows[7].offset + file.rows[7].length = file.size
           /\ SectionsValid
<1> DEFINE O == SectionOffsets
           end(i) == IF i = 1 THEN HeaderUnits + Directory7
                     ELSE file.rows[i - 1].offset + file.rows[i - 1].length
           size == FileSize
<1>1. /\ file.size = size
      /\ \A i \in 1 .. 7 : file.rows[i] = SectionRow(i) /\ file.gaps[i] = 0
  BY PackedIs DEF padding
<1>2. /\ O \in [1 .. 7 -> Nat] /\ size \in Nat \ {0} /\ size >= O[7]
      /\ \A i \in 1 .. 6 : SectionLengths[i] \in Nat
      /\ \A i \in 1 .. 7 : O[i] % Unit = 0
      /\ \A i \in 1 .. 6 : O[i] + SectionLengths[i] <= O[i + 1]
      /\ O[1] >= HeaderUnits + Directory7
  BY SectionsLaid, TensorsLaid
<1>3. \A i \in 1 .. 7 : /\ SectionRow(i).schema = i /\ SectionRow(i).offset = O[i]
                        /\ SectionRow(i).length = IF i = 7 THEN size - O[7] ELSE SectionLengths[i]
  BY DEF SectionRow
<1> HIDE DEF O, size
<1>4. O[7] \in Nat /\ O[7] + (size - O[7]) = size
  <2>1. O[7] \in Nat
    BY <1>2
  <2> QED
    BY <1>2, <2>1
<1>5. O[1] <= O[2] /\ O[2] <= O[3] /\ O[3] <= O[4] /\ O[4] <= O[5] /\ O[5] <= O[6] /\ O[6] <= O[7]
  <2>1. ASSUME NEW i \in 1 .. 6 PROVE O[i] <= O[i + 1]
    <3>1. O[i] \in Nat /\ O[i + 1] \in Nat /\ SectionLengths[i] \in Nat /\ O[i] + SectionLengths[i] <= O[i + 1]
      BY <1>2
    <3> QED
      BY <3>1
  <2> QED
    BY <2>1
<1>6. ASSUME NEW i \in 1 .. 6 PROVE O[i] + SectionLengths[i] <= size
  <2>1. O[i + 1] <= O[7] /\ O[i + 1] \in Nat /\ O[i] \in Nat /\ SectionLengths[i] \in Nat
    <3>1. i \in {1, 2, 3, 4, 5, 6} /\ \A k \in 1 .. 7 : O[k] \in Nat
      BY <1>2
    <3> QED
      BY <1>2, <1>5, <3>1
  <2>2. O[i] + SectionLengths[i] <= O[i + 1]
    BY <1>2
  <2> QED
    BY <1>2, <1>4, <2>1, <2>2
<1>7. ASSUME NEW i \in 1 .. 7
      PROVE  LET row == file.rows[i]
             IN  /\ row.schema = i /\ row.length = SectionRow(i).length
                 /\ row.offset % Unit = 0 /\ row.offset >= end(i)
                 /\ row.offset + row.length <= file.size
                 /\ row.offset = O[i]
  <2>1. /\ file.rows[i] = SectionRow(i) /\ SectionRow(i).offset = O[i] /\ SectionRow(i).schema = i
        /\ O[i] % Unit = 0
    BY <1>1, <1>2, <1>3
  <2>2. O[i] >= end(i)
    <3>1. CASE i = 1
      BY <1>2, <3>1
    <3>2. CASE i # 1
      <4> DEFINE k == i - 1
      <4>1. k \in 1 .. 6 /\ k \in 1 .. 7 /\ k + 1 = i /\ k # 7
        BY <3>2
      <4>2. end(i) = file.rows[k].offset + file.rows[k].length
        BY <3>2
      <4> HIDE DEF k
      <4>3. file.rows[k].offset = O[k] /\ file.rows[k].length = SectionLengths[k]
        BY <1>1, <1>3, <4>1
      <4>4. O[k] + SectionLengths[k] <= O[i]
        BY <1>2, <4>1
      <4>5. O[k] \in Nat /\ O[i] \in Nat /\ SectionLengths[k] \in Nat
        BY <1>2, <4>1
      <4> HIDE DEF end
      <4> QED
        BY <4>2, <4>3, <4>4, <4>5
    <3> QED
      BY <3>1, <3>2
  <2>3. O[i] + SectionRow(i).length <= size
    <3>1. CASE i = 7
      <4>1. SectionRow(i).length = size - O[7]
        BY <1>3, <3>1
      <4> QED
        BY <1>2, <1>4, <3>1, <4>1
    <3>2. CASE i # 7
      <4>1. i \in 1 .. 6 /\ SectionRow(i).length = SectionLengths[i]
        BY <1>3, <3>2
      <4> QED
        BY <1>6, <4>1
    <3> QED
      BY <3>1, <3>2
  <2> HIDE DEF end
  <2> QED
    BY <1>1, <2>1, <2>2, <2>3
<1>8. \A i \in 1 .. 7 : validate_section_layout(i)
  BY <1>7 DEF validate_section_layout, O
<1>9. file.rows[7].offset + file.rows[7].length = file.size
  BY <1>1, <1>3, <1>4
<1>10. file.header.fields = "identity" /\ file.header.reserved = 0
  BY PackedIs DEF header
<1>11. SectionsValid
  BY <1>1, <1>7, <1>10 DEF SectionsValid, O, size
<1> QED
  BY <1>8, <1>9, <1>11

\* Its tensors stand one behind the other and fill the file.
LEMMA PackedTensors ==
    ASSUME file = Packed
    PROVE  /\ \A i \in 1 .. Len(Tensors) : validate_tensor(i, TensorEnd(i - 1, file.rows[7].offset))
           /\ TensorEnd(Len(Tensors), 0) = file.size
           /\ validate_tensors
<1> DEFINE n == Len(Tensors)
           T == TensorOffsets
           start == SectionOffsets[7]
<1>1. /\ file.size = FileSize /\ file.rows[7].offset = start
      /\ \A i \in 1 .. n : file.tensors[i] = TensorRow(i) /\ file.data[i] = payload(i)
  <2>1. SectionRow(7).offset = start
    BY DEF SectionRow
  <2> QED
    BY <2>1, PackedIs
<1>2. \A i \in 1 .. n : /\ TensorRow(i).schema = i /\ TensorRow(i).offset = T[i]
                        /\ TensorRow(i).length = Tensors[i] /\ TensorRow(i).reserved = 0
                        /\ TensorRow(i).digest = payload(i)
  BY DEF TensorRow, payload
<1>3. /\ n \in Nat \ {0} /\ T[1] = start /\ FileSize = T[n] + Tensors[n]
      /\ T \in [1 .. n + 1 -> Nat] /\ \A i \in 1 .. n : T[i + 1] = T[i] + Tensors[i]
      /\ \A i \in 1 .. n + 1 : T[i] % Unit = 0
  BY TensorsLaid
<1> HIDE DEF n, T, start
<1>4. ASSUME NEW i \in 1 .. n
      PROVE  /\ T[i] \in Nat /\ T[i] % Unit = 0
             /\ TensorEnd(i - 1, start) = T[i]
  <2>1. T[i] \in Nat /\ T[i] % Unit = 0
    <3>1. i \in 1 .. n + 1
      BY <1>3
    <3> QED
      BY <1>3, <3>1
  <2>2. CASE i = 1
    BY <1>3, <2>1, <2>2 DEF TensorEnd
  <2>3. CASE i # 1
    <3> DEFINE k == i - 1
    <3>1. k \in 1 .. n /\ k + 1 = i /\ k # 0
      BY <1>3, <2>3
    <3> HIDE DEF k
    <3>2. TensorEnd(k, start) = T[k] + Tensors[k]
      BY <1>1, <1>2, <3>1 DEF TensorEnd
    <3>3. T[i] = T[k] + Tensors[k]
      BY <1>3, <3>1
    <3> QED
      BY <2>1, <3>2, <3>3 DEF k
  <2> QED
    BY <2>2, <2>3
<1>5. TensorEnd(n, 0) = FileSize
  <2>1. n \in 1 .. n /\ n # 0
    BY <1>3
  <2> QED
    BY <1>1, <1>2, <1>3, <2>1 DEF TensorEnd
<1>6. ASSUME NEW i \in 1 .. n PROVE validate_tensor(i, TensorEnd(i - 1, start))
  <2> DEFINE end == TensorEnd(i - 1, start)
  <2>1. T[i] >= end
    BY <1>4
  <2> HIDE DEF end
  <2>2. validate_tensor(i, end)
    BY <1>1, <1>2, <1>4, <2>1 DEF validate_tensor, same_region
  <2> QED
    BY <2>2 DEF end
<1>7. validate_tensors
  BY <1>1, <1>2, <1>4, <1>5 DEF validate_tensors, n, start
<1> QED
  BY <1>1, <1>5, <1>6, <1>7 DEF n

\* Its tokens, merges and template pass the tokenizer's checks.
LEMMA PackedTokenizer ==
    ASSUME file = Packed
    PROVE  TokensValid /\ MergesValid /\ TemplateValid
<1> DEFINE n == Len(Vocabulary)
           flat == FlattenSeq(Vocabulary)
<1>1. /\ file.sections[1] = TokenStarts /\ file.sections[2] = flat /\ file.sections[3] = Types
      /\ file.sections[4] = [m \in 1 .. Len(Merges) |-> Merge(m)] /\ file.sections[5] = Template
  BY PackedIs, SectionsAre
<1>2. n \in Nat /\ Len(flat) = TokenStarts[n + 1] /\ Len(Types) = n
  BY StringsAre, FlatIs, TypesAre DEF Joins
<1> HIDE DEF n, flat
<1>3. TokensValid
  <2>1. ASSUME NEW id \in TokenIds
        PROVE  /\ TokenStarts[id + 2] > TokenStarts[id + 1] /\ TokenStarts[id + 2] <= Len(flat)
               /\ "invalid" \notin Range(token_bytes(id))
               /\ Types[id + 1] \in {1, 3, 4, 5}
    <3> DEFINE j == id + 1
    <3>1. j \in 1 .. n /\ token_bytes(id) = Vocabulary[j] /\ id + 2 = j + 1
      BY PackedTokens DEF n, TokenIds
    <3> HIDE DEF j
    <3>2. Vocabulary[j] \in Seq(Bytes) /\ Len(Vocabulary[j]) \in Nat \ {0}
      BY <3>1, StringsAre DEF n
    <3>3. TokenStarts[j + 1] = TokenStarts[j] + Len(Vocabulary[j]) /\ TokenStarts[j] \in Nat
      <4>1. j \in 1 .. n + 1
        BY <1>2, <3>1
      <4> QED
        BY <3>1, <4>1, StartsAre DEF n
    <3>4. TokenStarts[j] + Len(Vocabulary[j]) <= Len(flat)
      <4>1. Len(Vocabulary[j]) \in 1 .. Len(Vocabulary[j])
        BY <3>2
      <4>2. TokenStarts[j] + Len(Vocabulary[j]) \in 1 .. Len(flat)
        BY <3>1, <4>1, FlatIs DEF Joins, n, flat
      <4> QED
        BY <4>2
    <3>5. "invalid" \notin Range(Vocabulary[j])
      <4>1. "invalid" \notin Bytes
        BY SourceAssumption
      <4>2. \A k \in DOMAIN Vocabulary[j] : Vocabulary[j][k] \in Bytes
        BY <3>2, LenProperties
      <4> QED
        BY <4>1, <4>2 DEF Range
    <3>6. Types[j] \in {1, 3, 4, 5}
      BY <1>2, <3>1, TypesAre, ElementOfSeq
    <3> QED
      BY <3>1, <3>2, <3>3, <3>4, <3>5, <3>6 DEF j
  <2>2. [i \in 1 .. n |-> token_bytes(i - 1)] = Vocabulary
    <3>1. ASSUME NEW i \in 1 .. n PROVE token_bytes(i - 1) = Vocabulary[i]
      <4>1. i - 1 \in TokenIds /\ (i - 1) + 1 = i
        BY <1>2 DEF TokenIds, n
      <4> DEFINE id == i - 1
      <4> HIDE DEF id
      <4>2. token_bytes(id) = Vocabulary[id + 1]
        BY <4>1, PackedTokens DEF id
      <4> QED
        BY <4>1, <4>2 DEF id
    <3>2. Vocabulary = [i \in 1 .. n |-> Vocabulary[i]]
      BY StringsAre, LenProperties DEF n
    <3> QED
      BY <3>1, <3>2
  <2>3. \A type \in {1, 3, 4, 5} :
           Cardinality({i \in 1 .. Len(Types) : file.sections[3][i] = type}) =
           Cardinality({i \in 1 .. Len(Types) : Types[i] = type})
    BY <1>1
  <2> QED
    BY <1>1, <1>2, <2>1, <2>2, <2>3, StartsAre DEF TokensValid, n
<1>4. MergesValid
  <2> SUFFICES ASSUME NEW rank \in 1 .. Len(Merges)
               PROVE  LET merge == file.sections[4][rank]
                      IN  /\ \A k \in 1 .. 3 : merge[k] \in TokenIds
                          /\ merge[3] < Regular
                          /\ token_bytes(merge[3]) = token_bytes(merge[1]) \o token_bytes(merge[2])
                          /\ <<token_bytes(merge[1]), token_bytes(merge[2])>> = Merges[rank]
    BY DEF MergesValid
  <2> DEFINE l == Merges[rank][1]
             r == Merges[rank][2]
             merge == file.sections[4][rank]
  <2>1. /\ \E i \in 1 .. Len(Vocabulary) : Vocabulary[i] = l
        /\ \E i \in 1 .. Len(Vocabulary) : Vocabulary[i] = r
        /\ \E i \in 1 .. Len(Vocabulary) : i <= Regular /\ Vocabulary[i] = l \o r
    BY SourceAssumption
  <2>2. Merges[rank] = <<l, r>>
    <3>1. Merges[rank] \in Seq(Bytes) \X Seq(Bytes)
      BY TypesAre, ElementOfSeq
    <3> QED
      BY <3>1
  <2>3. merge[1] = TokenId(l) /\ merge[2] = TokenId(r) /\ merge[3] = TokenId(l \o r)
    BY <1>1 DEF Merge
  <2> HIDE DEF l, r, merge
  <2> DEFINE both == l \o r
  <2>4. /\ \A k \in 1 .. 3 : merge[k] \in TokenIds
        /\ Vocabulary[merge[1] + 1] = l /\ Vocabulary[merge[2] + 1] = r
        /\ Vocabulary[merge[3] + 1] = both /\ merge[3] + 1 \in 1 .. Len(Vocabulary)
    <3>1. merge[1] \in TokenIds /\ Vocabulary[merge[1] + 1] = l
      BY <2>1, <2>3, TokenIdIs
    <3>2. merge[2] \in TokenIds /\ Vocabulary[merge[2] + 1] = r
      BY <2>1, <2>3, TokenIdIs
    <3>3. merge[3] \in TokenIds /\ Vocabulary[merge[3] + 1] = both /\ merge[3] + 1 \in 1 .. Len(Vocabulary)
      <4>1. \E i \in 1 .. Len(Vocabulary) : Vocabulary[i] = both
        BY <2>1
      <4>2. merge[3] = TokenId(both)
        BY <2>3
      <4> HIDE DEF both
      <4> QED
        BY <4>1, <4>2, TokenIdIs
    <3>4. \A k \in 1 .. 3 : k = 1 \/ k = 2 \/ k = 3
      OBVIOUS
    <3> QED
      BY <3>1, <3>2, <3>3, <3>4
  <2>5. merge[3] < Regular
    <3>1. PICK i \in 1 .. Len(Vocabulary) : i <= Regular /\ Vocabulary[i] = both
      BY <2>1
    <3>2. merge[3] + 1 = i
      BY <2>4, <3>1, SourceAssumption
    <3>3. merge[3] \in Nat /\ Regular \in Nat
      <4>1. merge[3] \in TokenIds
        BY <2>4
      <4> QED
        BY <4>1, StringsAre, ContainerAssumption DEF TokenIds
    <3> QED
      BY <3>1, <3>2, <3>3
  <2>6. token_bytes(merge[1]) = l /\ token_bytes(merge[2]) = r /\ token_bytes(merge[3]) = both
    <3> HIDE DEF both
    <3> QED
      BY <2>4, PackedTokens
  <2> HIDE DEF both
  <2>7. /\ \A k \in 1 .. 3 : merge[k] \in TokenIds
        /\ merge[3] < Regular
        /\ token_bytes(merge[3]) = token_bytes(merge[1]) \o token_bytes(merge[2])
        /\ <<token_bytes(merge[1]), token_bytes(merge[2])>> = Merges[rank]
    BY <2>2, <2>4, <2>5, <2>6 DEF both
  <2> QED
    BY <2>7 DEF merge
<1>5. TemplateValid
  <2>1. \A k \in DOMAIN Template : Template[k] \in Bytes
    BY TypesAre, LenProperties
  <2>2. "invalid" \notin Bytes
    BY SourceAssumption
  <2> QED
    BY <1>1, <2>1, <2>2, TypesAre DEF TemplateValid, Range
<1> QED
  BY <1>3, <1>4, <1>5

\* What pack writes, inspect passes and open_authenticated opens.
LEMMA PackedPasses == file = Packed => inspect /\ open_authenticated
<1> SUFFICES ASSUME file = Packed PROVE inspect /\ open_authenticated
  OBVIOUS
<1>1. ContentDigest(file) = "content"
  <2>1. [Packed EXCEPT !.header = Packed.header] = Packed
    BY DEF Packed
  <2> QED
    BY <2>1 DEF ContentDigest
<1>2. validate_header
  BY <1>1, PackedIs DEF validate_header
<1>3. ASSUME NEW i \in 1 .. 7 PROVE validate_section_evidence(i)
  <2>1. SectionDigest(file, i) = <<"section", i>>
    BY DEF SectionDigest
  <2>2. file.gaps[i] = padding /\ file.rows[i].digest = <<"section", i>>
    BY PackedIs DEF SectionRow
  <2> QED
    BY <2>1, <2>2 DEF validate_section_evidence
<1>4. inspect
  BY <1>2, <1>3, PackedSections, PackedTensors DEF inspect
<1>5. open_authenticated
  BY PackedSections, PackedTensors, PackedTokenizer DEF open_authenticated
<1> QED
  BY <1>4, <1>5

-----------------------------------------------------------------------------
(* A file that was changed in one place still has its parts.                *)

FileFields == {"size", "header", "rows", "sections", "tensors", "data", "gaps"}

\* The rows of the section directory.
RowsOk(rows) ==
    /\ rows = [i \in 1 .. 7 |-> rows[i]]
    /\ \A i \in 1 .. 7 : rows[i] = [schema |-> rows[i].schema, offset |-> rows[i].offset,
                                    length |-> rows[i].length, digest |-> rows[i].digest]

\* Triples of ids.
MergesOk(merges) ==
    /\ merges = [m \in 1 .. Len(Merges) |-> merges[m]]
    /\ \A m \in 1 .. Len(Merges) : merges[m] = [k \in 1 .. 3 |-> merges[m][k]]

\* The sections of the tokenizer: lengths and kinds of elements stay.
SectionsOk(s) ==
    /\ s = [i \in 1 .. 5 |-> s[i]]
    /\ s[1] \in [1 .. Len(Vocabulary) + 1 -> Nat]
    /\ s[2] \in [1 .. TokenStarts[Len(Vocabulary) + 1] -> Bytes \cup {"invalid"}]
    /\ MergesOk(s[4])

Shaped(f) ==
    /\ f = [x \in FileFields |-> f[x]]
    /\ RowsOk(f.rows) /\ f.gaps = [i \in 1 .. 7 |-> f.gaps[i]] /\ SectionsOk(f.sections)

\* The packed file has all parts.
LEMMA PackedShaped == Shaped(Packed)
<1>1. Packed = [x \in FileFields |-> Packed[x]]
  BY DEF Packed, FileFields
<1>2. RowsOk(Packed.rows)
  <2>1. Packed.rows = [i \in 1 .. 7 |-> SectionRow(i)]
    BY DEF Packed
  <2> QED
    BY <2>1 DEF RowsOk, SectionRow
<1>3. Packed.gaps = [i \in 1 .. 7 |-> Packed.gaps[i]]
  BY DEF Packed
<1>4. SectionsOk(tokenizer_sections)
  <2> DEFINE s == tokenizer_sections
  <2>1. s = [i \in 1 .. 5 |-> s[i]]
    BY DEF tokenizer_sections
  <2>2. s[1] \in [1 .. Len(Vocabulary) + 1 -> Nat]
    BY SectionsAre, StartsAre
  <2>3. s[2] \in [1 .. TokenStarts[Len(Vocabulary) + 1] -> Bytes \cup {"invalid"}]
    <3> DEFINE flat == FlattenSeq(Vocabulary)
    <3>1. flat \in Seq(Bytes) /\ Len(flat) = TokenStarts[Len(Vocabulary) + 1]
      BY FlatIs DEF Joins
    <3> HIDE DEF flat
    <3>2. flat \in [1 .. TokenStarts[Len(Vocabulary) + 1] -> Bytes]
      BY <3>1, LenProperties
    <3>3. s[2] = flat
      BY SectionsAre DEF flat
    <3> HIDE DEF s
    <3> QED
      BY <3>2, <3>3
  <2>4. s[4] = [m \in 1 .. Len(Merges) |-> Merge(m)]
    BY SectionsAre
  <2> HIDE DEF s
  <2>5. \A m \in 1 .. Len(Merges) : Merge(m) = [k \in 1 .. 3 |-> Merge(m)[k]]
    BY DEF Merge
  <2>6. SectionsOk(s)
    BY <2>1, <2>2, <2>3, <2>4, <2>5 DEF SectionsOk, MergesOk
  <2> QED
    BY <2>6 DEF s
<1>5. Packed.sections = tokenizer_sections
  BY PackedIs
<1> QED
  BY <1>1, <1>2, <1>3, <1>4, <1>5 DEF Shaped

\* A change of one field leaves a file with all parts, if the new value of the
\* field is as it should be.
LEMMA FieldChanged ==
    ASSUME NEW f, Shaped(f), NEW x \in FileFields, NEW v,
           x = "rows" => RowsOk(v),
           x = "gaps" => v = [i \in 1 .. 7 |-> v[i]],
           x = "sections" => SectionsOk(v)
    PROVE  Shaped([f EXCEPT ![x] = v])
<1> DEFINE g == [f EXCEPT ![x] = v]
<1>1. /\ DOMAIN f = FileFields /\ f = [y \in FileFields |-> f[y]]
      /\ RowsOk(f.rows) /\ f.gaps = [i \in 1 .. 7 |-> f.gaps[i]] /\ SectionsOk(f.sections)
  BY DEF Shaped
<1>2. g = [y \in FileFields |-> IF y = x THEN v ELSE f[y]]
  BY <1>1
<1> HIDE DEF g
<1>3. g = [y \in FileFields |-> g[y]]
  BY <1>2
<1>4. "rows" \in FileFields /\ "gaps" \in FileFields /\ "sections" \in FileFields
  BY DEF FileFields
<1>5. RowsOk(g.rows)
  BY <1>1, <1>2, <1>4
<1>6. SectionsOk(g.sections)
  BY <1>1, <1>2, <1>4
<1>7. g.gaps = [i \in 1 .. 7 |-> g.gaps[i]]
  BY <1>1, <1>2, <1>4
<1> QED
  BY <1>3, <1>5, <1>6, <1>7 DEF Shaped, g

\* A row of the directory with another value in one of its fields.
LEMMA RowChanged ==
    ASSUME NEW rows, RowsOk(rows), NEW i \in 1 .. 7, NEW v,
           NEW field \in {"schema", "offset", "length", "digest"}
    PROVE  RowsOk([rows EXCEPT ![i][field] = v])
<1> DEFINE row == [rows[i] EXCEPT ![field] = v]
           new == [rows EXCEPT ![i][field] = v]
<1>1. new = [j \in 1 .. 7 |-> IF j = i THEN row ELSE rows[j]]
  BY DEF RowsOk
<1>2. row = [schema |-> row.schema, offset |-> row.offset, length |-> row.length, digest |-> row.digest]
  BY DEF RowsOk
<1> HIDE DEF row, new
<1>3. ASSUME NEW j \in 1 .. 7
      PROVE  new[j] = [schema |-> new[j].schema, offset |-> new[j].offset,
                       length |-> new[j].length, digest |-> new[j].digest]
  <2>1. CASE j = i
    BY <1>1, <1>2, <2>1
  <2>2. CASE j # i
    <3>1. new[j] = rows[j]
      BY <1>1, <2>2
    <3> QED
      BY <3>1 DEF RowsOk
  <2> QED
    BY <2>1, <2>2
<1>4. new = [j \in 1 .. 7 |-> new[j]]
  BY <1>1
<1> QED
  BY <1>3, <1>4 DEF RowsOk, new

\* A section that may stand in the place of the i-th one.
Fits(i, new) ==
    /\ i = 1 => new \in [1 .. Len(Vocabulary) + 1 -> Nat]
    /\ i = 2 => new \in [1 .. TokenStarts[Len(Vocabulary) + 1] -> Bytes \cup {"invalid"}]
    /\ i = 4 => MergesOk(new)

WithSection(o, i, new) == [o EXCEPT ![i] = new]

\* A section replaced by one of its kind.
LEMMA SectionReplaced ==
    ASSUME NEW o, SectionsOk(o), NEW i \in 1 .. 5, NEW new, Fits(i, new)
    PROVE  SectionsOk(WithSection(o, i, new))
<1> DEFINE s == [o EXCEPT ![i] = new]
<1>1. s = [k \in 1 .. 5 |-> IF k = i THEN new ELSE o[k]]
  BY DEF SectionsOk
<1> HIDE DEF s
<1>2. s = [k \in 1 .. 5 |-> s[k]]
  BY <1>1
<1>3. s[1] \in [1 .. Len(Vocabulary) + 1 -> Nat]
  BY <1>1 DEF Fits, SectionsOk
<1>4. s[2] \in [1 .. TokenStarts[Len(Vocabulary) + 1] -> Bytes \cup {"invalid"}]
  BY <1>1 DEF Fits, SectionsOk
<1>5. MergesOk(s[4])
  BY <1>1 DEF Fits, SectionsOk
<1> QED
  BY <1>2, <1>3, <1>4, <1>5 DEF SectionsOk, s, WithSection

\* The sections with another element somewhere.
LEMMA SectionsChanged ==
    ASSUME SectionsOk(file.sections), NEW s \in SpoiledSections
    PROVE  SectionsOk(s)
<1> DEFINE o == file.sections
           N == Len(Vocabulary) + 1
           B == Bytes \cup {"invalid"}
           Z == 1 .. TokenStarts[N]
<1>1. /\ o = [i \in 1 .. 5 |-> o[i]] /\ DOMAIN o = 1 .. 5
      /\ o[1] \in [1 .. N -> Nat] /\ o[2] \in [Z -> B]
      /\ o[4] = [m \in 1 .. Len(Merges) |-> o[4][m]]
      /\ \A m \in 1 .. Len(Merges) : o[4][m] = [k \in 1 .. 3 |-> o[4][m][k]]
  BY DEF SectionsOk, MergesOk
<1>2. Numbers \subseteq Nat
  BY TensorsLaid DEF Numbers
<1> DEFINE One == {[o EXCEPT ![1][k] = v] : k \in DOMAIN o[1], v \in Numbers}
           Two == {[o EXCEPT ![2][k] = v] : k \in DOMAIN o[2], v \in Range(o[2]) \cup {"invalid"}}
           Three == {[o EXCEPT ![3][k] = v] : k \in DOMAIN o[3], v \in 0 .. 5}
           Four == {[o EXCEPT ![4][k][j] = v] : k \in DOMAIN o[4], j \in 1 .. 3,
                                                v \in 0 .. Len(Vocabulary)}
           Five == {[o EXCEPT ![5][k] = v] : k \in DOMAIN o[5], v \in {"x", "invalid"}}
<1>3. s \in UNION {One, Two, Three, Four, Five}
  BY DEF SpoiledSections
<1> HIDE DEF o, N, B, Z
<1>4. ASSUME NEW i \in 1 .. 5, NEW new, Fits(i, new) PROVE SectionsOk(WithSection(o, i, new))
  BY <1>4, SectionReplaced DEF o
<1>5. CASE s \in One
  <2>1. PICK k \in DOMAIN o[1], v \in Numbers : s = [o EXCEPT ![1][k] = v]
    BY <1>5
  <2> DEFINE new == [o[1] EXCEPT ![k] = v]
  <2>2. new \in [1 .. N -> Nat] /\ s = WithSection(o, 1, new)
    BY <1>1, <1>2, <2>1 DEF WithSection
  <2> HIDE DEF new
  <2>3. Fits(1, new)
    BY <2>2 DEF Fits, N
  <2> QED
    BY <1>4, <2>2, <2>3
<1>6. CASE s \in Two
  <2>1. PICK k \in DOMAIN o[2], v \in Range(o[2]) \cup {"invalid"} : s = [o EXCEPT ![2][k] = v]
    BY <1>6
  <2> DEFINE new == [o[2] EXCEPT ![k] = v]
  <2>2. v \in B
    BY <1>1, <2>1 DEF Range, B
  <2>3. new \in [Z -> B] /\ s = WithSection(o, 2, new)
    BY <1>1, <2>1, <2>2 DEF WithSection
  <2> HIDE DEF new
  <2>4. Fits(2, new)
    BY <2>3 DEF Fits, N, Z, B
  <2> QED
    BY <1>4, <2>3, <2>4
<1>7. CASE s \in Three
  <2>1. PICK k \in DOMAIN o[3], v \in 0 .. 5 : s = [o EXCEPT ![3][k] = v]
    BY <1>7
  <2> DEFINE new == [o[3] EXCEPT ![k] = v]
  <2>2. s = WithSection(o, 3, new)
    BY <2>1 DEF WithSection
  <2> HIDE DEF new
  <2>3. Fits(3, new)
    BY DEF Fits
  <2> QED
    BY <1>4, <2>2, <2>3
<1>8. CASE s \in Four
  <2>1. PICK k \in DOMAIN o[4], j \in 1 .. 3, v \in 0 .. Len(Vocabulary) : s = [o EXCEPT ![4][k][j] = v]
    BY <1>8
  <2> DEFINE merge == [o[4][k] EXCEPT ![j] = v]
             new == [o[4] EXCEPT ![k] = merge]
  <2>2. s = WithSection(o, 4, new)
    BY <2>1 DEF WithSection
  <2>3. k \in 1 .. Len(Merges)
    BY <1>1, <2>1
  <2>4. merge = [i \in 1 .. 3 |-> merge[i]]
    BY <1>1, <2>3
  <2> HIDE DEF merge
  <2>5. new = [m \in 1 .. Len(Merges) |-> IF m = k THEN merge ELSE o[4][m]]
    BY <1>1
  <2> HIDE DEF new
  <2>6. new = [m \in 1 .. Len(Merges) |-> new[m]]
    BY <2>5
  <2>7. ASSUME NEW m \in 1 .. Len(Merges) PROVE new[m] = [i \in 1 .. 3 |-> new[m][i]]
    <3>1. CASE m = k
      BY <2>4, <2>5, <3>1
    <3>2. CASE m # k
      BY <1>1, <2>5, <3>2
    <3> QED
      BY <3>1, <3>2
  <2>8. Fits(4, new)
    BY <2>6, <2>7 DEF Fits, MergesOk
  <2> QED
    BY <1>4, <2>2, <2>8
<1>9. CASE s \in Five
  <2>1. PICK k \in DOMAIN o[5], v \in {"x", "invalid"} : s = [o EXCEPT ![5][k] = v]
    BY <1>9
  <2> DEFINE new == [o[5] EXCEPT ![k] = v]
  <2>2. s = WithSection(o, 5, new)
    BY <2>1 DEF WithSection
  <2> HIDE DEF new
  <2>3. Fits(5, new)
    BY DEF Fits
  <2> QED
    BY <1>4, <2>2, <2>3
<1> HIDE DEF One, Two, Three, Four, Five
<1> QED
  BY <1>3, <1>5, <1>6, <1>7, <1>8, <1>9

\* The file with one change.
LEMMA FileChanged ==
    ASSUME Shaped(file), NEW f \in SpoiledFiles
    PROVE  Shaped(f)
<1>1. RowsOk(file.rows) /\ file.gaps = [i \in 1 .. 7 |-> file.gaps[i]] /\ SectionsOk(file.sections)
  BY DEF Shaped
<1> DEFINE Other == {"size", "header", "tensors", "data"}
<1>2. ASSUME NEW x \in Other, NEW v, f = [file EXCEPT ![x] = v] PROVE Shaped(f)
  <2>1. x \in FileFields /\ x # "rows" /\ x # "gaps" /\ x # "sections"
    BY DEF FileFields
  <2> QED
    BY <1>2, <2>1, FieldChanged
<1>3. ASSUME NEW i \in 1 .. 7, NEW field \in {"schema", "offset", "length", "digest"}, NEW v,
             f = [file EXCEPT !.rows[i][field] = v]
      PROVE  Shaped(f)
  <2> DEFINE new == [file.rows EXCEPT ![i][field] = v]
  <2>1. RowsOk(new)
    BY <1>1, RowChanged
  <2>2. f = [file EXCEPT !["rows"] = new]
    BY <1>3
  <2>3. "rows" \in FileFields /\ "rows" # "gaps" /\ "rows" # "sections"
    BY DEF FileFields
  <2> HIDE DEF new
  <2> QED
    BY <2>1, <2>2, <2>3, FieldChanged
<1>4. CASE \E v \in Numbers : f = [file EXCEPT !.size = v]
  BY <1>2, <1>4
<1>5. CASE f \in {[file EXCEPT !.header.fields = "other"], [file EXCEPT !.header.content = "other"],
                  [file EXCEPT !.header.reserved = 1]}
  <2>1. \E v : f = [file EXCEPT !["header"] = v]
    <3>1. CASE f = [file EXCEPT !.header.fields = "other"]
      <4> DEFINE v == [file.header EXCEPT !.fields = "other"]
      <4>1. f = [file EXCEPT !["header"] = v]
        BY <3>1
      <4> QED
        BY <4>1
    <3>2. CASE f = [file EXCEPT !.header.content = "other"]
      <4> DEFINE v == [file.header EXCEPT !.content = "other"]
      <4>1. f = [file EXCEPT !["header"] = v]
        BY <3>2
      <4> QED
        BY <4>1
    <3>3. CASE f = [file EXCEPT !.header.reserved = 1]
      <4> DEFINE v == [file.header EXCEPT !.reserved = 1]
      <4>1. f = [file EXCEPT !["header"] = v]
        BY <3>3
      <4> QED
        BY <4>1
    <3> QED
      BY <1>5, <3>1, <3>2, <3>3
  <2> QED
    BY <1>2, <2>1
<1>6. ASSUME NEW field \in {"schema", "offset", "length", "digest"}, NEW values,
             f \in SpoiledRow(field, values)
      PROVE  Shaped(f)
  <2>1. PICK i \in 1 .. 7, v \in values : f = [file EXCEPT !.rows[i][field] = v]
    BY <1>6 DEF SpoiledRow
  <2> QED
    BY <1>3, <2>1
<1>7. f \in SpoiledRows => Shaped(f)
  BY <1>6 DEF SpoiledRows
<1>10. CASE \E s \in SpoiledSections : f = [file EXCEPT !.sections = s]
  <2>1. PICK s \in SpoiledSections : f = [file EXCEPT !["sections"] = s]
    BY <1>10
  <2>2. SectionsOk(s)
    BY <1>1, SectionsChanged
  <2>3. "sections" \in FileFields /\ "sections" # "gaps" /\ "sections" # "rows"
    BY DEF FileFields
  <2> QED
    BY <2>1, <2>2, <2>3, FieldChanged
<1>11. CASE \E i \in 2 .. 7 : f = [file EXCEPT !.gaps[i] = 1]
  <2>1. PICK i \in 2 .. 7 : f = [file EXCEPT !.gaps[i] = 1]
    BY <1>11
  <2> DEFINE new == [file.gaps EXCEPT ![i] = 1]
  <2>2. new = [k \in 1 .. 7 |-> new[k]] /\ f = [file EXCEPT !["gaps"] = new]
    BY <1>1, <2>1
  <2>3. "gaps" \in FileFields /\ "gaps" # "rows" /\ "gaps" # "sections"
    BY DEF FileFields
  <2> HIDE DEF new
  <2> QED
    BY <2>2, <2>3, FieldChanged
<1>12. ASSUME NEW field, NEW values, f \in SpoiledTensor(field, values)
       PROVE  Shaped(f)
  <2>1. PICK i \in DOMAIN file.tensors, v \in values : f = [file EXCEPT !["tensors"][i][field] = v]
    BY <1>12 DEF SpoiledTensor
  <2> DEFINE new == [file.tensors EXCEPT ![i][field] = v]
  <2>2. f = [file EXCEPT !["tensors"] = new]
    BY <2>1
  <2> HIDE DEF new
  <2> QED
    BY <1>2, <2>2
<1>13. CASE \E i : f = [file EXCEPT !.data[i] = <<"other", i>>]
  <2>1. PICK i : f = [file EXCEPT !.data[i] = <<"other", i>>]
    BY <1>13
  <2> DEFINE new == [file.data EXCEPT ![i] = <<"other", i>>]
  <2>2. f = [file EXCEPT !["data"] = new]
    BY <2>1
  <2> HIDE DEF new
  <2> QED
    BY <1>2, <2>2
<1>14. f \in SpoiledHeaders => Shaped(f)
  BY <1>4, <1>5 DEF SpoiledHeaders
<1>16. f \in SpoiledTensors => Shaped(f)
  BY <1>12 DEF SpoiledTensors
<1>17. f \in SpoiledContents => Shaped(f)
  <2> DEFINE U1 == {[file EXCEPT !.sections = s] : s \in SpoiledSections}
             U2 == {[file EXCEPT !.gaps[i] = 1] : i \in {k \in 2 .. 7 :
                       SectionOffsets[k] > SectionOffsets[k - 1] + SectionLengths[k - 1]}}
             U3 == {[file EXCEPT !.data[i] = <<"other", i>>] : i \in DOMAIN file.data}
  <2>1. f \in U1 => Shaped(f)
    BY <1>10
  <2>2. f \in U2 => Shaped(f)
    BY <1>11
  <2>3. f \in U3 => Shaped(f)
    BY <1>13
  <2>4. SpoiledContents = UNION {U1, U2, U3}
    BY Zenon DEF SpoiledContents
  <2> HIDE DEF U1, U2, U3
  <2> QED
    BY <2>1, <2>2, <2>3, <2>4
<1> QED
  BY <1>7, <1>14, <1>16, <1>17 DEF SpoiledFiles

\* Digests put right change no part but the rows, the tensors and the header.
LEMMA CoherentShaped ==
    ASSUME NEW f, Shaped(f)
    PROVE  Shaped(Coherent(f))
<1> DEFINE newTensors == [i \in DOMAIN f.tensors |-> [f.tensors[i] EXCEPT !.digest = f.data[i]]]
           a == [f EXCEPT !["tensors"] = newTensors]
           newRows == [i \in 1 .. 7 |-> [f.rows[i] EXCEPT !.digest = SectionDigest(a, i)]]
           b == [a EXCEPT !["rows"] = newRows]
           newHeader == [b.header EXCEPT !.content = ContentDigest(b)]
           c == [b EXCEPT !["header"] = newHeader]
<1>1. Coherent(f) = c
  BY DEF Coherent
<1>2. /\ "tensors" \in FileFields /\ "rows" \in FileFields /\ "header" \in FileFields
      /\ "tensors" # "rows" /\ "tensors" # "gaps" /\ "tensors" # "sections"
      /\ "header" # "rows" /\ "header" # "gaps" /\ "header" # "sections"
      /\ "rows" # "gaps" /\ "rows" # "sections"
  BY DEF FileFields
<1>3. Shaped(a)
  <2> HIDE DEF newTensors
  <2> QED
    BY <1>2, FieldChanged
<1> HIDE DEF a
<1>4. RowsOk(newRows)
  <2>1. RowsOk(f.rows)
    BY DEF Shaped
  <2> QED
    BY <2>1 DEF RowsOk
<1>5. Shaped(b)
  <2> HIDE DEF newRows
  <2> QED
    BY <1>2, <1>3, <1>4, FieldChanged
<1> HIDE DEF b
<1>6. Shaped(c)
  <2> HIDE DEF newHeader
  <2> QED
    BY <1>2, <1>5, FieldChanged
<1> HIDE DEF c
<1> QED
  BY <1>1, <1>6

-----------------------------------------------------------------------------
(* What inspect passes is what pack wrote.                                  *)

\* A digest that is the packed section's is of the packed section.
LEMMA DigestTells ==
    ASSUME NEW f, NEW i \in 1 .. 7, SectionDigest(f, i) = <<"section", i>>
    PROVE  /\ i <= 5 => f.sections[i] = Packed.sections[i]
           /\ i = 6 => f.tensors = Packed.tensors
           /\ i = 7 => f.data = Packed.data
<1>1. <<"section", i>> # <<"other", 0>>
  OBVIOUS
<1> HIDE DEF Packed
<1> QED
  BY <1>1 DEF SectionDigest

LEMMA InspectTells ==
    ASSUME Shaped(file), inspect
    PROVE  file = Packed
<1>1. /\ file = [x \in FileFields |-> file[x]]
      /\ RowsOk(file.rows) /\ file.gaps = [i \in 1 .. 7 |-> file.gaps[i]] /\ SectionsOk(file.sections)
  BY DEF Shaped
<1>2. /\ Packed = [x \in FileFields |-> Packed[x]]
      /\ RowsOk(Packed.rows) /\ Packed.gaps = [i \in 1 .. 7 |-> Packed.gaps[i]]
      /\ SectionsOk(Packed.sections)
  BY PackedShaped DEF Shaped
<1>3. validate_header /\ \A i \in 1 .. 7 : validate_section_layout(i) /\ validate_section_evidence(i)
  BY DEF inspect
<1>4. file.size = Packed.size
  BY <1>3, PackedIs DEF validate_header
<1>5. \A i \in 1 .. 7 : SectionDigest(file, i) = <<"section", i>>
  BY <1>3 DEF validate_section_evidence
<1>6. file.sections = Packed.sections
  <2>1. \A i \in 1 .. 5 : file.sections[i] = Packed.sections[i]
    <3> TAKE i \in 1 .. 5
    <3>1. i \in 1 .. 7 /\ i <= 5
      OBVIOUS
    <3> QED
      BY <1>5, <3>1, DigestTells
  <2>2. /\ file.sections = [i \in 1 .. 5 |-> file.sections[i]]
        /\ Packed.sections = [i \in 1 .. 5 |-> Packed.sections[i]]
    BY <1>1, <1>2 DEF SectionsOk
  <2> QED
    BY <2>1, <2>2
<1>7. file.tensors = Packed.tensors /\ file.data = Packed.data
  <2>1. 6 \in 1 .. 7 /\ 7 \in 1 .. 7
    OBVIOUS
  <2> QED
    BY <1>5, <2>1, DigestTells
<1>8. file.gaps = Packed.gaps
  <2>1. \A i \in 1 .. 7 : file.gaps[i] = Packed.gaps[i]
    BY <1>3, PackedIs DEF validate_section_evidence
  <2> QED
    BY <1>1, <1>2, <2>1
<1>9. file.rows = Packed.rows
  <2>1. ASSUME NEW i \in 1 .. 7 PROVE file.rows[i] = Packed.rows[i]
    <3>1. /\ file.rows[i].schema = i /\ file.rows[i].offset = SectionOffsets[i]
          /\ file.rows[i].length = SectionRow(i).length /\ file.rows[i].digest = <<"section", i>>
      BY <1>3, <1>5 DEF validate_section_layout, validate_section_evidence
    <3>2. /\ SectionRow(i).schema = i /\ SectionRow(i).offset = SectionOffsets[i]
          /\ SectionRow(i).digest = <<"section", i>>
      BY DEF SectionRow
    <3>3. Packed.rows[i] = SectionRow(i)
      BY PackedIs
    <3>4. /\ file.rows[i] = [schema |-> file.rows[i].schema, offset |-> file.rows[i].offset,
                             length |-> file.rows[i].length, digest |-> file.rows[i].digest]
          /\ Packed.rows[i] = [schema |-> Packed.rows[i].schema, offset |-> Packed.rows[i].offset,
                               length |-> Packed.rows[i].length, digest |-> Packed.rows[i].digest]
      BY <1>1, <1>2 DEF RowsOk
    <3> QED
      BY <3>1, <3>2, <3>3, <3>4
  <2>2. /\ file.rows = [i \in 1 .. 7 |-> file.rows[i]]
        /\ Packed.rows = [i \in 1 .. 7 |-> Packed.rows[i]]
    BY <1>1, <1>2 DEF RowsOk
  <2> QED
    BY <2>1, <2>2
<1>10. \A x \in FileFields \ {"header"} : file[x] = Packed[x]
  BY <1>4, <1>6, <1>7, <1>8, <1>9 DEF FileFields
<1>11. [file EXCEPT !["header"] = Packed.header] = Packed
  <2> DEFINE g == [file EXCEPT !["header"] = Packed.header]
  <2>1. \A x \in FileFields : g[x] = Packed[x]
    BY <1>1, <1>10
  <2>2. g = [x \in FileFields |-> g[x]]
    BY <1>1
  <2> HIDE DEF g
  <2>3. g = Packed
    BY <1>2, <2>1, <2>2
  <2> QED
    BY <2>3 DEF g
<1>12. file.header = Packed.header
  <2>1. ContentDigest(file) = "content"
    BY <1>11 DEF ContentDigest
  <2> QED
    BY <1>3, <2>1, PackedIs DEF validate_header
<1>13. \A x \in FileFields : file[x] = Packed[x]
  BY <1>10, <1>12
<1> QED
  BY <1>1, <1>2, <1>13

-----------------------------------------------------------------------------
(* What open_authenticated opens is indexed in its bounds.                  *)

\* Tensors behind one another, one at a time, are where pack put them.
LEMMA TensorsTell ==
    ASSUME validate_tensors, NEW i \in 1 .. Len(Tensors)
    PROVE  file.tensors[i].offset = TensorOffsets[i] /\ file.tensors[i].length = Tensors[i]
<1> DEFINE n == Len(Tensors)
           S == {m \in Nat : m + 1 \in 1 .. n => file.tensors[m + 1].offset = TensorOffsets[m + 1]}
<1>1. n \in Nat \ {0} /\ TensorOffsets[1] = SectionOffsets[7]
  BY TensorsLaid
<1>2. \A k \in 1 .. n : TensorOffsets[k + 1] = TensorOffsets[k] + Tensors[k]
  BY TensorsLaid
<1>3. \A k \in 1 .. n : /\ file.tensors[k].offset = TensorEnd(k - 1, SectionOffsets[7])
                        /\ file.tensors[k].length = Tensors[k]
  BY DEF validate_tensors
<1> HIDE DEF n
<1>4. 0 \in S
  <2>1. 1 \in 1 .. n
    BY <1>1
  <2>2. file.tensors[1].offset = TensorOffsets[1]
    BY <1>1, <1>3, <2>1 DEF TensorEnd
  <2> QED
    BY <2>2
<1>5. ASSUME NEW m \in Nat, m \in S PROVE m + 1 \in S
  <2> SUFFICES ASSUME m + 2 \in 1 .. n PROVE file.tensors[m + 2].offset = TensorOffsets[m + 2]
    OBVIOUS
  <2> DEFINE k == m + 1
  <2>1. k \in 1 .. n /\ k # 0 /\ k + 1 = m + 2 /\ (k + 1) - 1 = k /\ k + 1 \in 1 .. n
    BY <1>1
  <2>2. file.tensors[k].offset = TensorOffsets[k]
    BY <1>5, <2>1
  <2> HIDE DEF k
  <2>3. file.tensors[k + 1].offset = TensorEnd(k, SectionOffsets[7])
    BY <1>3, <2>1
  <2>4. TensorEnd(k, SectionOffsets[7]) = file.tensors[k].offset + file.tensors[k].length
    BY <2>1 DEF TensorEnd
  <2>5. file.tensors[k + 1].offset = TensorOffsets[k + 1]
    BY <1>2, <1>3, <2>1, <2>2, <2>3, <2>4
  <2> QED
    BY <2>1, <2>5
<1> HIDE DEF S
<1>6. Nat \subseteq S
  BY <1>4, <1>5, SetInduction
<1>7. i \in 1 .. n /\ i - 1 \in Nat /\ (i - 1) + 1 = i
  BY <1>1 DEF n
<1>8. i - 1 \in S
  BY <1>6, <1>7
<1> QED
  BY <1>3, <1>7, <1>8 DEF S

\* The offsets rise.
LEMMA TensorsRise ==
    ASSUME NEW i \in 1 .. Len(Tensors) + 1, NEW j \in 1 .. Len(Tensors) + 1, i <= j
    PROVE  TensorOffsets[i] <= TensorOffsets[j]
<1> DEFINE n == Len(Tensors)
           S == {m \in Nat : i + m \in 1 .. n + 1 => TensorOffsets[i] <= TensorOffsets[i + m]}
<1>1. n \in Nat \ {0} /\ TensorOffsets \in [1 .. n + 1 -> Nat]
  BY TensorsLaid
<1>2. \A k \in 1 .. n : TensorOffsets[k + 1] = TensorOffsets[k] + Tensors[k] /\ Tensors[k] \in Nat
  BY TensorsLaid
<1>3. i \in 1 .. n + 1 /\ j \in 1 .. n + 1
  OBVIOUS
<1> HIDE DEF n
<1>4. 0 \in S
  <2>1. i + 0 = i /\ TensorOffsets[i] \in Nat
    BY <1>1, <1>3
  <2> QED
    BY <2>1
<1>5. ASSUME NEW m \in Nat, m \in S PROVE m + 1 \in S
  <2> SUFFICES ASSUME i + (m + 1) \in 1 .. n + 1 PROVE TensorOffsets[i] <= TensorOffsets[i + (m + 1)]
    OBVIOUS
  <2> DEFINE k == i + m
  <2>1. k \in 1 .. n /\ k \in 1 .. n + 1 /\ i + (m + 1) = k + 1
    BY <1>1, <1>3
  <2>2. TensorOffsets[i] <= TensorOffsets[k]
    BY <1>5, <2>1
  <2> HIDE DEF k
  <2>3. TensorOffsets[k + 1] = TensorOffsets[k] + Tensors[k] /\ Tensors[k] \in Nat
    BY <1>2, <2>1
  <2>4. TensorOffsets[i] \in Nat /\ TensorOffsets[k] \in Nat
    BY <1>1, <1>3, <2>1
  <2> QED
    BY <2>1, <2>2, <2>3, <2>4
<1> HIDE DEF S
<1>6. Nat \subseteq S
  BY <1>4, <1>5, SetInduction
<1>7. j - i \in Nat /\ i + (j - i) = j
  BY <1>1, <1>3
<1>8. j - i \in S
  BY <1>6, <1>7
<1> QED
  BY <1>3, <1>7, <1>8 DEF S

\* The tensors of an opened container.
LEMMA TensorsBounded ==
    ASSUME validate_tensors, file.size = FileSize,
           NEW i \in 1 .. Len(Tensors), NEW j \in 1 .. Len(Tensors)
    PROVE  /\ SectionOffsets[7] <= file.tensors[i].offset
           /\ file.tensors[i].offset + file.tensors[i].length <= file.size
           /\ i < j => file.tensors[i].offset + file.tensors[i].length <= file.tensors[j].offset
<1> DEFINE n == Len(Tensors)
<1>1. /\ file.tensors[i].offset = TensorOffsets[i] /\ file.tensors[i].length = Tensors[i]
      /\ file.tensors[j].offset = TensorOffsets[j]
  BY TensorsTell
<1>2. /\ TensorOffsets[i + 1] = TensorOffsets[i] + Tensors[i]
      /\ TensorOffsets[n + 1] = FileSize
  BY TensorsLaid
<1>3. n \in Nat
  BY TensorsLaid
<1>4. i \in 1 .. n + 1 /\ j \in 1 .. n + 1 /\ i + 1 \in 1 .. n + 1 /\ n + 1 \in 1 .. n + 1 /\ i + 1 <= n + 1
  BY <1>3
<1>5. SectionOffsets[7] <= TensorOffsets[i]
  BY <1>4, TensorsLaid
<1>6. TensorOffsets[i + 1] <= TensorOffsets[n + 1]
  BY <1>4, TensorsRise
<1>7. i < j => TensorOffsets[i + 1] <= TensorOffsets[j]
  <2>1. i < j => i + 1 <= j
    BY <1>4
  <2> QED
    BY <1>4, <2>1, TensorsRise
<1> HIDE DEF n
<1> QED
  BY <1>1, <1>2, <1>5, <1>6, <1>7

\* Offsets that rise by the lengths of the strings are those of pack.
LEMMA StartsTell ==
    ASSUME NEW o \in [1 .. Len(Vocabulary) + 1 -> Nat], o[1] = 0,
           \A i \in 1 .. Len(Vocabulary) : o[i + 1] = o[i] + Len(Vocabulary[i])
    PROVE  o = TokenStarts
<1> DEFINE n == Len(Vocabulary)
           S == {m \in Nat : m + 1 \in 1 .. n + 1 => o[m + 1] = TokenStarts[m + 1]}
<1>1. n \in Nat
  BY StringsAre
<1>2. /\ TokenStarts \in [1 .. n + 1 -> Nat] /\ TokenStarts[1] = 0
      /\ \A i \in 1 .. n : TokenStarts[i + 1] = TokenStarts[i] + Len(Vocabulary[i])
  BY StartsAre
<1>3. \A i \in 1 .. n : o[i + 1] = o[i] + Len(Vocabulary[i])
  OBVIOUS
<1>4. o \in [1 .. n + 1 -> Nat]
  OBVIOUS
<1> HIDE DEF n
<1>5. 0 \in S
  BY <1>2
<1>6. ASSUME NEW m \in Nat, m \in S PROVE m + 1 \in S
  <2> SUFFICES ASSUME (m + 1) + 1 \in 1 .. n + 1 PROVE o[(m + 1) + 1] = TokenStarts[(m + 1) + 1]
    OBVIOUS
  <2> DEFINE k == m + 1
  <2>1. k \in 1 .. n /\ k \in 1 .. n + 1
    BY <1>1
  <2>2. o[k] = TokenStarts[k]
    BY <1>6, <2>1
  <2> HIDE DEF k
  <2>3. o[k + 1] = TokenStarts[k + 1]
    BY <1>2, <1>3, <2>1, <2>2
  <2> QED
    BY <2>3 DEF k
<1> HIDE DEF S
<1>7. Nat \subseteq S
  BY <1>5, <1>6, SetInduction
<1>8. ASSUME NEW i \in 1 .. n + 1 PROVE o[i] = TokenStarts[i]
  <2>1. i - 1 \in Nat /\ (i - 1) + 1 = i
    BY <1>1
  <2>2. i - 1 \in S
    BY <1>7, <2>1
  <2> QED
    BY <2>1, <2>2 DEF S
<1> DEFINE D == 1 .. n + 1
<1>9. /\ o \in [D -> Nat] /\ TokenStarts \in [D -> Nat]
      /\ \A i \in D : o[i] = TokenStarts[i]
  BY <1>2, <1>4, <1>8
<1> HIDE DEF D
<1> QED
  BY <1>9

\* Every byte belongs to a string.
LEMMA StartsCover ==
    ASSUME NEW p \in 1 .. TokenStarts[Len(Vocabulary) + 1]
    PROVE  \E j \in 1 .. Len(Vocabulary) : \E k \in 1 .. Len(Vocabulary[j]) : p = TokenStarts[j] + k
<1> DEFINE n == Len(Vocabulary)
           S == {m \in Nat : m <= n /\ p <= TokenStarts[m + 1] =>
                    \E j \in 1 .. n : \E k \in 1 .. Len(Vocabulary[j]) : p = TokenStarts[j] + k}
<1>1. n \in Nat /\ \A i \in 1 .. n : Len(Vocabulary[i]) \in Nat
  BY StringsAre
<1>2. /\ TokenStarts \in [1 .. n + 1 -> Nat] /\ TokenStarts[1] = 0
      /\ \A i \in 1 .. n : TokenStarts[i + 1] = TokenStarts[i] + Len(Vocabulary[i])
  BY StartsAre
<1>3. p \in 1 .. TokenStarts[n + 1]
  OBVIOUS
<1> HIDE DEF n
<1>4. p \in Nat /\ p >= 1 /\ p <= TokenStarts[n + 1]
  <2>1. TokenStarts[n + 1] \in Nat
    BY <1>1, <1>2
  <2> QED
    BY <1>3, <2>1
<1>5. 0 \in S
  BY <1>2, <1>4
<1>6. ASSUME NEW m \in Nat, m \in S PROVE m + 1 \in S
  <2> DEFINE j == m + 1
  <2> SUFFICES ASSUME j <= n, p <= TokenStarts[j + 1]
               PROVE  \E jj \in 1 .. n : \E k \in 1 .. Len(Vocabulary[jj]) : p = TokenStarts[jj] + k
    OBVIOUS
  <2>1. j \in 1 .. n /\ j \in 1 .. n + 1 /\ m <= n
    BY <1>1
  <2>2. CASE p <= TokenStarts[j]
    BY <1>6, <2>1, <2>2
  <2>3. CASE ~(p <= TokenStarts[j])
    <3> HIDE DEF j
    <3> DEFINE k == p - TokenStarts[j]
    <3>1. TokenStarts[j] \in Nat /\ TokenStarts[j + 1] = TokenStarts[j] + Len(Vocabulary[j])
      BY <1>2, <2>1
    <3>2. Len(Vocabulary[j]) \in Nat
      BY <1>1, <2>1
    <3>3. k \in 1 .. Len(Vocabulary[j]) /\ p = TokenStarts[j] + k
      BY <1>4, <2>3, <3>1, <3>2
    <3> QED
      BY <2>1, <3>3
  <2> QED
    BY <2>2, <2>3
<1> HIDE DEF S
<1>7. Nat \subseteq S
  BY <1>5, <1>6, SetInduction
<1>8. n \in S
  BY <1>1, <1>7
<1> QED
  BY <1>1, <1>4, <1>8 DEF S, n

\* Valid tokens are the strings of the source, where pack put them.
LEMMA TokensTell ==
    ASSUME SectionsOk(file.sections), TokensValid
    PROVE  /\ file.sections[1] = TokenStarts
           /\ file.sections[2] = FlattenSeq(Vocabulary)
           /\ \A id \in TokenIds : id + 1 \in 1 .. Len(Vocabulary) /\ token_bytes(id) = Vocabulary[id + 1]
<1> DEFINE n == Len(Vocabulary)
           o == file.sections[1]
           b == file.sections[2]
           last == TokenStarts[n + 1]
           Units == Bytes \cup {"invalid"}
<1>1. /\ n \in Nat
      /\ \A i \in 1 .. n : Vocabulary[i] \in Seq(Bytes) /\ Len(Vocabulary[i]) \in Nat \ {0}
  BY StringsAre
<1>2. o \in [1 .. n + 1 -> Nat] /\ b \in [1 .. last -> Units]
  BY DEF SectionsOk
<1>3. /\ o[1] = 0 /\ o[n + 1] = Len(b)
      /\ \A id \in TokenIds : o[id + 2] > o[id + 1] /\ o[id + 2] <= Len(b)
      /\ [i \in 1 .. n |-> token_bytes(i - 1)] = Vocabulary
  BY DEF TokensValid
<1>4. TokenIds = 0 .. n - 1
  BY DEF TokenIds
<1>5. \A id : token_bytes(id) = SubSeq(b, o[id + 1] + 1, o[id + 2])
  BY DEF token_bytes
<1>6. last \in Nat /\ \A j \in 1 .. n + 1 : TokenStarts[j] \in Nat
  <2>1. n + 1 \in 1 .. n + 1
    BY <1>1
  <2> QED
    BY <2>1, StartsAre
<1>7. Len(b) = last /\ b \in Seq(Units)
  <2> HIDE DEF b, last, Units
  <2> QED
    BY <1>2, <1>6
<1>8. \A i \in 1 .. n : TokenStarts[i + 1] = TokenStarts[i] + Len(Vocabulary[i])
  BY StartsAre
<1>9. Joins(FlattenSeq(Vocabulary), n)
  BY FlatIs
<1> HIDE DEF n, o, b, last, Units
<1>10. ASSUME NEW i \in 1 .. n
       PROVE  /\ SubSeq(b, o[i] + 1, o[i + 1]) = Vocabulary[i]
              /\ o[i] \in Nat /\ o[i + 1] \in Nat /\ o[i] < o[i + 1] /\ o[i + 1] <= last
  <2> DEFINE id == i - 1
  <2>1. id \in TokenIds /\ id + 1 = i /\ id + 2 = i + 1 /\ i \in 1 .. n + 1 /\ i + 1 \in 1 .. n + 1
    BY <1>1, <1>4
  <2>2. token_bytes(id) = Vocabulary[i]
    BY <1>3
  <2> HIDE DEF id
  <2>3. o[i] \in Nat /\ o[i + 1] \in Nat
    BY <1>2, <2>1
  <2>4. o[i] < o[i + 1] /\ o[i + 1] <= last
    BY <1>3, <1>7, <2>1, <2>3
  <2>5. SubSeq(b, o[i] + 1, o[i + 1]) = Vocabulary[i]
    BY <1>5, <2>1, <2>2
  <2> QED
    BY <2>3, <2>4, <2>5
<1>11. ASSUME NEW i \in 1 .. n
       PROVE  /\ o[i + 1] = o[i] + Len(Vocabulary[i])
              /\ \A k \in 1 .. Len(Vocabulary[i]) : Vocabulary[i][k] = b[o[i] + k]
  <2> DEFINE x == o[i] + 1
             y == o[i + 1]
  <2>1. x \in Int /\ y \in Int /\ x <= y /\ y - x + 1 = y - o[i] /\ x >= 1 /\ y <= last /\ o[i] \in Nat
    BY <1>10
  <2>2. \A k \in x .. y : b[k] \in Units
    <3> TAKE k \in x .. y
    <3>1. k \in 1 .. last
      BY <1>6, <2>1
    <3> QED
      BY <1>2, <3>1
  <2>3. SubSeq(b, x, y) = Vocabulary[i]
    BY <1>10
  <2>4. \A k : x + k - 1 = o[i] + k \/ k \notin Int
    BY <2>1
  <2> HIDE DEF x, y
  <2>5. /\ Len(SubSeq(b, x, y)) = IF x <= y THEN y - x + 1 ELSE 0
        /\ \A k \in 1 .. y - x + 1 : SubSeq(b, x, y)[k] = b[x + k - 1]
    BY <2>1, <2>2, SubSeqProperties
  <2>6. Len(Vocabulary[i]) = y - x + 1 /\ \A k \in 1 .. y - x + 1 : Vocabulary[i][k] = b[x + k - 1]
    BY <2>1, <2>3, <2>5
  <2>7. Len(Vocabulary[i]) = y - o[i]
    BY <2>1, <2>6
  <2>8. y = o[i] + Len(Vocabulary[i])
    BY <2>1, <2>7
  <2>9. \A k \in 1 .. Len(Vocabulary[i]) : Vocabulary[i][k] = b[o[i] + k]
    BY <2>4, <2>6
  <2> QED
    BY <2>8, <2>9 DEF y
<1>12. o = TokenStarts
  BY <1>2, <1>3, <1>11, StartsTell DEF n
<1>13. b = FlattenSeq(Vocabulary)
  <2> DEFINE flat == FlattenSeq(Vocabulary)
  <2>1. flat \in Seq(Bytes) /\ Len(flat) = last
    BY <1>9 DEF Joins, last
  <2>2. \A j \in 1 .. n : \A k \in 1 .. Len(Vocabulary[j]) : flat[TokenStarts[j] + k] = Vocabulary[j][k]
    BY <1>9 DEF Joins
  <2> HIDE DEF flat
  <2>3. ASSUME NEW p \in 1 .. last PROVE b[p] = flat[p]
    <3>1. PICK j \in 1 .. n : \E k \in 1 .. Len(Vocabulary[j]) : p = TokenStarts[j] + k
      BY StartsCover DEF n, last
    <3>2. PICK k \in 1 .. Len(Vocabulary[j]) : p = TokenStarts[j] + k
      BY <3>1
    <3>3. Vocabulary[j][k] = b[o[j] + k]
      BY <1>11, <3>2
    <3>4. flat[TokenStarts[j] + k] = Vocabulary[j][k]
      BY <2>2, <3>2
    <3> QED
      BY <1>12, <3>2, <3>3, <3>4
  <2>4. flat \in Seq(Units)
    BY <2>1 DEF Units
  <2>5. b = flat
    BY <1>7, <2>1, <2>3, <2>4, SeqEqual
  <2> QED
    BY <2>5 DEF flat
<1>14. ASSUME NEW id \in TokenIds PROVE id + 1 \in 1 .. n /\ token_bytes(id) = Vocabulary[id + 1]
  <2>1. id + 1 \in 1 .. n /\ (id + 1) - 1 = id
    BY <1>1, <1>4
  <2>2. \A i \in 1 .. n : Vocabulary[i] = token_bytes(i - 1)
    BY <1>3
  <2>3. Vocabulary[id + 1] = token_bytes((id + 1) - 1)
    BY <2>1, <2>2
  <2> QED
    BY <2>1, <2>3
<1> QED
  BY <1>12, <1>13, <1>14 DEF o, b, n

\* Valid merges are those of the source.
LEMMA MergesTell ==
    ASSUME SectionsOk(file.sections), TokensValid, MergesValid
    PROVE  file.sections[4] = [m \in 1 .. Len(Merges) |-> Merge(m)]
<1>1. MergesOk(file.sections[4])
  BY DEF SectionsOk
<1>2. \A i, j \in 1 .. Len(Vocabulary) : Vocabulary[i] = Vocabulary[j] => i = j
  BY SourceAssumption
<1>3. \A id \in TokenIds : id + 1 \in 1 .. Len(Vocabulary) /\ token_bytes(id) = Vocabulary[id + 1]
  BY TokensTell
<1>4. \A id \in TokenIds : id \in Int
  BY StringsAre DEF TokenIds
<1>5. ASSUME NEW id \in TokenIds, NEW text, token_bytes(id) = text,
             \E i \in 1 .. Len(Vocabulary) : Vocabulary[i] = text
      PROVE  id = TokenId(text)
  <2>1. /\ TokenId(text) \in TokenIds /\ TokenId(text) + 1 \in 1 .. Len(Vocabulary)
        /\ Vocabulary[TokenId(text) + 1] = text
    BY <1>5, TokenIdIs
  <2> DEFINE t == TokenId(text)
  <2> HIDE DEF t
  <2>2. id + 1 \in 1 .. Len(Vocabulary) /\ Vocabulary[id + 1] = text
    BY <1>3, <1>5
  <2>3. t + 1 = id + 1 /\ t \in Int /\ id \in Int
    BY <1>2, <1>4, <2>1, <2>2 DEF t
  <2>4. t = id
    BY <2>3
  <2> QED
    BY <2>4 DEF t
<1>6. ASSUME NEW m \in 1 .. Len(Merges) PROVE file.sections[4][m] = Merge(m)
  <2> DEFINE l == Merges[m][1]
             r == Merges[m][2]
             merge == file.sections[4][m]
             both == l \o r
  <2>1. /\ \E i \in 1 .. Len(Vocabulary) : Vocabulary[i] = l
        /\ \E i \in 1 .. Len(Vocabulary) : Vocabulary[i] = r
        /\ \E i \in 1 .. Len(Vocabulary) : Vocabulary[i] = both
    BY SourceAssumption
  <2>2. Merges[m] = <<l, r>>
    <3>1. Merges[m] \in Seq(Bytes) \X Seq(Bytes)
      BY TypesAre, ElementOfSeq
    <3> QED
      BY <3>1
  <2>3. /\ \A k \in 1 .. 3 : merge[k] \in TokenIds
        /\ token_bytes(merge[3]) = token_bytes(merge[1]) \o token_bytes(merge[2])
        /\ <<token_bytes(merge[1]), token_bytes(merge[2])>> = Merges[m]
    BY DEF MergesValid
  <2>4. merge = [k \in 1 .. 3 |-> merge[k]]
    BY <1>1 DEF MergesOk
  <2>5. Merge(m) = <<TokenId(l), TokenId(r), TokenId(both)>>
    BY DEF Merge
  <2> HIDE DEF l, r, merge
  <2>6. token_bytes(merge[1]) = l /\ token_bytes(merge[2]) = r
    BY <2>2, <2>3
  <2>7. token_bytes(merge[3]) = both
    BY <2>3, <2>6
  <2> HIDE DEF both
  <2>8. merge[1] \in TokenIds /\ merge[2] \in TokenIds /\ merge[3] \in TokenIds
    BY <2>3
  <2>9. merge[1] = TokenId(l)
    BY <1>5, <2>1, <2>6, <2>8
  <2>10. merge[2] = TokenId(r)
    BY <1>5, <2>1, <2>6, <2>8
  <2>11. merge[3] = TokenId(both)
    BY <1>5, <2>1, <2>7, <2>8
  <2>12. merge = <<merge[1], merge[2], merge[3]>>
    BY <2>4
  <2>13. merge = Merge(m)
    BY <2>5, <2>9, <2>10, <2>11, <2>12
  <2> QED
    BY <2>13 DEF merge
<1>7. file.sections[4] = [m \in 1 .. Len(Merges) |-> file.sections[4][m]]
  BY <1>1 DEF MergesOk
<1> QED
  BY <1>6, <1>7

\* The parts that the runtime reads.
Usable ==
    /\ \A i, j \in 1 .. Len(Tensors) :
          /\ SectionOffsets[7] <= file.tensors[i].offset
          /\ file.tensors[i].offset + file.tensors[i].length <= file.size
          /\ i < j => file.tensors[i].offset + file.tensors[i].length <= file.tensors[j].offset
    /\ SubSeq(file.sections, 1, 4) = SubSeq(tokenizer_sections, 1, 4)

LEMMA OpenTells ==
    ASSUME Shaped(file), open_authenticated
    PROVE  Usable
<1>1. SectionsOk(file.sections)
  BY DEF Shaped
<1>2. SectionsValid /\ validate_tensors /\ TokensValid /\ MergesValid
  BY DEF open_authenticated
<1>3. file.size = FileSize
  BY <1>2 DEF SectionsValid
<1>4. \A i, j \in 1 .. Len(Tensors) :
          /\ SectionOffsets[7] <= file.tensors[i].offset
          /\ file.tensors[i].offset + file.tensors[i].length <= file.size
          /\ i < j => file.tensors[i].offset + file.tensors[i].length <= file.tensors[j].offset
  BY <1>2, <1>3, TensorsBounded
<1>5. /\ file.sections[1] = tokenizer_sections[1] /\ file.sections[2] = tokenizer_sections[2]
      /\ file.sections[4] = tokenizer_sections[4]
  BY <1>1, <1>2, SectionsAre, TokensTell, MergesTell
<1>6. file.sections[3] = tokenizer_sections[3]
  BY <1>2, SectionsAre DEF TokensValid
<1> DEFINE s == file.sections
           t == tokenizer_sections
           All == {s[i] : i \in 1 .. 4}
<1>7. \A i \in 1 .. 4 : s[i] = t[i] /\ s[i] \in All /\ t[i] \in All
  BY <1>5, <1>6
<1>8. SubSeq(s, 1, 4) = SubSeq(t, 1, 4)
  <2> HIDE DEF s, t, All
  <2>1. /\ SubSeq(s, 1, 4) \in Seq(All) /\ Len(SubSeq(s, 1, 4)) = IF 1 <= 4 THEN 4 - 1 + 1 ELSE 0
        /\ \A i \in 1 .. 4 - 1 + 1 : SubSeq(s, 1, 4)[i] = s[1 + i - 1]
    BY <1>7, SubSeqProperties
  <2>2. /\ SubSeq(t, 1, 4) \in Seq(All) /\ Len(SubSeq(t, 1, 4)) = IF 1 <= 4 THEN 4 - 1 + 1 ELSE 0
        /\ \A i \in 1 .. 4 - 1 + 1 : SubSeq(t, 1, 4)[i] = t[1 + i - 1]
    BY <1>7, SubSeqProperties
  <2> DEFINE u == SubSeq(s, 1, 4)
             v == SubSeq(t, 1, 4)
  <2>3. u \in Seq(All) /\ v \in Seq(All)
    BY <2>1, <2>2
  <2>4. Len(u) = 4 /\ Len(v) = 4
    BY <2>1, <2>2
  <2>5. ASSUME NEW i \in 1 .. 4 PROVE u[i] = v[i]
    <3>1. 1 + i - 1 = i /\ i \in 1 .. 4 - 1 + 1
      OBVIOUS
    <3>2. u[i] = s[i] /\ v[i] = t[i]
      BY <2>1, <2>2, <3>1
    <3> QED
      BY <1>7, <3>2
  <2> HIDE DEF u, v
  <2>6. u = v
    BY <2>3, <2>4, <2>5, SeqEqual
  <2> QED
    BY <2>6 DEF u, v
<1> QED
  BY <1>4, <1>8 DEF Usable

-----------------------------------------------------------------------------
(* The invariant.                                                           *)

\* Nothing is judged before it is packed; a packed file keeps its parts, and is
\* the packed one until a place of it is changed; each verdict is right.
CInv ==
    /\ spoiled \in BOOLEAN
    /\ file.size = 0 => inspected = "none" /\ opened = "none"
    /\ file.size # 0 => Shaped(file)
    /\ file.size # 0 /\ ~spoiled => file = Packed
    /\ inspected = "pass" => file = Packed
    /\ inspected = "failed" => file # Packed
    /\ opened = "ok" => Usable
    /\ opened = "error" => file # Packed

LEMMA CInit == ContainerInit => CInv
<1> SUFFICES ASSUME ContainerInit PROVE CInv
  OBVIOUS
<1>1. file.size = 0 /\ inspected = "none" /\ opened = "none"
  BY DEF ContainerInit
<1>2. spoiled \in BOOLEAN
  BY DEF ContainerInit
<1> QED
  BY <1>1, <1>2 DEF CInv

LEMMA CStep == CInv /\ [ContainerNext]_containerVars => CInv'
<1> SUFFICES ASSUME CInv, [ContainerNext]_containerVars PROVE CInv'
  OBVIOUS
<1>1. ASSUME file' = file PROVE Usable' = Usable
  BY <1>1 DEF Usable
<1>2. Packed' = Packed
  OBVIOUS
<1>3. CASE Pack
  <2>1. file.size = 0 /\ file' = Packed /\ UNCHANGED <<spoiled, inspected, opened>>
    BY <1>3 DEF Pack
  <2>2. inspected = "none" /\ opened = "none" /\ spoiled \in BOOLEAN
    BY <2>1 DEF CInv
  <2>3. Shaped(file')
    BY <2>1, PackedShaped
  <2>4. file'.size # 0
    BY <2>1, PackedIs, TensorsLaid
  <2> QED
    BY <1>2, <2>1, <2>2, <2>3, <2>4 DEF CInv
<1>4. CASE Spoil
  <2>1. /\ file.size # 0 /\ inspected = "none" /\ opened = "none"
        /\ spoiled' = TRUE /\ UNCHANGED <<inspected, opened>>
    BY <1>4 DEF Spoil
  <2>2. PICK f \in SpoiledFiles : file' \in {f, Coherent(f)}
    BY <1>4 DEF Spoil
  <2>3. Shaped(file)
    BY <2>1 DEF CInv
  <2>4. Shaped(f)
    BY <2>3, FileChanged
  <2>5. Shaped(file')
    BY <2>2, <2>4, CoherentShaped
  <2> QED
    BY <2>1, <2>5 DEF CInv
<1>5. CASE InspectContainer
  <2>1. /\ file.size # 0 /\ UNCHANGED <<file, spoiled, opened>>
        /\ inspected' = IF inspect THEN "pass" ELSE "failed"
    BY <1>5 DEF InspectContainer
  <2>2. Shaped(file)
    BY <2>1 DEF CInv
  <2>3. inspect <=> file = Packed
    BY <2>2, InspectTells, PackedPasses
  <2>4. Usable' = Usable
    BY <1>1, <2>1
  <2> QED
    BY <1>2, <2>1, <2>2, <2>3, <2>4 DEF CInv
<1>6. CASE Open
  <2>1. /\ file.size # 0 /\ UNCHANGED <<file, spoiled, inspected>>
        /\ opened' = IF open_authenticated THEN "ok" ELSE "error"
    BY <1>6 DEF Open
  <2>2. Shaped(file)
    BY <2>1 DEF CInv
  <2>3. open_authenticated => Usable
    BY <2>2, OpenTells
  <2>4. file = Packed => open_authenticated
    BY PackedPasses
  <2>5. Usable' = Usable
    BY <1>1, <2>1
  <2> QED
    BY <1>2, <2>1, <2>2, <2>3, <2>4, <2>5 DEF CInv
<1>7. CASE UNCHANGED containerVars
  <2>1. UNCHANGED <<file, spoiled, inspected, opened>>
    BY <1>7 DEF containerVars
  <2>2. Usable' = Usable
    BY <1>1, <2>1
  <2> QED
    BY <1>2, <2>1, <2>2 DEF CInv
<1> QED
  BY <1>3, <1>4, <1>5, <1>6, <1>7 DEF ContainerNext

\* The invariant holds always.
THEOREM ContainerInvariance == ContainerSpec => []CInv
  BY CInit, CStep, PTL DEF ContainerSpec

\* For any source: inspect passes what pack wrote and nothing else, whatever one
\* place of the file was changed and whether or not its digests fit; and nothing
\* that pack wrote is refused by inspect or by open_authenticated.
THEOREM InspectedIsExact == ContainerSpec => []InspectedIsPacked
<1>1. CInv => InspectedIsPacked
  <2> SUFFICES ASSUME CInv PROVE InspectedIsPacked
    OBVIOUS
  <2>1. inspected = "failed" \/ opened = "error" => file.size # 0 /\ file # Packed
    BY DEF CInv
  <2>2. inspected = "failed" \/ opened = "error" => spoiled
    BY <2>1 DEF CInv
  <2>3. inspected = "pass" => file = Packed
    BY DEF CInv
  <2> QED
    BY <2>2, <2>3 DEF InspectedIsPacked
<1> QED
  BY <1>1, ContainerInvariance, PTL

\* For any source: a container that open_authenticated accepts has its tensors
\* in bounds and apart, and the packed tokens, types and merges, although the
\* runtime hashes neither the sections nor the tensor data.
THEOREM OpenedIsBounded == ContainerSpec => []OpenedIsUsable
<1>1. CInv => OpenedIsUsable
  BY DEF CInv, OpenedIsUsable, Usable
<1> QED
  BY <1>1, ContainerInvariance, PTL

=============================================================================
