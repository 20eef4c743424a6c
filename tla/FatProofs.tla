----------------------------- MODULE FatProofs -----------------------------
(***************************************************************************)
(* Proofs about the FAT16 image, for any cluster size, any size of the     *)
(* data area and of the directories, and any sizes of the files.           *)
(*                                                                         *)
(* The layout is a recursion over the files: FirstIs gives it a function,  *)
(* ChainsApart its order.  From there one part goes from the inspection to *)
(* the driver (AcceptedReads, AcceptedHolds), the other from the builder   *)
(* to the inspection (BuiltIsAccepted); FatInv ties them to the behaviour. *)
(***************************************************************************)
EXTENDS FatImage, ContainerProofs

-----------------------------------------------------------------------------
(* The layout of the FAT image.                                             *)

\* The files, three or six.
LEMMA FilesAre ==
    /\ Len(Files) = (IF attached THEN 6 ELSE 3)
    /\ Files[1] = EFI /\ Files[2] = JSN /\ Files[3] = PBT
    /\ attached => Files[4] = "LICENSE" /\ Files[5] = "SOURCE.TGZ" /\ Files[6] = "3RDPARTY.TXT"
    /\ \A i \in 1 .. Len(Files) : Files[i] \in AllFiles
<1>1. DISTRIBUTION[1] = "LICENSE" /\ DISTRIBUTION[2] = "SOURCE.TGZ" /\ DISTRIBUTION[3] = "3RDPARTY.TXT"
      /\ Len(DISTRIBUTION) = 3
  BY DEF DISTRIBUTION
<1>2. AllFiles = {EFI, JSN, PBT, "LICENSE", "SOURCE.TGZ", "3RDPARTY.TXT"}
  BY <1>1 DEF AllFiles
<1>3. CASE attached
  <2> DEFINE a == <<EFI, JSN, PBT>>
  <2>1. Files = a \o DISTRIBUTION
    BY <1>3 DEF Files
  <2>2. a \in Seq(AllFiles) /\ Len(a) = 3 /\ a[1] = EFI /\ a[2] = JSN /\ a[3] = PBT
    BY <1>2
  <2>3. DISTRIBUTION \in Seq(AllFiles)
    BY <1>2 DEF DISTRIBUTION
  <2> HIDE DEF a
  <2>4. /\ Files \in Seq(AllFiles) /\ Len(Files) = 6
        /\ \A i \in 1 .. 6 : Files[i] = IF i <= 3 THEN a[i] ELSE DISTRIBUTION[i - 3]
    <3>1. /\ a \o DISTRIBUTION \in Seq(AllFiles)
          /\ Len(a \o DISTRIBUTION) = Len(a) + Len(DISTRIBUTION)
          /\ \A i \in 1 .. Len(a) + Len(DISTRIBUTION) :
                (a \o DISTRIBUTION)[i] = IF i <= Len(a) THEN a[i] ELSE DISTRIBUTION[i - Len(a)]
      BY <2>2, <2>3, ConcatProperties
    <3> QED
      BY <1>1, <2>1, <2>2, <3>1
  <2>5. \A i \in 1 .. 6 : Files[i] \in AllFiles
    BY <2>4, ElementOfSeq
  <2>6. Files[4] = DISTRIBUTION[1] /\ Files[5] = DISTRIBUTION[2] /\ Files[6] = DISTRIBUTION[3]
    BY <2>4
  <2> QED
    BY <1>1, <1>3, <2>2, <2>4, <2>5, <2>6
<1>4. CASE ~attached
  <2>1. Files = <<EFI, JSN, PBT>>
    BY <1>4 DEF Files
  <2> QED
    BY <1>2, <1>4, <2>1
<1> QED
  BY <1>3, <1>4

\* A file that is not empty has clusters, and no more than its bytes.
LEMMA ClustersAre ==
    ASSUME NEW size \in Nat
    PROVE  clusters(size) \in Nat /\ (size > 0 => clusters(size) > 0)
<1>1. ClusterBytes \in Nat \ {0}
  BY FatAssumption
<1> DEFINE a == size + ClusterBytes - 1
<1>2. a \in Nat /\ (size > 0 => a >= ClusterBytes)
  BY <1>1
<1>3. a \div ClusterBytes \in Nat /\ (a >= ClusterBytes => a \div ClusterBytes > 0)
  <2> HIDE DEF a
  <2> QED
    BY <1>1, <1>2, Z3
<1> QED
  BY <1>2, <1>3 DEF clusters

\* The recursive definition of First has a function.
LEMMA FirstIs ==
    ASSUME NEW sizes \in [AllFiles -> Nat]
    PROVE  LET F == First(sizes)
           IN  /\ F \in [1 .. Len(Files) + 1 -> Nat]
               /\ F[1] = 4
               /\ \A i \in 1 .. Len(Files) :
                     F[i + 1] = F[i] + clusters(sizes[Files[i]]) + (IF i = 5 THEN 1 ELSE 0)
<1> DEFINE n == Len(Files)
           more == [i \in 1 .. n |-> clusters(sizes[Files[i]]) + (IF i = 5 THEN 1 ELSE 0)]
           step == [p \in Nat \X Nat |-> IF p[2] \in 1 .. n THEN p[1] + more[p[2]] ELSE 0]
           Is(f) == f = [i \in 1 .. n + 1 |->
                           IF i = 1 THEN 4
                           ELSE f[i - 1] + clusters(sizes[Files[i - 1]]) + (IF i = 6 THEN 1 ELSE 0)]
<1>1. n \in Nat
  BY FilesAre
<1>2. \A i \in 1 .. n : more[i] \in Nat /\ clusters(sizes[Files[i]]) \in Nat
  <2> TAKE i \in 1 .. n
  <2>1. sizes[Files[i]] \in Nat
    BY FilesAre
  <2>2. clusters(sizes[Files[i]]) \in Nat
    BY <2>1, ClustersAre
  <2> QED
    BY <2>2
<1>3. step \in [Nat \X Nat -> Nat]
  <2> HIDE DEF more, n
  <2>1. ASSUME NEW p \in Nat \X Nat
        PROVE  (IF p[2] \in 1 .. n THEN p[1] + more[p[2]] ELSE 0) \in Nat
    <3>1. p[1] \in Nat
      OBVIOUS
    <3>2. ASSUME p[2] \in 1 .. n PROVE p[1] + more[p[2]] \in Nat
      <4>1. more[p[2]] \in Nat
        BY <1>2, <3>2
      <4> QED
        BY <3>1, <4>1
    <3> QED
      BY <3>2
  <2> QED
    BY <2>1
<1>4. PICK f : Runs(f, 4, step, n + 1) /\ f \in [1 .. n + 1 -> Nat]
  <2> HIDE DEF step, n
  <2> QED
    BY <1>1, <1>3, RunExists
<1>5. ASSUME NEW i \in 1 .. n + 1, i # 1
      PROVE  /\ i - 1 \in 1 .. n /\ f[i - 1] \in Nat
             /\ more[i - 1] = clusters(sizes[Files[i - 1]]) + (IF i = 6 THEN 1 ELSE 0)
  <2> DEFINE b == i - 1
  <2>1. b \in 1 .. n /\ b \in 1 .. n + 1 /\ (i = 6 <=> b = 5)
    <3> HIDE DEF n
    <3> QED
      BY <1>1, <1>5
  <2> HIDE DEF b
  <2>2. more[b] = clusters(sizes[Files[b]]) + (IF b = 5 THEN 1 ELSE 0)
    BY <2>1
  <2>3. f[b] \in Nat
    BY <1>4, <2>1
  <2> QED
    BY <2>1, <2>2, <2>3 DEF b
<1>6. ASSUME NEW i \in 1 .. n + 1
      PROVE  f[i] = IF i = 1 THEN 4
                    ELSE f[i - 1] + clusters(sizes[Files[i - 1]]) + (IF i = 6 THEN 1 ELSE 0)
  <2>1. f[i] = IF i = 1 THEN 4 ELSE step[<<f[i - 1], i - 1>>]
    <3> HIDE DEF step, n
    <3> QED
      BY <1>4 DEF Runs
  <2>2. ASSUME i # 1
        PROVE  step[<<f[i - 1], i - 1>>] = f[i - 1] + clusters(sizes[Files[i - 1]]) + (IF i = 6 THEN 1 ELSE 0)
    <3> DEFINE a == f[i - 1]
               b == i - 1
    <3>1. b \in 1 .. n /\ a \in Nat /\ more[b] = clusters(sizes[Files[b]]) + (IF i = 6 THEN 1 ELSE 0)
      BY <1>5, <2>2
    <3>2. b \in Nat
      <4> HIDE DEF n, b
      <4> QED
        BY <1>1, <3>1
    <3> HIDE DEF a, b, more
    <3>3. step[<<a, b>>] = a + more[b]
      BY <3>1, <3>2
    <3>4. more[b] \in Nat /\ clusters(sizes[Files[b]]) \in Nat
      BY <1>2, <3>1
    <3> DEFINE x == clusters(sizes[Files[b]])
               y == IF i = 6 THEN 1 ELSE 0
    <3>5. x \in Nat /\ y \in Nat /\ more[b] = x + y
      BY <3>1, <3>4
    <3> HIDE DEF x, y, step
    <3>6. step[<<a, b>>] = a + x + y
      BY <3>1, <3>3, <3>5
    <3> QED
      BY <3>6 DEF a, b, x, y
  <2> QED
    BY <2>1, <2>2
<1>7. Is(f)
  <2>1. f = [i \in 1 .. n + 1 |-> f[i]]
    BY <1>4
  <2> QED
    BY <1>6, <2>1
<1> DEFINE F == First(sizes)
<1>8. F = CHOOSE g : Is(g)
  BY DEF First
<1>9. Is(F)
  <2> HIDE DEF Is, F
  <2> QED
    BY <1>7, <1>8
<1> DEFINE cl == [i \in 1 .. n |-> clusters(sizes[Files[i]])]
<1> HIDE DEF F, n
<1>10. F = [i \in 1 .. n + 1 |-> IF i = 1 THEN 4
                           ELSE F[i - 1] + clusters(sizes[Files[i - 1]]) + (IF i = 6 THEN 1 ELSE 0)]
  BY <1>9
<1>11. F[1] = 4
  BY <1>1, <1>10
<1>12. ASSUME NEW i \in 1 .. n
       PROVE  F[i + 1] = F[i] + clusters(sizes[Files[i]]) + (IF i = 5 THEN 1 ELSE 0)
  <2>1. i + 1 \in 1 .. n + 1 /\ i + 1 # 1 /\ (i + 1) - 1 = i /\ (i + 1 = 6 <=> i = 5)
    BY <1>1
  <2> QED
    BY <1>10, <2>1
<1>13. \A i \in 1 .. n + 1 : F[i] \in Nat
  <2> DEFINE S == {m \in Nat : m + 1 \in 1 .. n + 1 => F[m + 1] \in Nat}
  <2>1. 0 \in S
    BY <1>11
  <2>2. ASSUME NEW m \in Nat, m \in S PROVE m + 1 \in S
    <3> SUFFICES ASSUME (m + 1) + 1 \in 1 .. n + 1 PROVE F[(m + 1) + 1] \in Nat
      BY <1>1
    <3> DEFINE k == m + 1
    <3>1. k \in 1 .. n /\ F[k] \in Nat
      BY <1>1, <2>2
    <3> HIDE DEF k
    <3>2. clusters(sizes[Files[k]]) \in Nat
      BY <1>2, <3>1
    <3>3. F[k + 1] \in Nat
      BY <1>12, <3>1, <3>2
    <3> QED
      BY <3>3 DEF k
  <2> HIDE DEF S
  <2>3. Nat \subseteq S
    BY <2>1, <2>2, SetInduction
  <2>4. ASSUME NEW i \in 1 .. n + 1 PROVE F[i] \in Nat
    <3>1. i - 1 \in Nat /\ (i - 1) + 1 = i
      BY <1>1
    <3>2. i - 1 \in S
      BY <2>3, <3>1
    <3> QED
      BY <3>1, <3>2 DEF S
  <2> QED
    BY <2>4
<1>14. F \in [1 .. n + 1 -> Nat]
  BY <1>10, <1>13
<1> QED
  BY <1>11, <1>12, <1>14 DEF F, n

-----------------------------------------------------------------------------
(* Directories.                                                             *)

LEMMA DirectoryIs ==
    ASSUME NEW rows
    PROVE  /\ Directory(rows).kind = "dir"
           /\ \A k \in 1 .. Slots :
                 Directory(rows).rows[k] = IF k <= Len(rows) THEN rows[k] ELSE ZeroRow
  BY DEF Directory

LEMMA EntryIs ==
    ASSUME NEW name, NEW first, NEW size
    PROVE  /\ entry(name, first, size).name = name /\ entry(name, first, size).first = first
           /\ entry(name, first, size).size = size
  BY DEF entry

\* A name that one row has is found there.
LEMMA FindIs ==
    ASSUME NEW dir, NEW name, NEW k \in 1 .. Slots, dir.kind = "dir", dir.rows[k].name = name,
           \A j \in 1 .. Slots : dir.rows[j].name = name => j = k
    PROVE  Find(dir, name) = dir.rows[k]
<1> DEFINE c == CHOOSE j \in 1 .. Slots : dir.rows[j].name = name
<1>1. c \in 1 .. Slots /\ dir.rows[c].name = name
  OBVIOUS
<1>2. c = k
  <2> HIDE DEF c
  <2> QED
    BY <1>1
<1>3. Find(dir, name) = dir.rows[c]
  BY DEF Find
<1> HIDE DEF c
<1> QED
  BY <1>2, <1>3

\* The root of a canonical image: two rows that are fixed, one or four that
\* describe files, and zeros.
LEMMA RootIs ==
    ASSUME SystemIsCanonical(image)
    PROVE  /\ image.root.kind = "dir"
           /\ image.root.rows[1] = entry("PROMPTBOOT", 0, 0)
           /\ image.root.rows[2] = entry("EFI/", 2, 0)
           /\ image.root.rows[3].name = PBT
           /\ \A k \in 1 .. Slots : k > (IF attached THEN 6 ELSE 3) => image.root.rows[k] = ZeroRow
<1> DEFINE m == IF attached THEN 4 ELSE 1
           a == <<entry("PROMPTBOOT", 0, 0), entry("EFI/", 2, 0)>>
           b == [k \in 1 .. m |-> image.root.rows[k + 2]]
           S == {a[1], a[2]} \cup {b[k] : k \in 1 .. m}
<1>1. image.root = Directory(a \o b) /\ image.root.rows[3].name = PBT
  BY DEF SystemIsCanonical, Loosely
<1>2. m \in Nat /\ m + 2 = (IF attached THEN 6 ELSE 3)
  OBVIOUS
<1>3. a \in Seq(S) /\ Len(a) = 2 /\ a[1] = entry("PROMPTBOOT", 0, 0) /\ a[2] = entry("EFI/", 2, 0)
  OBVIOUS
<1>4. b \in Seq(S) /\ Len(b) = m
  <2> HIDE DEF m, a
  <2>1. b \in [1 .. m -> S]
    OBVIOUS
  <2> HIDE DEF b, S
  <2> QED
    BY <1>2, <2>1
<1> HIDE DEF a, b, S
<1>5. /\ Len(a \o b) = m + 2
      /\ (a \o b)[1] = a[1] /\ (a \o b)[2] = a[2]
  <2>1. /\ Len(a \o b) = Len(a) + Len(b)
        /\ \A i \in 1 .. Len(a) + Len(b) : (a \o b)[i] = IF i <= Len(a) THEN a[i] ELSE b[i - Len(a)]
    BY <1>3, <1>4, ConcatProperties
  <2> QED
    BY <1>2, <1>3, <1>4, <2>1
<1> DEFINE rows == a \o b
<1>6. image.root = Directory(rows) /\ Len(rows) = m + 2 /\ rows[1] = a[1] /\ rows[2] = a[2]
  BY <1>1, <1>5
<1> HIDE DEF rows, m
<1>0. Slots \in Nat /\ Slots >= 6
  BY FatAssumption
<1>7. 1 \in 1 .. Slots /\ 2 \in 1 .. Slots /\ 1 <= m + 2 /\ 2 <= m + 2 /\ Slots \in Nat
  BY <1>0, <1>2
<1>8. /\ image.root.kind = "dir"
      /\ \A k \in 1 .. Slots : image.root.rows[k] = IF k <= m + 2 THEN rows[k] ELSE ZeroRow
  BY <1>6, DirectoryIs
<1>9. \A k \in 1 .. Slots : k > m + 2 => image.root.rows[k] = ZeroRow
  BY <1>2, <1>7, <1>8
<1> QED
  BY <1>1, <1>2, <1>3, <1>6, <1>7, <1>8, <1>9

\* The directories EFI and EFI/BOOT of a canonical image.
LEMMA BootIs ==
    ASSUME SystemIsCanonical(image)
    PROVE  /\ image.data[2].kind = "dir" /\ image.data[3].kind = "dir"
           /\ image.data[2].rows[1] = entry("./", 2, 0) /\ image.data[2].rows[2] = entry("../", 0, 0)
           /\ image.data[2].rows[3] = entry("BOOT/", 3, 0)
           /\ \A k \in 1 .. Slots : k > 3 => image.data[2].rows[k] = ZeroRow
           /\ image.data[3].rows[1] = entry("./", 3, 0) /\ image.data[3].rows[2] = entry("../", 2, 0)
           /\ image.data[3].rows[3].name = EFI /\ image.data[3].rows[4].name = JSN
           /\ \A k \in 1 .. Slots : k > 4 => image.data[3].rows[k] = ZeroRow
<1> DEFINE rows == image.data[3].rows
           r == <<entry("./", 3, 0), entry("../", 2, 0), rows[3], rows[4]>>
<1>1. /\ image.data[2] = Directory(EfiRows) /\ image.data[3] = Directory(r)
      /\ Exactly(rows[3], EFI) /\ Exactly(rows[4], JSN)
  BY DEF SystemIsCanonical
<1>0. Slots \in Nat /\ Slots >= 6
  BY FatAssumption
<1>2. Slots \in Nat /\ \A k \in 1 .. 4 : k \in 1 .. Slots
  BY <1>0
<1>3. rows[3].name = EFI /\ rows[4].name = JSN
  BY <1>1, EntryIs DEF Exactly
<1>4. Len(r) = 4 /\ r[1] = entry("./", 3, 0) /\ r[2] = entry("../", 2, 0)
  OBVIOUS
<1>5. /\ Len(EfiRows) = 3 /\ EfiRows[1] = entry("./", 2, 0) /\ EfiRows[2] = entry("../", 0, 0)
      /\ EfiRows[3] = entry("BOOT/", 3, 0)
  BY DEF EfiRows
<1> HIDE DEF r, rows
<1>6. /\ image.data[3].kind = "dir"
      /\ \A k \in 1 .. Slots : image.data[3].rows[k] = IF k <= 4 THEN r[k] ELSE ZeroRow
  <2>1. /\ Directory(r).kind = "dir"
        /\ \A k \in 1 .. Slots : Directory(r).rows[k] = IF k <= Len(r) THEN r[k] ELSE ZeroRow
    BY DirectoryIs
  <2> QED
    BY <1>1, <1>4, <2>1
<1>7. /\ image.data[2].kind = "dir"
      /\ \A k \in 1 .. Slots : image.data[2].rows[k] = IF k <= 3 THEN EfiRows[k] ELSE ZeroRow
  <2>1. /\ Directory(EfiRows).kind = "dir"
        /\ \A k \in 1 .. Slots : Directory(EfiRows).rows[k] = IF k <= Len(EfiRows) THEN EfiRows[k] ELSE ZeroRow
    BY DirectoryIs
  <2> QED
    BY <1>1, <1>5, <2>1
<1>8. 1 \in 1 .. Slots /\ 2 \in 1 .. Slots /\ 3 \in 1 .. Slots
  BY <1>2
<1>9. ASSUME NEW k \in 1 .. Slots
      PROVE  /\ k > 3 => image.data[2].rows[k] = ZeroRow
             /\ k > 4 => image.data[3].rows[k] = ZeroRow
  <2>1. k \in Nat
    BY <1>2
  <2>2. (k > 3 => ~(k <= 3)) /\ (k > 4 => ~(k <= 4))
    BY <2>1
  <2> QED
    BY <1>6, <1>7, <2>2
<1>10. /\ image.data[3].rows[1] = r[1] /\ image.data[3].rows[2] = r[2]
       /\ image.data[2].rows[1] = EfiRows[1] /\ image.data[2].rows[2] = EfiRows[2]
       /\ image.data[2].rows[3] = EfiRows[3]
  <2>1. 1 <= 3 /\ 2 <= 3 /\ 3 <= 3 /\ 1 <= 4 /\ 2 <= 4
    OBVIOUS
  <2> QED
    BY <1>6, <1>7, <1>8, <2>1
<1> QED
  BY <1>3, <1>4, <1>5, <1>6, <1>7, <1>9, <1>10 DEF rows

-----------------------------------------------------------------------------
(* A canonical image gives a FAT driver the files.                          *)

\* Following consecutive entries of a table.
LEMMA WalkIs ==
    ASSUME NEW fat, NEW first \in Nat, NEW n \in Nat,
           \A k \in 0 .. n - 1 : first + k \in DOMAIN fat,
           \A k \in 0 .. n - 2 : fat[first + k] = first + k + 1
    PROVE  \A k \in 1 .. n : Walk(fat, first, n)[k] = first + (k - 1)
<1> DEFINE Is(w) == w = [k \in 1 .. n |-> IF k = 1 THEN first
                                ELSE IF w[k - 1] \in DOMAIN fat THEN fat[w[k - 1]] ELSE 0]
           v == [k \in 1 .. n |-> first + (k - 1)]
           w == Walk(fat, first, n)
<1>1. ASSUME NEW k \in 1 .. n
      PROVE  v[k] = IF k = 1 THEN first ELSE IF v[k - 1] \in DOMAIN fat THEN fat[v[k - 1]] ELSE 0
  <2>1. CASE k = 1
    BY <2>1
  <2>2. CASE k # 1
    <3>1. k - 1 \in 1 .. n /\ k - 2 \in 0 .. n - 2 /\ k - 2 \in 0 .. n - 1 /\ (k - 1) - 1 = k - 2
      BY <2>2
    <3>2. v[k - 1] = first + (k - 2) /\ v[k] = first + (k - 1)
      BY <3>1
    <3>3. first + (k - 2) \in DOMAIN fat /\ fat[first + (k - 2)] = first + (k - 2) + 1
      BY <3>1
    <3>4. first + (k - 2) + 1 = first + (k - 1)
      OBVIOUS
    <3> HIDE DEF v
    <3> QED
      BY <2>2, <3>2, <3>3, <3>4
  <2> QED
    BY <2>1, <2>2
<1>2. Is(v)
  <2>1. v = [k \in 1 .. n |-> v[k]]
    OBVIOUS
  <2> HIDE DEF v
  <2> QED
    BY <1>1, <2>1
<1>3. w = CHOOSE x : Is(x)
  BY DEF Walk
<1>4. Is(w)
  <2> HIDE DEF Is, v, w
  <2> QED
    BY <1>2, <1>3
<1> HIDE DEF w
<1>5. \A k \in 1 .. n : w[k] = IF k = 1 THEN first
                               ELSE IF w[k - 1] \in DOMAIN fat THEN fat[w[k - 1]] ELSE 0
  BY <1>4
<1> HIDE DEF Is, v
<1> DEFINE S == {m \in Nat : m + 1 \in 1 .. n => w[m + 1] = first + m}
<1>6. 0 \in S
  <2>1. 1 \in 1 .. n => w[1] = first
    BY <1>5
  <2> QED
    BY <2>1
<1>7. ASSUME NEW m \in Nat, m \in S PROVE m + 1 \in S
  <2> SUFFICES ASSUME (m + 1) + 1 \in 1 .. n PROVE w[(m + 1) + 1] = first + (m + 1)
    OBVIOUS
  <2>1. m + 1 \in 1 .. n /\ m \in 0 .. n - 1 /\ m \in 0 .. n - 2
    OBVIOUS
  <2>2. w[m + 1] = first + m
    BY <1>7, <2>1
  <2>3. first + m \in DOMAIN fat /\ fat[first + m] = first + m + 1
    BY <2>1
  <2> DEFINE k == (m + 1) + 1
  <2>4. k \in 1 .. n /\ k # 1 /\ k - 1 = m + 1
    OBVIOUS
  <2> HIDE DEF k
  <2>5. w[k] = first + m + 1
    BY <1>5, <2>2, <2>3, <2>4
  <2>6. first + m + 1 = first + (m + 1)
    OBVIOUS
  <2> QED
    BY <2>5, <2>6 DEF k
<1> HIDE DEF S
<1>8. Nat \subseteq S
  BY <1>6, <1>7, SetInduction
<1>9. ASSUME NEW k \in 1 .. n PROVE w[k] = first + (k - 1)
  <2>1. k - 1 \in Nat /\ (k - 1) + 1 = k
    OBVIOUS
  <2>2. k - 1 \in S
    BY <1>8, <2>1
  <2> QED
    BY <2>1, <2>2 DEF S
<1> QED
  BY <1>9 DEF w

\* What inspect_image has established of an entry.
Good(e, name) ==
    /\ e.first \in Nat /\ e.size = source[name].size /\ clusters(e.size) \in Nat \ {0}
    /\ file_chain(image.fat[1], e.first, e.size)
    /\ Matches(image, e, name)

\* What a driver reads.
Reads(e, name, copy) ==
    LET n == clusters(e.size)
        w == Walk(image.fat[copy], e.first, n)
    IN  /\ e.size = source[name].size
        /\ \A k \in 1 .. n : Rows(image, w[k]) = Part(name, source[name], k - 1)
        /\ image.fat[copy][w[n]] = U16Max

LEMMA GoodReads ==
    ASSUME NEW e, NEW name, Good(e, name), NEW copy \in {1, 2},
           image.fat[1] = image.fat[2], DOMAIN image.fat[1] = 0 .. U16Max
    PROVE  Reads(e, name, copy)
<1> DEFINE n == clusters(e.size)
           fat == image.fat[copy]
           first == e.first
<1>1. first \in Nat /\ n \in Nat \ {0} /\ e.size = source[name].size
  BY DEF Good
<1>2. fat = image.fat[1] /\ DOMAIN fat = 0 .. U16Max
  OBVIOUS
<1>3. \A k \in 0 .. n - 1 : /\ first + k \in 2 .. U16Max
                            /\ fat[first + k] = IF k = n - 1 THEN U16Max ELSE first + k + 1
  BY <1>2 DEF Good, file_chain
<1>4. \A k \in 0 .. n - 1 : /\ first + k \in DOMAIN image.data
                            /\ image.data[first + k] = Part(name, source[name], k)
  BY DEF Good, Matches
<1> DEFINE w == Walk(fat, first, n)
<1>5. U16Max \in Nat
  BY FatAssumption
<1> HIDE DEF n, fat, first
<1>6. \A k \in 1 .. n : w[k] = first + (k - 1)
  <2>1. \A k \in 0 .. n - 1 : first + k \in DOMAIN fat
    <3> TAKE k \in 0 .. n - 1
    <3>1. first + k \in 2 .. U16Max
      BY <1>3
    <3> QED
      BY <1>2, <1>5, <3>1
  <2>2. \A k \in 0 .. n - 2 : fat[first + k] = first + k + 1
    <3> TAKE k \in 0 .. n - 2
    <3>1. k \in 0 .. n - 1 /\ k # n - 1
      BY <1>1
    <3> QED
      BY <1>3, <3>1
  <2> QED
    BY <1>1, <2>1, <2>2, WalkIs
<1> HIDE DEF w
<1>7. ASSUME NEW k \in 1 .. n PROVE Rows(image, w[k]) = Part(name, source[name], k - 1)
  <2>1. k - 1 \in 0 .. n - 1
    BY <1>1
  <2> QED
    BY <1>4, <1>6, <2>1 DEF Rows
<1>8. fat[w[n]] = U16Max
  <2>1. n \in 1 .. n /\ n - 1 \in 0 .. n - 1
    BY <1>1
  <2> QED
    BY <1>3, <1>6, <2>1
<1> QED
  BY <1>1, <1>7, <1>8 DEF Reads, n, fat, first, w

\* Its clusters are allocated and hold data.
LEMMA GoodHolds ==
    ASSUME NEW e, NEW name, Good(e, name), NEW c \in e.first .. Behind(e) - 1
    PROVE  image.fat[1][c] # 0 /\ Rows(image, c) # Zero
<1> DEFINE n == clusters(e.size)
           first == e.first
           k == c - first
<1>1. first \in Nat /\ n \in Nat \ {0}
  BY DEF Good
<1>2. k \in 0 .. n - 1 /\ first + k = c
  <2>1. Behind(e) = first + n
    BY DEF Behind
  <2>2. c \in first .. (first + n) - 1
    BY <2>1
  <2> HIDE DEF first, n
  <2> QED
    BY <1>1, <2>2
<1>3. /\ first + k \in 2 .. U16Max
      /\ image.fat[1][first + k] = IF k = n - 1 THEN U16Max ELSE first + k + 1
  <2> HIDE DEF k
  <2> QED
    BY <1>2 DEF Good, file_chain
<1>4. /\ first + k \in DOMAIN image.data
      /\ image.data[first + k] = Part(name, source[name], k)
  <2> HIDE DEF k
  <2> QED
    BY <1>2 DEF Good, Matches
<1>5. U16Max \in Nat /\ U16Max >= 5
  <2>1. U16Max \in Nat /\ Limit \in 5 .. U16Max
    BY FatAssumption
  <2> QED
    BY <2>1
<1>6. Part(name, source[name], k).kind = "part" /\ Zero.kind = "zero"
  BY DEF Part, Zero
<1> HIDE DEF k, n, first
<1>7. Rows(image, c) = Part(name, source[name], k)
  BY <1>2, <1>4 DEF Rows
<1>8. Rows(image, c) # Zero
  BY <1>6, <1>7
<1>9. image.fat[1][c] # 0
  BY <1>1, <1>2, <1>3, <1>5
<1> QED
  BY <1>8, <1>9

SourceTyped == source \in [AllFiles -> [size : Nat, version : Nat]]

\* The entries of the boot files: in their places, one behind the other.
LEMMA BootFilesGood ==
    ASSUME SourceTyped, FilesAreCanonical(image)
    PROVE  /\ Good(image.data[3].rows[3], EFI) /\ Good(image.data[3].rows[4], JSN)
           /\ Good(image.root.rows[3], PBT)
           /\ Behind(image.root.rows[3]) \in Nat
<1> DEFINE efi == image.data[3].rows[3]
           jsn == image.data[3].rows[4]
           pbt == image.root.rows[3]
<1>1. /\ file_chain(image.fat[1], efi.first, efi.size)
      /\ file_chain(image.fat[1], jsn.first, jsn.size)
      /\ efi.size > 0 /\ jsn.size > 0
      /\ efi.first = 4 /\ jsn.first = Behind(efi)
      /\ Matches(image, jsn, JSN) /\ Matches(image, efi, EFI)
      /\ pbt.size = ModelBytes /\ pbt.first = Behind(jsn)
      /\ file_chain(image.fat[1], pbt.first, pbt.size)
      /\ Matches(image, pbt, PBT)
  BY DEF FilesAreCanonical
<1> HIDE DEF efi, jsn, pbt
<1>2. \A name \in AllFiles : source[name].size \in Nat
  BY DEF SourceTyped
<1>3. EFI \in AllFiles /\ JSN \in AllFiles /\ PBT \in AllFiles
  BY DEF AllFiles
<1>4. efi.size = source[EFI].size /\ jsn.size = source[JSN].size /\ pbt.size = source[PBT].size
  BY <1>1 DEF Matches
<1>5. efi.size \in Nat /\ jsn.size \in Nat /\ pbt.size \in Nat /\ pbt.size > 0
  <2>1. ModelBytes \in Nat \ {0}
    BY FatAssumption
  <2> QED
    BY <1>1, <1>2, <1>3, <1>4, <2>1
<1>6. /\ clusters(efi.size) \in Nat \ {0} /\ clusters(jsn.size) \in Nat \ {0}
      /\ clusters(pbt.size) \in Nat \ {0}
  <2>1. clusters(efi.size) \in Nat /\ clusters(efi.size) > 0
    BY <1>1, <1>5, ClustersAre
  <2>2. clusters(jsn.size) \in Nat /\ clusters(jsn.size) > 0
    BY <1>1, <1>5, ClustersAre
  <2>3. clusters(pbt.size) \in Nat /\ clusters(pbt.size) > 0
    BY <1>5, ClustersAre
  <2> QED
    BY <2>1, <2>2, <2>3
<1>7. efi.first \in Nat /\ jsn.first \in Nat /\ pbt.first \in Nat /\ Behind(pbt) \in Nat
  BY <1>1, <1>6 DEF Behind
<1>8. Good(efi, EFI) /\ Good(jsn, JSN) /\ Good(pbt, PBT)
  BY <1>1, <1>4, <1>6, <1>7 DEF Good
<1> QED
  BY <1>7, <1>8 DEF efi, jsn, pbt

\* The entries of the distribution.
LEMMA DistributionGood ==
    ASSUME SourceTyped, FilesAreCanonical(image), DistributionIsCanonical(image)
    PROVE  LET root == image.root.rows
               dir == Rows(image, root[6].first)
           IN  /\ root[4].name = "LICENSE" /\ root[5].name = "SOURCE.TGZ" /\ root[6].name = "LICENSES/"
               /\ root[6].first \in Nat /\ dir.kind = "dir"
               /\ dir.rows[1] = entry("./", root[6].first, 0) /\ dir.rows[2] = entry("../", 0, 0)
               /\ dir.rows[3].name = "3RDPARTY.TXT"
               /\ \A k \in 1 .. Slots : k > 3 => dir.rows[k] = ZeroRow
               /\ Good(root[4], "LICENSE") /\ Good(root[5], "SOURCE.TGZ")
               /\ Good(dir.rows[3], "3RDPARTY.TXT")
<1> DEFINE root == image.root.rows
           licenses == root[6]
           dir == Rows(image, licenses.first)
           e == [i \in 1 .. Len(DISTRIBUTION) |-> IF i <= 2 THEN root[i + 3] ELSE dir.rows[i]]
           next == [i \in 1 .. Len(DISTRIBUTION) |->
                    IF i = 1 THEN Behind(root[3])
                    ELSE IF i = 3 THEN licenses.first + 1 ELSE Behind(e[i - 1])]
           r == <<entry("./", licenses.first, 0), entry("../", 0, 0), dir.rows[3]>>
<1>1. /\ licenses.name = "LICENSES/" /\ dir.kind = "dir"
      /\ licenses.first = Behind(root[3]) + clusters(e[1].size) + clusters(e[2].size)
      /\ dir = Directory(r)
      /\ \A i \in 1 .. Len(DISTRIBUTION) :
              /\ e[i] = entry(DISTRIBUTION[i], next[i], e[i].size)
              /\ e[i].size > 0
              /\ file_chain(image.fat[1], e[i].first, e[i].size)
              /\ Matches(image, e[i], DISTRIBUTION[i])
  BY DEF DistributionIsCanonical, Loosely
<1>2. /\ Len(DISTRIBUTION) = 3 /\ DISTRIBUTION[1] = "LICENSE" /\ DISTRIBUTION[2] = "SOURCE.TGZ"
      /\ DISTRIBUTION[3] = "3RDPARTY.TXT" /\ \A i \in 1 .. 3 : DISTRIBUTION[i] \in AllFiles
  BY DEF DISTRIBUTION, AllFiles
<1>3. e[1] = root[4] /\ e[2] = root[5] /\ e[3] = dir.rows[3]
  <2> HIDE DEF root, dir
  <2> QED
    BY <1>2
<1>4. next[1] = Behind(root[3]) /\ next[2] = Behind(e[1]) /\ next[3] = licenses.first + 1
  <2> HIDE DEF root, dir, licenses, e
  <2> QED
    BY <1>2
<1>5. Len(r) = 3 /\ r[1] = entry("./", licenses.first, 0) /\ r[2] = entry("../", 0, 0)
  OBVIOUS
<1> HIDE DEF root, licenses, dir, e, next, r
<1>6. \A i \in 1 .. 3 : source[DISTRIBUTION[i]].size \in Nat
  BY <1>2 DEF SourceTyped
<1>7. Behind(root[3]) \in Nat
  BY BootFilesGood DEF root
<1>8. ASSUME NEW i \in 1 .. 3
      PROVE  /\ e[i].name = DISTRIBUTION[i] /\ e[i].first = next[i]
             /\ e[i].size = source[DISTRIBUTION[i]].size /\ e[i].size \in Nat /\ e[i].size > 0
             /\ clusters(e[i].size) \in Nat \ {0}
             /\ file_chain(image.fat[1], e[i].first, e[i].size)
             /\ Matches(image, e[i], DISTRIBUTION[i])
  <2>1. /\ e[i] = entry(DISTRIBUTION[i], next[i], e[i].size) /\ e[i].size > 0
        /\ file_chain(image.fat[1], e[i].first, e[i].size)
        /\ Matches(image, e[i], DISTRIBUTION[i])
    BY <1>1, <1>2
  <2>2. e[i].name = DISTRIBUTION[i] /\ e[i].first = next[i]
    BY <2>1, EntryIs
  <2>3. e[i].size = source[DISTRIBUTION[i]].size
    BY <2>1 DEF Matches
  <2>4. e[i].size \in Nat
    BY <1>6, <2>3
  <2>5. clusters(e[i].size) \in Nat /\ clusters(e[i].size) > 0
    BY <2>1, <2>4, ClustersAre
  <2> QED
    BY <2>1, <2>2, <2>3, <2>4, <2>5
<1>9. 1 \in 1 .. 3 /\ 2 \in 1 .. 3 /\ 3 \in 1 .. 3
  OBVIOUS
<1>10. licenses.first \in Nat
  BY <1>1, <1>7, <1>8, <1>9
<1>11. next[1] \in Nat /\ next[2] \in Nat /\ next[3] \in Nat
  <2>1. next[1] \in Nat /\ next[3] \in Nat
    BY <1>4, <1>7, <1>10
  <2>2. e[1].first \in Nat /\ clusters(e[1].size) \in Nat
    BY <1>8, <1>9, <2>1
  <2>3. Behind(e[1]) \in Nat
    BY <2>2 DEF Behind
  <2> QED
    BY <1>4, <2>1, <2>3
<1>12. Good(e[1], DISTRIBUTION[1]) /\ Good(e[2], DISTRIBUTION[2]) /\ Good(e[3], DISTRIBUTION[3])
  <2>1. Good(e[1], DISTRIBUTION[1])
    BY <1>8, <1>9, <1>11 DEF Good
  <2>2. Good(e[2], DISTRIBUTION[2])
    BY <1>8, <1>9, <1>11 DEF Good
  <2>3. Good(e[3], DISTRIBUTION[3])
    BY <1>8, <1>9, <1>11 DEF Good
  <2> QED
    BY <2>1, <2>2, <2>3
<1>13. root[4].name = "LICENSE" /\ root[5].name = "SOURCE.TGZ" /\ dir.rows[3].name = "3RDPARTY.TXT"
  BY <1>2, <1>3, <1>8, <1>9
<1>14. Slots \in Nat /\ Slots >= 6
  BY FatAssumption
<1>15. \A k \in 1 .. Slots : dir.rows[k] = IF k <= 3 THEN r[k] ELSE ZeroRow
  <2>1. \A k \in 1 .. Slots : Directory(r).rows[k] = IF k <= Len(r) THEN r[k] ELSE ZeroRow
    BY DirectoryIs
  <2> QED
    BY <1>1, <1>5, <2>1
<1>16. dir.rows[1] = r[1] /\ dir.rows[2] = r[2] /\ \A k \in 1 .. Slots : k > 3 => dir.rows[k] = ZeroRow
  BY <1>14, <1>15
<1> QED
  BY <1>1, <1>2, <1>3, <1>5, <1>10, <1>12, <1>13, <1>16 DEF root, licenses, dir

\* What VerdictIsExact says of an accepted image.
ReadsAll == \A i \in 1 .. Len(Files), copy \in {1, 2} : Reads(Lookup(Files[i]), Files[i], copy)

NothingElse ==
    \A c \in 2 .. U16Max, copy \in {1, 2} :
        \/ (image.fat[copy][c] # 0) = (Rows(image, c) # Zero)
        \/ attached /\ c = Find(image.root, "LICENSES/").first

\* The image has its tables and its clusters.
ImageShape ==
    /\ DOMAIN image.fat[1] = 0 .. U16Max
    /\ DOMAIN image.data = 2 .. Limit - 1

\* Where the driver finds the files.
LEMMA LookupIs ==
    ASSUME SourceTyped, ImageShape, inspect_image(image)
    PROVE  /\ Lookup(EFI) = image.data[3].rows[3] /\ Lookup(JSN) = image.data[3].rows[4]
           /\ Lookup(PBT) = image.root.rows[3]
           /\ attached => /\ Lookup("LICENSE") = image.root.rows[4]
                          /\ Lookup("SOURCE.TGZ") = image.root.rows[5]
                          /\ Find(image.root, "LICENSES/") = image.root.rows[6]
                          /\ Lookup("3RDPARTY.TXT") = Rows(image, image.root.rows[6].first).rows[3]
<1> DEFINE root == image.root
           efi == image.data[2]
           boot == image.data[3]
           n == IF attached THEN 6 ELSE 3
           dir == Rows(image, image.root.rows[6].first)
<1>0. Slots \in Nat /\ Slots >= 6
  BY FatAssumption
<1>1. SystemIsCanonical(image) /\ FilesAreCanonical(image) /\ (attached => DistributionIsCanonical(image))
  BY DEF inspect_image
<1>2. /\ root.kind = "dir" /\ root.rows[1].name = "PROMPTBOOT"
      /\ root.rows[2].name = "EFI/" /\ root.rows[2].first = 2 /\ root.rows[3].name = PBT
      /\ \A k \in 1 .. Slots : k > n => root.rows[k] = ZeroRow
  BY <1>1, RootIs, EntryIs
<1>3. /\ efi.kind = "dir" /\ boot.kind = "dir"
      /\ efi.rows[1].name = "./" /\ efi.rows[2].name = "../"
      /\ efi.rows[3].name = "BOOT/" /\ efi.rows[3].first = 3
      /\ \A k \in 1 .. Slots : k > 3 => efi.rows[k] = ZeroRow
  BY <1>1, BootIs, EntryIs
<1>4. /\ boot.rows[1].name = "./" /\ boot.rows[2].name = "../"
      /\ boot.rows[3].name = EFI /\ boot.rows[4].name = JSN
      /\ \A k \in 1 .. Slots : k > 4 => boot.rows[k] = ZeroRow
  BY <1>1, BootIs, EntryIs
<1>5. attached => /\ root.rows[4].name = "LICENSE" /\ root.rows[5].name = "SOURCE.TGZ"
                  /\ root.rows[6].name = "LICENSES/"
                  /\ dir.kind = "dir" /\ dir.rows[1].name = "./" /\ dir.rows[2].name = "../"
                  /\ dir.rows[3].name = "3RDPARTY.TXT"
                  /\ \A k \in 1 .. Slots : k > 3 => dir.rows[k] = ZeroRow
  <2> SUFFICES ASSUME attached
               PROVE  /\ root.rows[4].name = "LICENSE" /\ root.rows[5].name = "SOURCE.TGZ"
                      /\ root.rows[6].name = "LICENSES/"
                      /\ dir.kind = "dir" /\ dir.rows[1].name = "./" /\ dir.rows[2].name = "../"
                      /\ dir.rows[3].name = "3RDPARTY.TXT"
                      /\ \A k \in 1 .. Slots : k > 3 => dir.rows[k] = ZeroRow
    OBVIOUS
  <2>1. FilesAreCanonical(image) /\ DistributionIsCanonical(image)
    BY <1>1
  <2>2. /\ root.rows[4].name = "LICENSE" /\ root.rows[5].name = "SOURCE.TGZ"
        /\ root.rows[6].name = "LICENSES/" /\ dir.kind = "dir"
        /\ dir.rows[1] = entry("./", root.rows[6].first, 0) /\ dir.rows[2] = entry("../", 0, 0)
        /\ dir.rows[3].name = "3RDPARTY.TXT"
        /\ \A k \in 1 .. Slots : k > 3 => dir.rows[k] = ZeroRow
    BY <2>1, DistributionGood
  <2> HIDE DEF dir, root
  <2>3. dir.rows[1].name = "./" /\ dir.rows[2].name = "../"
    BY <2>2, EntryIs
  <2> QED
    BY <2>2, <2>3
<1>6. ZeroRow.name = "zero"
  BY EntryIs DEF ZeroRow
<1>7. Rows(image, 2) = efi /\ Rows(image, 3) = boot
  <2>0. U16Max \in Nat /\ Limit \in 5 .. U16Max
    BY FatAssumption
  <2>1. Limit >= 5 /\ Limit \in Nat
    BY <2>0
  <2>2. 2 \in DOMAIN image.data /\ 3 \in DOMAIN image.data
    BY <2>1 DEF ImageShape
  <2> QED
    BY <2>2 DEF Rows
<1> HIDE DEF root, efi, boot, dir
<1>8. \A k \in 1 .. Slots : k = 1 \/ k = 2 \/ k = 3 \/ k = 4 \/ k = 5 \/ k = 6 \/ k > 6
  BY <1>0
<1>9. 2 \in 1 .. Slots /\ 3 \in 1 .. Slots /\ 4 \in 1 .. Slots /\ 5 \in 1 .. Slots /\ 6 \in 1 .. Slots
  BY <1>0
<1>10. Find(efi, "BOOT/") = efi.rows[3]
  <2>1. \A k \in 1 .. Slots : efi.rows[k].name = "BOOT/" => k = 3
    BY <1>3, <1>6, <1>8
  <2> QED
    BY <1>3, <1>9, <2>1, FindIs
<1>11. Find(boot, EFI) = boot.rows[3] /\ Find(boot, JSN) = boot.rows[4]
  <2>1. \A k \in 1 .. Slots : boot.rows[k].name = EFI => k = 3
    BY <1>4, <1>6, <1>8 DEF EFI, JSN
  <2>2. \A k \in 1 .. Slots : boot.rows[k].name = JSN => k = 4
    BY <1>4, <1>6, <1>8 DEF EFI, JSN
  <2> QED
    BY <1>3, <1>4, <1>9, <2>1, <2>2, FindIs
<1>12. Find(root, "EFI/") = root.rows[2] /\ Find(root, PBT) = root.rows[3]
  <2>1. \A k \in 1 .. Slots : root.rows[k].name = "EFI/" => k = 2
    BY <1>2, <1>5, <1>6, <1>8 DEF PBT
  <2>2. \A k \in 1 .. Slots : root.rows[k].name = PBT => k = 3
    BY <1>2, <1>5, <1>6, <1>8 DEF PBT
  <2> QED
    BY <1>2, <1>9, <2>1, <2>2, FindIs
<1>13. attached => /\ Find(root, "LICENSE") = root.rows[4] /\ Find(root, "SOURCE.TGZ") = root.rows[5]
                   /\ Find(root, "LICENSES/") = root.rows[6]
                   /\ Find(dir, "3RDPARTY.TXT") = dir.rows[3]
  <2> SUFFICES ASSUME attached PROVE /\ Find(root, "LICENSE") = root.rows[4] /\ Find(root, "SOURCE.TGZ") = root.rows[5]
                   /\ Find(root, "LICENSES/") = root.rows[6]
                   /\ Find(dir, "3RDPARTY.TXT") = dir.rows[3]
    OBVIOUS
  <2>1. \A k \in 1 .. Slots : /\ root.rows[k].name = "LICENSE" => k = 4
                              /\ root.rows[k].name = "SOURCE.TGZ" => k = 5
                              /\ root.rows[k].name = "LICENSES/" => k = 6
    BY <1>2, <1>5, <1>6, <1>8 DEF PBT
  <2>2. \A k \in 1 .. Slots : dir.rows[k].name = "3RDPARTY.TXT" => k = 3
    BY <1>5, <1>6, <1>8
  <2>3. Find(root, "LICENSE") = root.rows[4]
    BY <1>2, <1>5, <1>9, <2>1, FindIs
  <2>4. Find(root, "SOURCE.TGZ") = root.rows[5]
    BY <1>2, <1>5, <1>9, <2>1, FindIs
  <2>5. Find(root, "LICENSES/") = root.rows[6]
    BY <1>2, <1>5, <1>9, <2>1, FindIs
  <2>6. Find(dir, "3RDPARTY.TXT") = dir.rows[3]
    BY <1>5, <1>9, <2>2, FindIs
  <2> QED
    BY <2>3, <2>4, <2>5, <2>6
<1>14. /\ Lookup(PBT) = Find(root, PBT)
       /\ Lookup("LICENSE") = Find(root, "LICENSE") /\ Lookup("SOURCE.TGZ") = Find(root, "SOURCE.TGZ")
  BY DEF Lookup, root, PBT
<1>15. /\ Lookup(EFI) = Find(Rows(image, Find(Rows(image, Find(root, "EFI/").first), "BOOT/").first), EFI)
       /\ Lookup(JSN) = Find(Rows(image, Find(Rows(image, Find(root, "EFI/").first), "BOOT/").first), JSN)
  BY DEF Lookup, root, PBT, EFI, JSN
<1>16. Lookup("3RDPARTY.TXT") = Find(Rows(image, Find(root, "LICENSES/").first), "3RDPARTY.TXT")
  BY DEF Lookup, root, PBT, EFI, JSN
<1>17. Lookup(EFI) = boot.rows[3] /\ Lookup(JSN) = boot.rows[4]
  BY <1>2, <1>3, <1>7, <1>10, <1>11, <1>12, <1>15
<1>18. attached => Lookup("3RDPARTY.TXT") = dir.rows[3]
  BY <1>13, <1>16 DEF dir, root
<1> QED
  BY <1>12, <1>13, <1>14, <1>17, <1>18 DEF root, boot, dir

\* A FAT driver reads every file of an image that inspect_image accepts.
LEMMA AcceptedReads ==
    ASSUME SourceTyped, ImageShape, inspect_image(image)
    PROVE  ReadsAll
<1>1. SystemIsCanonical(image) /\ FilesAreCanonical(image) /\ (attached => DistributionIsCanonical(image))
  BY DEF inspect_image
<1>2. image.fat[1] = image.fat[2] /\ DOMAIN image.fat[1] = 0 .. U16Max
  BY <1>1 DEF SystemIsCanonical, ImageShape
<1>3. Good(Lookup(EFI), EFI) /\ Good(Lookup(JSN), JSN) /\ Good(Lookup(PBT), PBT)
  BY <1>1, BootFilesGood, LookupIs
<1>4. attached => /\ Good(Lookup("LICENSE"), "LICENSE") /\ Good(Lookup("SOURCE.TGZ"), "SOURCE.TGZ")
                  /\ Good(Lookup("3RDPARTY.TXT"), "3RDPARTY.TXT")
  BY <1>1, DistributionGood, LookupIs
<1>5. ASSUME NEW i \in 1 .. Len(Files) PROVE Good(Lookup(Files[i]), Files[i])
  <2>1. i = 1 \/ i = 2 \/ i = 3 \/ (attached /\ (i = 4 \/ i = 5 \/ i = 6))
    BY FilesAre
  <2> QED
    BY <1>3, <1>4, <2>1, FilesAre
<1>6. ASSUME NEW i \in 1 .. Len(Files), NEW copy \in {1, 2} PROVE Reads(Lookup(Files[i]), Files[i], copy)
  BY <1>2, <1>5, GoodReads
<1> QED
  BY <1>6 DEF ReadsAll

\* Every cluster of such an image has data exactly if it has a FAT entry.
LEMMA AcceptedHolds ==
    ASSUME SourceTyped, ImageShape, inspect_image(image)
    PROVE  NothingElse
<1> DEFINE root == image.root.rows
           boot == image.data[3].rows
           dir == Rows(image, root[6].first)
           Of(e) == e.first .. Behind(e) - 1
<1>1. /\ SystemIsCanonical(image) /\ FilesAreCanonical(image) /\ RestIsZero(image)
      /\ (attached => DistributionIsCanonical(image))
  BY DEF inspect_image
<1>2. image.fat[1] = image.fat[2] /\ (\A c \in 0 .. 3 : image.fat[1][c] = U16Max)
  BY <1>1 DEF SystemIsCanonical
<1>3. Good(boot[3], EFI) /\ Good(boot[4], JSN) /\ Good(root[3], PBT)
  BY <1>1, BootFilesGood
<1>4. attached => /\ dir.kind = "dir" /\ Good(root[4], "LICENSE") /\ Good(root[5], "SOURCE.TGZ")
                  /\ Good(dir.rows[3], "3RDPARTY.TXT")
  BY <1>1, DistributionGood
<1>5. attached => image.data[root[6].first] = dir
  BY <1>4 DEF Rows, Zero
<1>6. attached => Find(image.root, "LICENSES/") = root[6]
  BY LookupIs
<1>7. U16Max \in Nat /\ Limit \in 5 .. U16Max
  BY FatAssumption
<1>8. ASSUME NEW c \in 2 .. U16Max
      PROVE  \/ image.fat[1][c] # 0 /\ Rows(image, c) # Zero
             \/ image.fat[1][c] = 0 /\ Rows(image, c) = Zero
             \/ attached /\ c = root[6].first
  <2>1. CASE c \in {2, 3}
    <3>1. image.fat[1][c] = U16Max /\ U16Max # 0
      <4>1. c \in 0 .. 3 /\ U16Max # 0
        BY <1>7, <2>1
      <4> QED
        BY <1>2, <4>1
    <3>2. c \in DOMAIN image.data
      BY <1>7, <2>1 DEF ImageShape
    <3>3. image.data[c].kind = "dir"
      BY <1>1, <2>1, BootIs
    <3>4. Rows(image, c) # Zero
      BY <3>2, <3>3 DEF Rows, Zero
    <3> QED
      BY <3>1, <3>4
  <2>2. CASE c \in Of(boot[3]) \cup Of(boot[4]) \cup Of(root[3])
    <3>1. ASSUME NEW e, NEW name, Good(e, name), c \in Of(e)
          PROVE  image.fat[1][c] # 0 /\ Rows(image, c) # Zero
      BY <3>1, GoodHolds
    <3> HIDE DEF Of, root, boot
    <3> QED
      BY <1>3, <2>2, <3>1
  <2>3. CASE attached /\ c \in Of(root[4]) \cup Of(root[5]) \cup Of(dir.rows[3])
    <3>1. ASSUME NEW e, NEW name, Good(e, name), c \in Of(e)
          PROVE  image.fat[1][c] # 0 /\ Rows(image, c) # Zero
      BY <3>1, GoodHolds
    <3> HIDE DEF Of, root, dir
    <3> QED
      BY <1>4, <2>3, <3>1
  <2>4. CASE /\ c \notin {2, 3} /\ c \notin Of(boot[3]) \cup Of(boot[4]) \cup Of(root[3])
             /\ attached => c # root[6].first /\ c \notin Of(root[4]) \cup Of(root[5]) \cup Of(dir.rows[3])
    <3>1. Allocated(image) = {2, 3} \cup Of(boot[3]) \cup Of(boot[4]) \cup Of(root[3]) \cup
              (IF attached
               THEN {root[6].first} \cup Of(root[4]) \cup Of(root[5]) \cup
                    Of(image.data[root[6].first].rows[3])
               ELSE {})
      BY DEF Allocated
    <3>2. c \notin Allocated(image)
      <4> HIDE DEF Of, root, boot, dir
      <4> QED
        BY <1>5, <2>4, <3>1
    <3>3. c \in 4 .. U16Max
      BY <1>7, <2>4
    <3>4. image.fat[1][c] = 0 /\ (c \in DOMAIN image.data => image.data[c] = Zero)
      BY <1>1, <3>2, <3>3 DEF RestIsZero
    <3> QED
      BY <3>4 DEF Rows
  <2> QED
    BY <2>1, <2>2, <2>3, <2>4
<1>9. ASSUME NEW c \in 2 .. U16Max, NEW copy \in {1, 2}
      PROVE  \/ (image.fat[copy][c] # 0) = (Rows(image, c) # Zero)
             \/ attached /\ c = Find(image.root, "LICENSES/").first
  <2>1. image.fat[copy] = image.fat[1]
    BY <1>2
  <2> QED
    BY <1>6, <1>8, <2>1
<1> QED
  BY <1>9 DEF NothingElse

-----------------------------------------------------------------------------
(* The layout gives every file clusters of its own.                         *)

\* The clusters of the i-th file.
Count(sizes, i) == clusters(sizes[Files[i]])

LEMMA CountIs ==
    ASSUME NEW sizes \in [AllFiles -> Nat], LayoutFits(sizes), NEW i \in 1 .. Len(Files)
    PROVE  Count(sizes, i) \in Nat \ {0}
<1>1. sizes[Files[i]] \in Nat /\ sizes[Files[i]] > 0
  BY FilesAre DEF LayoutFits
<1>2. clusters(sizes[Files[i]]) \in Nat /\ clusters(sizes[Files[i]]) > 0
  BY <1>1, ClustersAre
<1> QED
  BY <1>2 DEF Count

\* A file ends before the next one starts.
LEMMA NextIs ==
    ASSUME NEW sizes \in [AllFiles -> Nat], LayoutFits(sizes)
    PROVE  LET F == First(sizes)
           IN  /\ F \in [1 .. Len(Files) + 1 -> Nat]
               /\ F[1] = 4 /\ F[Len(Files) + 1] <= Limit
               /\ \A i \in 1 .. Len(Files) :
                     F[i + 1] = F[i] + Count(sizes, i) + (IF i = 5 THEN 1 ELSE 0)
  BY FirstIs DEF Count, LayoutFits

\* Where everything is.
LEMMA PlacesAre ==
    ASSUME NEW sizes \in [AllFiles -> Nat], LayoutFits(sizes)
    PROVE  LET F == First(sizes)
           IN  /\ F[1] = 4 /\ F[2] = F[1] + Count(sizes, 1) /\ F[3] = F[2] + Count(sizes, 2)
               /\ F[4] = F[3] + Count(sizes, 3)
               /\ ~attached => F[4] <= Limit
               /\ attached => /\ F[5] = F[4] + Count(sizes, 4)
                              /\ licenses_first(sizes) = F[5] + Count(sizes, 5)
                              /\ F[6] = licenses_first(sizes) + 1
                              /\ F[6] + Count(sizes, 6) <= Limit
<1> DEFINE F == First(sizes)
           n == Len(Files)
<1>0. /\ F \in [1 .. n + 1 -> Nat] /\ F[1] = 4 /\ F[n + 1] <= Limit
      /\ \A i \in 1 .. n : F[i + 1] = F[i] + Count(sizes, i) + (IF i = 5 THEN 1 ELSE 0)
  BY NextIs
<1>1. n = IF attached THEN 6 ELSE 3
  BY FilesAre
<1>2. \A i \in 1 .. n : Count(sizes, i) \in Nat
  BY CountIs
<1>3. licenses_first(sizes) = F[6] - 1
  BY DEF licenses_first
<1> HIDE DEF F, n
<1>4. \A i \in 1 .. n : F[i] \in Nat
  BY <1>0, <1>1
<1>5. ASSUME NEW i \in 1 .. n, i # 5 PROVE F[i + 1] = F[i] + Count(sizes, i)
  <2>1. F[i + 1] = F[i] + Count(sizes, i) + 0
    BY <1>0, <1>5
  <2>2. F[i] \in Nat /\ Count(sizes, i) \in Nat
    BY <1>2, <1>4
  <2> QED
    BY <2>1, <2>2
<1>6. F[2] = F[1] + Count(sizes, 1) /\ F[3] = F[2] + Count(sizes, 2) /\ F[4] = F[3] + Count(sizes, 3)
  <2>1. 1 \in 1 .. n /\ 2 \in 1 .. n /\ 3 \in 1 .. n
    BY <1>1
  <2>2. F[1 + 1] = F[1] + Count(sizes, 1) /\ F[2 + 1] = F[2] + Count(sizes, 2) /\ F[3 + 1] = F[3] + Count(sizes, 3)
    BY <1>5, <2>1
  <2> QED
    BY <2>2
<1>7. CASE ~attached
  BY <1>0, <1>1, <1>6, <1>7 DEF F
<1>8. CASE attached
  <2>1. 4 \in 1 .. n /\ 5 \in 1 .. n /\ 6 \in 1 .. n /\ n = 6
    BY <1>1, <1>8
  <2>2. F[4 + 1] = F[4] + Count(sizes, 4) /\ F[6 + 1] = F[6] + Count(sizes, 6)
    BY <1>5, <2>1
  <2>3. F[5 + 1] = F[5] + Count(sizes, 5) + 1
    BY <1>0, <2>1
  <2>4. F[5] \in Nat /\ Count(sizes, 5) \in Nat
    BY <1>2, <1>4, <2>1
  <2>5. licenses_first(sizes) = F[5] + Count(sizes, 5) /\ F[6] = licenses_first(sizes) + 1
    BY <1>3, <2>3, <2>4
  <2>6. F[5] = F[4] + Count(sizes, 4) /\ F[6] + Count(sizes, 6) <= Limit
    BY <1>0, <2>1, <2>2
  <2> QED
    BY <1>0, <1>6, <1>8, <2>5, <2>6 DEF F
<1> QED
  BY <1>7, <1>8

\* The chains are in the data area, and no two of them meet.
LEMMA ChainsApart ==
    ASSUME NEW sizes \in [AllFiles -> Nat], LayoutFits(sizes)
    PROVE  LET F == First(sizes)
           IN  /\ \A i \in 1 .. Len(Files) :
                     /\ F[i] \in Nat /\ F[i] >= 4 /\ F[i] + Count(sizes, i) <= Limit
                     /\ attached => /\ i <= 5 => F[i] + Count(sizes, i) <= licenses_first(sizes)
                                    /\ i = 6 => licenses_first(sizes) < F[i]
               /\ \A i, j \in 1 .. Len(Files) : i < j => F[i] + Count(sizes, i) <= F[j]
               /\ attached => licenses_first(sizes) \in 4 .. Limit - 1
<1> DEFINE F == First(sizes)
           n == Len(Files)
           N(i) == Count(sizes, i)
           L == licenses_first(sizes)
<1>1. n = IF attached THEN 6 ELSE 3
  BY FilesAre
<1>2. N(1) \in Nat /\ N(2) \in Nat /\ N(3) \in Nat
  BY <1>1, CountIs
<1>3. attached => N(4) \in Nat /\ N(5) \in Nat /\ N(6) \in Nat \ {0}
  BY <1>1, CountIs
<1>4. /\ F[1] = 4 /\ F[2] = F[1] + N(1) /\ F[3] = F[2] + N(2)
      /\ F[4] = F[3] + N(3)
      /\ ~attached => F[4] <= Limit
      /\ attached => /\ F[5] = F[4] + N(4)
                     /\ L = F[5] + N(5)
                     /\ F[6] = L + 1
                     /\ F[6] + N(6) <= Limit
  BY PlacesAre
<1>5. Limit \in Nat
  <2>1. U16Max \in Nat /\ Limit \in 5 .. U16Max
    BY FatAssumption
  <2> QED
    BY <2>1
<1> HIDE DEF F, N, n, L
<1>6. CASE ~attached
  <2>1. \A i \in 1 .. n : i = 1 \/ i = 2 \/ i = 3
    BY <1>1, <1>6
  <2>2. F[1] \in Nat /\ F[2] \in Nat /\ F[3] \in Nat /\ F[4] \in Nat
    BY <1>2, <1>4
  <2>3. ASSUME NEW i \in 1 .. n PROVE F[i] \in Nat /\ F[i] >= 4 /\ F[i] + N(i) <= Limit
    BY <1>2, <1>4, <1>5, <1>6, <2>1, <2>2
  <2>4. ASSUME NEW i \in 1 .. n, NEW j \in 1 .. n, i < j PROVE F[i] + N(i) <= F[j]
    BY <1>2, <1>4, <2>1, <2>2, <2>4
  <2> QED
    BY <1>6, <2>3, <2>4 DEF F, n, N
<1>7. CASE attached
  <2>1. \A i \in 1 .. n : i = 1 \/ i = 2 \/ i = 3 \/ i = 4 \/ i = 5 \/ i = 6
    BY <1>1, <1>7
  <2>2. F[1] \in Nat /\ F[2] \in Nat /\ F[3] \in Nat /\ F[4] \in Nat /\ F[5] \in Nat /\ L \in Nat /\ F[6] \in Nat
    BY <1>2, <1>3, <1>4, <1>7
  <2>3. ASSUME NEW i \in 1 .. n PROVE F[i] \in Nat /\ F[i] >= 4 /\ F[i] + N(i) <= Limit
    BY <1>2, <1>3, <1>4, <1>5, <1>7, <2>1, <2>2
  <2>4. ASSUME NEW i \in 1 .. n, NEW j \in 1 .. n, i < j PROVE F[i] + N(i) <= F[j]
    BY <1>2, <1>3, <1>4, <1>7, <2>1, <2>2, <2>4
  <2>5. ASSUME NEW i \in 1 .. n PROVE (i <= 5 => F[i] + N(i) <= L) /\ (i = 6 => L < F[i])
    BY <1>2, <1>3, <1>4, <1>7, <2>1, <2>2
  <2>6. L \in 4 .. Limit - 1
    BY <1>2, <1>3, <1>4, <1>5, <1>7, <2>2
  <2> QED
    BY <1>7, <2>3, <2>4, <2>5, <2>6 DEF F, n, N, L
<1> QED
  BY <1>6, <1>7

\* A cluster belongs to one file, and the LICENSES directory has its own.
LEMMA ChainIs ==
    ASSUME NEW sizes \in [AllFiles -> Nat], LayoutFits(sizes), NEW i \in 1 .. Len(Files)
    PROVE  /\ Chain(sizes, i) \subseteq 4 .. Limit - 1
           /\ \A c : c \in Chain(sizes, i) <=> \E k \in 0 .. Count(sizes, i) - 1 : c = First(sizes)[i] + k
           /\ \A j \in 1 .. Len(Files), c \in Chain(sizes, i) : c \in Chain(sizes, j) => j = i
           /\ attached => licenses_first(sizes) \notin Chain(sizes, i)
<1> DEFINE F == First(sizes)
           n == Len(Files)
           N(x) == Count(sizes, x)
           L == licenses_first(sizes)
<1>1. \A x \in 1 .. n : Chain(sizes, x) = F[x] .. F[x] + N(x) - 1
  BY DEF Chain, Count
<1>2. \A x \in 1 .. n : N(x) \in Nat \ {0}
  BY CountIs
<1>3. /\ \A x \in 1 .. n : /\ F[x] \in Nat /\ F[x] >= 4 /\ F[x] + N(x) <= Limit
                           /\ attached => (x <= 5 => F[x] + N(x) <= L) /\ (x = 6 => L < F[x])
      /\ \A x, y \in 1 .. n : x < y => F[x] + N(x) <= F[y]
      /\ attached => L \in 4 .. Limit - 1
  BY ChainsApart
<1>4. Limit \in Nat
  <2>1. U16Max \in Nat /\ Limit \in 5 .. U16Max
    BY FatAssumption
  <2> QED
    BY <2>1
<1>5. n \in Nat /\ n <= 6
  BY FilesAre
<1> HIDE DEF F, N, n, L
<1>6. Chain(sizes, i) \subseteq 4 .. Limit - 1
  <2>0. i \in 1 .. n
    BY DEF n
  <2>1. F[i] \in Nat /\ F[i] >= 4 /\ F[i] + N(i) <= Limit /\ N(i) \in Nat
    BY <1>2, <1>3, <2>0
  <2>2. Chain(sizes, i) = F[i] .. F[i] + N(i) - 1
    BY <1>1, <2>0
  <2> QED
    BY <1>4, <2>1, <2>2
<1>7. ASSUME NEW c PROVE c \in Chain(sizes, i) <=> \E k \in 0 .. N(i) - 1 : c = F[i] + k
  <2>1. F[i] \in Nat /\ N(i) \in Nat \ {0} /\ Chain(sizes, i) = F[i] .. F[i] + N(i) - 1
    BY <1>1, <1>2, <1>3 DEF n
  <2>2. ASSUME c \in Chain(sizes, i) PROVE \E k \in 0 .. N(i) - 1 : c = F[i] + k
    <3>1. c - F[i] \in 0 .. N(i) - 1 /\ c = F[i] + (c - F[i])
      BY <2>1, <2>2
    <3> QED
      BY <3>1
  <2>3. ASSUME NEW k \in 0 .. N(i) - 1, c = F[i] + k PROVE c \in Chain(sizes, i)
    BY <2>1, <2>3
  <2> QED
    BY <2>2, <2>3
<1>8. ASSUME NEW j \in 1 .. n, NEW c \in Chain(sizes, i), c \in Chain(sizes, j) PROVE j = i
  <2>0. i \in 1 .. n
    BY DEF n
  <2>1. c \in F[i] .. F[i] + N(i) - 1 /\ c \in F[j] .. F[j] + N(j) - 1
    BY <1>1, <1>8, <2>0
  <2>2. F[i] \in Nat /\ N(i) \in Nat /\ F[j] \in Nat /\ N(j) \in Nat
    BY <1>2, <1>3, <2>0
  <2>3. ~(i < j)
    <3>1. i < j => F[i] + N(i) <= F[j]
      BY <1>3, <2>0
    <3> QED
      BY <2>1, <2>2, <3>1
  <2>4. ~(j < i)
    <3>1. j < i => F[j] + N(j) <= F[i]
      BY <1>3, <2>0
    <3> QED
      BY <2>1, <2>2, <3>1
  <2> QED
    BY <1>5, <2>0, <2>3, <2>4
<1>9. ASSUME attached PROVE L \notin Chain(sizes, i)
  <2>0. i \in 1 .. n
    BY DEF n
  <2>1. F[i] \in Nat /\ N(i) \in Nat /\ (i <= 5 => F[i] + N(i) <= L) /\ (i = 6 => L < F[i])
    BY <1>2, <1>3, <1>9, <2>0
  <2>2. i <= 5 \/ i = 6
    BY <1>5, <2>0
  <2>3. L \in Nat
    BY <1>3, <1>4, <1>9
  <2>4. Chain(sizes, i) = F[i] .. F[i] + N(i) - 1
    BY <1>1, <2>0
  <2> QED
    BY <2>1, <2>2, <2>3, <2>4
<1> QED
  BY <1>6, <1>7, <1>8, <1>9 DEF F, N, n, L

\* The table of the layout: consecutive clusters per file, closed; zero elsewhere.
LEMMA TableIs ==
    ASSUME NEW sizes \in [AllFiles -> Nat], LayoutFits(sizes)
    PROVE  LET T == FatTable(sizes)
           IN  /\ DOMAIN T = 0 .. U16Max
               /\ \A c \in 0 .. 3 : T[c] = U16Max
               /\ \A i \in 1 .. Len(Files) : \A k \in 0 .. Count(sizes, i) - 1 :
                     /\ First(sizes)[i] + k \in 4 .. Limit - 1
                     /\ T[First(sizes)[i] + k] =
                            IF k = Count(sizes, i) - 1 THEN U16Max ELSE First(sizes)[i] + k + 1
               /\ \A c \in 4 .. U16Max :
                     (/\ ~(attached /\ c = licenses_first(sizes))
                      /\ \A i \in 1 .. Len(Files) : c \notin Chain(sizes, i)) => T[c] = 0
<1> DEFINE T == FatTable(sizes)
           F == First(sizes)
           n == Len(Files)
           N(x) == Count(sizes, x)
           L == licenses_first(sizes)
           In(c) == CHOOSE k \in 1 .. n : c \in Chain(sizes, k)
<1>1. T = [c \in 0 .. U16Max |->
        IF c <= 3 THEN U16Max
        ELSE IF attached /\ c = L THEN U16Max
        ELSE IF \E i \in 1 .. n : c \in Chain(sizes, i)
             THEN IF c + 1 \in Chain(sizes, In(c)) THEN c + 1 ELSE U16Max
        ELSE 0]
  BY DEF FatTable
<1>2. U16Max \in Nat /\ Limit \in 5 .. U16Max
  BY FatAssumption
<1> HIDE DEF T, F, n, N, L
<1>3. DOMAIN T = 0 .. U16Max
  BY <1>1
<1>4. \A c \in 0 .. 3 : T[c] = U16Max
  <2> HIDE DEF In
  <2> TAKE c \in 0 .. 3
  <2>1. c \in 0 .. U16Max /\ c <= 3
    BY <1>2
  <2> QED
    BY <1>1, <2>1
<1>5. ASSUME NEW i \in 1 .. n, NEW k \in 0 .. N(i) - 1
      PROVE  /\ F[i] + k \in 4 .. Limit - 1
             /\ T[F[i] + k] = IF k = N(i) - 1 THEN U16Max ELSE F[i] + k + 1
  <2> DEFINE c == F[i] + k
  <2>0. i \in 1 .. Len(Files) /\ N(i) \in Nat \ {0} /\ F[i] \in Nat
    BY CountIs, ChainsApart DEF n, N, F
  <2>1. /\ Chain(sizes, i) \subseteq 4 .. Limit - 1
        /\ \A d : d \in Chain(sizes, i) <=> \E x \in 0 .. N(i) - 1 : d = F[i] + x
        /\ \A j \in 1 .. n, d \in Chain(sizes, i) : d \in Chain(sizes, j) => j = i
        /\ attached => L \notin Chain(sizes, i)
    BY <2>0, ChainIs DEF n, N, F, L
  <2>2. c \in Chain(sizes, i)
    BY <2>1
  <2>3. c \in 4 .. Limit - 1 /\ ~(attached /\ c = L)
    BY <2>1, <2>2
  <2>4. In(c) = i
    <3> DEFINE y == In(c)
    <3> HIDE DEF c
    <3>1. y \in 1 .. n /\ c \in Chain(sizes, y)
      BY <2>2
    <3> HIDE DEF y
    <3>2. y = i
      BY <2>1, <2>2, <3>1
    <3> QED
      BY <3>2 DEF y
  <2>5. c + 1 \in Chain(sizes, i) <=> k # N(i) - 1
    <3>1. c + 1 \in Chain(sizes, i) <=> \E x \in 0 .. N(i) - 1 : c + 1 = F[i] + x
      BY <2>1
    <3>2. (\E x \in 0 .. N(i) - 1 : c + 1 = F[i] + x) => k # N(i) - 1
      BY <2>0
    <3>3. k # N(i) - 1 => k + 1 \in 0 .. N(i) - 1 /\ c + 1 = F[i] + (k + 1)
      BY <2>0
    <3> QED
      BY <3>1, <3>2, <3>3
  <2> HIDE DEF c, In
  <2>6. c \in 0 .. U16Max /\ ~(c <= 3)
    BY <1>2, <2>3
  <2>7. T[c] = IF c + 1 \in Chain(sizes, i) THEN c + 1 ELSE U16Max
    BY <1>1, <2>2, <2>3, <2>4, <2>6
  <2>8. c + 1 = F[i] + k + 1
    BY DEF c
  <2>9. T[c] = IF k = N(i) - 1 THEN U16Max ELSE F[i] + k + 1
    BY <2>5, <2>7, <2>8
  <2> QED
    BY <2>3, <2>9 DEF c
<1>6. ASSUME NEW c \in 4 .. U16Max, ~(attached /\ c = L), \A i \in 1 .. n : c \notin Chain(sizes, i)
      PROVE  T[c] = 0
  <2>1. c \in 0 .. U16Max /\ ~(c <= 3)
    BY <1>2
  <2> HIDE DEF In
  <2> QED
    BY <1>1, <1>6, <2>1
<1> QED
  BY <1>3, <1>4, <1>5, <1>6 DEF T, F, n, N, L

-----------------------------------------------------------------------------
(* An image built from files that stayed the same is accepted.              *)

LEMMA NamedIs ==
    ASSUME NEW i \in 1 .. Len(Files)
    PROVE  Named(Files[i]) = i
<1> DEFINE y == CHOOSE k \in 1 .. Len(Files) : Files[k] = Files[i]
<1>1. y \in 1 .. Len(Files) /\ Files[y] = Files[i]
  OBVIOUS
<1> HIDE DEF y
<1>2. ASSUME NEW j \in 1 .. Len(Files), Files[j] = Files[i] PROVE j = i
  <2>1. i = 1 \/ i = 2 \/ i = 3 \/ (attached /\ (i = 4 \/ i = 5 \/ i = 6))
    BY FilesAre
  <2>2. j = 1 \/ j = 2 \/ j = 3 \/ (attached /\ (j = 4 \/ j = 5 \/ j = 6))
    BY FilesAre
  <2>3. /\ Files[1] = "BOOTX64.EFI" /\ Files[2] = "BUILD.JSN" /\ Files[3] = "MODEL.PBT"
        /\ attached => Files[4] = "LICENSE" /\ Files[5] = "SOURCE.TGZ" /\ Files[6] = "3RDPARTY.TXT"
    BY FilesAre DEF EFI, JSN, PBT
  <2> QED
    BY <1>2, <2>1, <2>2, <2>3
<1> QED
  BY <1>1, <1>2 DEF Named, y

\* The entry of the i-th file.
LEMMA FileEntryIs ==
    ASSUME NEW sizes \in [AllFiles -> Nat], LayoutFits(sizes), NEW i \in 1 .. Len(Files)
    PROVE  LET e == FileEntry(sizes, Files[i])
           IN  /\ e = entry(Files[i], First(sizes)[i], sizes[Files[i]])
               /\ e.name = Files[i] /\ e.first = First(sizes)[i] /\ e.size = sizes[Files[i]]
               /\ e = entry(Files[i], e.first, e.size)
               /\ clusters(e.size) = Count(sizes, i) /\ e.size > 0
               /\ Behind(e) = First(sizes)[i] + Count(sizes, i)
               /\ e.first .. Behind(e) - 1 = Chain(sizes, i)
<1> DEFINE e == FileEntry(sizes, Files[i])
<1>1. e = entry(Files[i], First(sizes)[i], sizes[Files[i]])
  BY NamedIs DEF FileEntry
<1> HIDE DEF e
<1>2. e.name = Files[i] /\ e.first = First(sizes)[i] /\ e.size = sizes[Files[i]]
  BY <1>1, EntryIs
<1>3. clusters(e.size) = Count(sizes, i) /\ e.size > 0
  BY <1>2 DEF Count, LayoutFits
<1>4. Behind(e) = First(sizes)[i] + Count(sizes, i)
  BY <1>2, <1>3 DEF Behind
<1>5. e.first .. Behind(e) - 1 = Chain(sizes, i)
  <2>1. Chain(sizes, i) = First(sizes)[i] .. First(sizes)[i] + Count(sizes, i) - 1
    BY DEF Chain, Count
  <2>2. e.first = First(sizes)[i] /\ Behind(e) - 1 = First(sizes)[i] + Count(sizes, i) - 1
    <3>1. First(sizes)[i] \in Nat /\ Count(sizes, i) \in Nat
      BY CountIs, ChainsApart
    <3> QED
      BY <1>2, <1>4, <3>1
  <2> QED
    BY <2>1, <2>2, Zenon
<1> QED
  BY <1>1, <1>2, <1>3, <1>4, <1>5 DEF e

\* The rows that build_fat_image writes.
LEMMA RootRowsAre ==
    ASSUME NEW sizes
    PROVE  LET r == RootRows(sizes)
           IN  /\ Len(r) = (IF attached THEN 6 ELSE 3)
               /\ r[1] = entry("PROMPTBOOT", 0, 0) /\ r[2] = entry("EFI/", 2, 0)
               /\ r[3] = FileEntry(sizes, PBT)
               /\ attached => /\ r[4] = FileEntry(sizes, "LICENSE") /\ r[5] = FileEntry(sizes, "SOURCE.TGZ")
                              /\ r[6] = entry("LICENSES/", licenses_first(sizes), 0)
<1> DEFINE a == <<entry("PROMPTBOOT", 0, 0), entry("EFI/", 2, 0), FileEntry(sizes, PBT)>>
           b == <<FileEntry(sizes, DISTRIBUTION[1]), FileEntry(sizes, DISTRIBUTION[2]),
                  entry("LICENSES/", licenses_first(sizes), 0)>>
           S == {a[1], a[2], a[3], b[1], b[2], b[3]}
<1>1. DISTRIBUTION[1] = "LICENSE" /\ DISTRIBUTION[2] = "SOURCE.TGZ"
  BY DEF DISTRIBUTION
<1>2. a \in Seq(S) /\ Len(a) = 3 /\ a[1] = entry("PROMPTBOOT", 0, 0) /\ a[2] = entry("EFI/", 2, 0)
      /\ a[3] = FileEntry(sizes, PBT)
  OBVIOUS
<1>3. b \in Seq(S) /\ Len(b) = 3 /\ b[1] = FileEntry(sizes, "LICENSE") /\ b[2] = FileEntry(sizes, "SOURCE.TGZ")
      /\ b[3] = entry("LICENSES/", licenses_first(sizes), 0)
  <2>1. b \in Seq(S) /\ Len(b) = 3 /\ b[1] = FileEntry(sizes, DISTRIBUTION[1]) /\ b[2] = FileEntry(sizes, DISTRIBUTION[2])
      /\ b[3] = entry("LICENSES/", licenses_first(sizes), 0)
    OBVIOUS
  <2> QED
    BY <1>1, <2>1
<1>4. RootRows(sizes) = a \o (IF attached THEN b ELSE << >>)
  BY DEF RootRows
<1> HIDE DEF a, b, S
<1>5. CASE attached
  <2>1. /\ Len(a \o b) = Len(a) + Len(b)
        /\ \A i \in 1 .. Len(a) + Len(b) : (a \o b)[i] = IF i <= Len(a) THEN a[i] ELSE b[i - Len(a)]
    BY <1>2, <1>3, ConcatProperties
  <2>2. /\ Len(a \o b) = 6
        /\ (a \o b)[1] = a[1] /\ (a \o b)[2] = a[2] /\ (a \o b)[3] = a[3]
        /\ (a \o b)[4] = b[1] /\ (a \o b)[5] = b[2] /\ (a \o b)[6] = b[3]
    BY <1>2, <1>3, <2>1
  <2> QED
    BY <1>2, <1>3, <1>4, <1>5, <2>2
<1>6. CASE ~attached
  <2>1. RootRows(sizes) = a
    BY <1>2, <1>4, <1>6
  <2> QED
    BY <1>2, <1>6, <2>1
<1> QED
  BY <1>5, <1>6

LEMMA LicenseRowsAre ==
    ASSUME NEW sizes
    PROVE  LET r == LicenseRows(sizes)
           IN  /\ Len(r) = 3
               /\ r[1] = entry("./", licenses_first(sizes), 0) /\ r[2] = entry("../", 0, 0)
               /\ r[3] = FileEntry(sizes, "3RDPARTY.TXT")
<1> DEFINE a == <<entry("./", licenses_first(sizes), 0), entry("../", 0, 0)>>
           b == [k \in 1 .. Len(DISTRIBUTION) - 2 |-> FileEntry(sizes, DISTRIBUTION[k + 2])]
           S == {a[1], a[2], b[1]}
<1>1. Len(DISTRIBUTION) = 3 /\ DISTRIBUTION[3] = "3RDPARTY.TXT"
  BY DEF DISTRIBUTION
<1>2. a \in Seq(S) /\ Len(a) = 2 /\ a[1] = entry("./", licenses_first(sizes), 0) /\ a[2] = entry("../", 0, 0)
  OBVIOUS
<1>3. b[1] = FileEntry(sizes, "3RDPARTY.TXT") /\ DOMAIN b = 1 .. 1
  BY <1>1
<1>4. b \in [1 .. 1 -> S]
  <2>1. b = [k \in 1 .. 1 |-> b[k]]
    BY <1>1
  <2> HIDE DEF b
  <2> QED
    BY <2>1 DEF S
<1>5. b \in Seq(S) /\ Len(b) = 1
  <2> HIDE DEF b, S
  <2> DEFINE m == 1
  <2>1. m \in Nat /\ b \in [1 .. m -> S]
    BY <1>4
  <2> HIDE DEF m
  <2>2. b \in Seq(S) /\ Len(b) = m
    BY <2>1
  <2> QED
    BY <2>2 DEF m
<1>6. LicenseRows(sizes) = a \o b
  BY DEF LicenseRows
<1> HIDE DEF a, b, S
<1>7. /\ Len(a \o b) = Len(a) + Len(b)
      /\ \A i \in 1 .. Len(a) + Len(b) : (a \o b)[i] = IF i <= Len(a) THEN a[i] ELSE b[i - Len(a)]
  BY <1>2, <1>5, ConcatProperties
<1>8. Len(a \o b) = 3 /\ (a \o b)[1] = a[1] /\ (a \o b)[2] = a[2] /\ (a \o b)[3] = b[1]
  BY <1>2, <1>5, <1>7
<1> QED
  BY <1>2, <1>3, <1>6, <1>8

LEMMA DirectoryEqual ==
    ASSUME NEW r, NEW s, Len(r) = Len(s), Len(r) \in Nat, \A k \in 1 .. Len(r) : r[k] = s[k]
    PROVE  Directory(r) = Directory(s)
<1>0. Slots \in Nat
  BY FatAssumption
<1>1. ASSUME NEW k \in 1 .. Slots
      PROVE  (IF k <= Len(r) THEN r[k] ELSE ZeroRow) = (IF k <= Len(s) THEN s[k] ELSE ZeroRow)
  <2>1. k <= Len(r) => k \in 1 .. Len(r)
    BY <1>0
  <2> QED
    BY <2>1
<1>2. [k \in 1 .. Slots |-> IF k <= Len(r) THEN r[k] ELSE ZeroRow] =
      [k \in 1 .. Slots |-> IF k <= Len(s) THEN s[k] ELSE ZeroRow]
  BY <1>1
<1> QED
  BY <1>2 DEF Directory

\* The image while undisturbed files are copied into it: the tables and
\* directories of the layout, the parts of the files copied so far, zeros.
Laid ==
    /\ measured \in [AllFiles -> Nat] /\ LayoutFits(measured)
    /\ \A name \in AllFiles : source[name].version = 0 /\ source[name].size = measured[name]
    /\ copied \in 0 .. Len(Files)
    /\ image.boot = "bpb" /\ image.fat = <<FatTable(measured), FatTable(measured)>>
    /\ image.root = Directory(RootRows(measured))
    /\ \A i \in 1 .. copied : \A k \in 0 .. Count(measured, i) - 1 :
          image.data[First(measured)[i] + k] = Part(Files[i], source[Files[i]], k)
    /\ \A c \in 2 .. Limit - 1 :
          (\A i \in 1 .. copied : c \notin Chain(measured, i)) => image.data[c] = System(measured).data[c]

\* The directories of the data area are not in a chain.
LEMMA SystemDataIs ==
    ASSUME NEW sizes \in [AllFiles -> Nat], LayoutFits(sizes)
    PROVE  LET d == System(sizes).data
           IN  /\ d[2] = Directory(EfiRows) /\ d[3] = Directory(BootRows(sizes))
               /\ attached => d[licenses_first(sizes)] = Directory(LicenseRows(sizes))
               /\ \A c \in 4 .. Limit - 1 : ~(attached /\ c = licenses_first(sizes)) => d[c] = Zero
<1> DEFINE d == System(sizes).data
           L == licenses_first(sizes)
<1>1. d = [c \in 2 .. Limit - 1 |->
        IF c = 2 THEN Directory(EfiRows)
        ELSE IF c = 3 THEN Directory(BootRows(sizes))
        ELSE IF attached /\ c = L THEN Directory(LicenseRows(sizes))
        ELSE Zero]
  BY DEF System
<1>2. U16Max \in Nat /\ Limit \in 5 .. U16Max
  BY FatAssumption
<1>3. attached => L \in 4 .. Limit - 1
  BY ChainsApart
<1> HIDE DEF d, L
<1>4. 2 \in 2 .. Limit - 1 /\ 3 \in 2 .. Limit - 1 /\ Limit \in Nat
  BY <1>2
<1>5. d[2] = Directory(EfiRows) /\ d[3] = Directory(BootRows(sizes))
  BY <1>1, <1>4
<1>6. attached => d[L] = Directory(LicenseRows(sizes))
  <2> SUFFICES ASSUME attached PROVE d[L] = Directory(LicenseRows(sizes))
    OBVIOUS
  <2>1. L \in 2 .. Limit - 1 /\ L # 2 /\ L # 3
    BY <1>3, <1>4
  <2> QED
    BY <1>1, <2>1
<1>7. ASSUME NEW c \in 4 .. Limit - 1, ~(attached /\ c = L) PROVE d[c] = Zero
  <2>1. c \in 2 .. Limit - 1 /\ c # 2 /\ c # 3
    BY <1>4
  <2> QED
    BY <1>1, <1>7, <2>1
<1> QED
  BY <1>5, <1>6, <1>7 DEF d, L

\* What the image holds in each cluster.
LEMMA LaidData ==
    ASSUME Laid
    PROVE  /\ image.data[2] = Directory(EfiRows) /\ image.data[3] = Directory(BootRows(measured))
           /\ attached => image.data[licenses_first(measured)] = Directory(LicenseRows(measured))
           /\ \A c \in 4 .. Limit - 1 :
                 (/\ ~(attached /\ c = licenses_first(measured))
                  /\ \A i \in 1 .. copied : c \notin Chain(measured, i)) => image.data[c] = Zero
<1> DEFINE L == licenses_first(measured)
           d == System(measured).data
<1>1. measured \in [AllFiles -> Nat] /\ LayoutFits(measured) /\ copied \in 0 .. Len(Files)
  BY DEF Laid
<1>2. \A c \in 2 .. Limit - 1 :
          (\A i \in 1 .. copied : c \notin Chain(measured, i)) => image.data[c] = d[c]
  BY DEF Laid
<1>3. /\ d[2] = Directory(EfiRows) /\ d[3] = Directory(BootRows(measured))
      /\ attached => d[L] = Directory(LicenseRows(measured))
      /\ \A c \in 4 .. Limit - 1 : ~(attached /\ c = L) => d[c] = Zero
  BY <1>1, SystemDataIs
<1>4. attached => L \in 4 .. Limit - 1
  BY <1>1, ChainsApart
<1>5. U16Max \in Nat /\ Limit \in 5 .. U16Max
  BY FatAssumption
<1>6. \A i \in 1 .. copied : i \in 1 .. Len(Files)
  <2>1. Len(Files) \in Nat
    BY FilesAre
  <2> QED
    BY <1>1, <2>1
<1>7. ASSUME NEW i \in 1 .. copied
      PROVE  Chain(measured, i) \subseteq 4 .. Limit - 1 /\ (attached => L \notin Chain(measured, i))
  BY <1>1, <1>6, ChainIs
<1> HIDE DEF d, L
<1>8. ASSUME NEW c \in {2, 3} PROVE image.data[c] = d[c]
  <2>1. c \in 2 .. Limit - 1 /\ c \notin 4 .. Limit - 1
    BY <1>5
  <2>2. \A i \in 1 .. copied : c \notin Chain(measured, i)
    BY <1>7, <2>1
  <2> QED
    BY <1>2, <2>1, <2>2
<1>9. attached => image.data[L] = d[L]
  <2> SUFFICES ASSUME attached PROVE image.data[L] = d[L]
    OBVIOUS
  <2>1. L \in 2 .. Limit - 1
    BY <1>4, <1>5
  <2>2. \A i \in 1 .. copied : L \notin Chain(measured, i)
    BY <1>7
  <2> QED
    BY <1>2, <2>1, <2>2
<1>10. ASSUME NEW c \in 4 .. Limit - 1, ~(attached /\ c = L), \A i \in 1 .. copied : c \notin Chain(measured, i)
       PROVE  image.data[c] = Zero
  <2>1. c \in 2 .. Limit - 1
    BY <1>5
  <2>2. image.data[c] = d[c]
    BY <1>2, <1>10, <2>1
  <2> QED
    BY <1>3, <1>10, <2>2
<1> QED
  BY <1>3, <1>8, <1>9, <1>10 DEF L

\* The entry of a file copied so far leads to its bytes.
LEMMA LaidEntry ==
    ASSUME Laid, ImageShape, NEW i \in 1 .. copied
    PROVE  LET e == FileEntry(measured, Files[i])
           IN  /\ file_chain(image.fat[1], e.first, e.size)
               /\ Matches(image, e, Files[i])
<1> DEFINE e == FileEntry(measured, Files[i])
           F == First(measured)[i]
           n == Count(measured, i)
<1>1. measured \in [AllFiles -> Nat] /\ LayoutFits(measured) /\ copied \in 0 .. Len(Files)
      /\ image.fat = <<FatTable(measured), FatTable(measured)>>
  BY DEF Laid
<1>2. i \in 1 .. Len(Files) /\ Files[i] \in AllFiles
  <2>1. Len(Files) \in Nat
    BY FilesAre
  <2>2. i \in 1 .. Len(Files)
    BY <1>1, <2>1
  <2> QED
    BY <2>2, FilesAre
<1>3. e.first = F /\ e.size = measured[Files[i]] /\ clusters(e.size) = n
  BY <1>1, <1>2, FileEntryIs
<1>4. \A k \in 0 .. n - 1 : /\ F + k \in 4 .. Limit - 1
                            /\ FatTable(measured)[F + k] = IF k = n - 1 THEN U16Max ELSE F + k + 1
  BY <1>1, <1>2, TableIs
<1>5. \A k \in 0 .. n - 1 : image.data[F + k] = Part(Files[i], source[Files[i]], k)
  BY DEF Laid
<1>6. source[Files[i]].size = measured[Files[i]]
  BY <1>2 DEF Laid
<1>7. image.fat[1] = FatTable(measured)
  BY <1>1
<1>8. U16Max \in Nat /\ Limit \in 5 .. U16Max
  BY FatAssumption
<1>9. \A c \in 4 .. Limit - 1 : c \in 2 .. U16Max /\ c \in 2 .. Limit - 1
  BY <1>8
<1> HIDE DEF e, F, n
<1>10. file_chain(image.fat[1], e.first, e.size)
  BY <1>3, <1>4, <1>7, <1>9 DEF file_chain
<1>11. Matches(image, e, Files[i])
  BY <1>3, <1>4, <1>5, <1>6, <1>9 DEF Matches, ImageShape
<1> QED
  BY <1>10, <1>11 DEF e

\* The rows of the root and of the directories.
LEMMA LaidRows ==
    ASSUME Laid
    PROVE  /\ image.root.kind = "dir" /\ image.root.rows[3] = FileEntry(measured, PBT)
           /\ \A k \in 1 .. Slots : image.root.rows[k] =
                 IF k <= (IF attached THEN 6 ELSE 3) THEN RootRows(measured)[k] ELSE ZeroRow
           /\ attached => /\ image.root.rows[4] = FileEntry(measured, "LICENSE")
                          /\ image.root.rows[5] = FileEntry(measured, "SOURCE.TGZ")
                          /\ image.root.rows[6] = entry("LICENSES/", licenses_first(measured), 0)
                          /\ image.data[licenses_first(measured)].kind = "dir"
                          /\ image.data[licenses_first(measured)].rows[3] = FileEntry(measured, "3RDPARTY.TXT")
           /\ image.data[3].kind = "dir"
           /\ image.data[3].rows[3] = FileEntry(measured, EFI)
           /\ image.data[3].rows[4] = FileEntry(measured, JSN)
<1> DEFINE r == RootRows(measured)
           b == BootRows(measured)
           l == LicenseRows(measured)
           n == IF attached THEN 6 ELSE 3
           L == licenses_first(measured)
<1>0. Slots \in Nat /\ Slots >= 6
  BY FatAssumption
<1>1. \A k \in 1 .. 6 : k \in 1 .. Slots
  BY <1>0
<1>2. image.root = Directory(r)
  BY DEF Laid
<1>3. /\ Directory(r).kind = "dir"
      /\ \A k \in 1 .. Slots : Directory(r).rows[k] = IF k <= Len(r) THEN r[k] ELSE ZeroRow
  BY DirectoryIs
<1>4. /\ Len(r) = n /\ r[3] = FileEntry(measured, PBT)
      /\ attached => /\ r[4] = FileEntry(measured, "LICENSE") /\ r[5] = FileEntry(measured, "SOURCE.TGZ")
                     /\ r[6] = entry("LICENSES/", L, 0)
  BY RootRowsAre
<1>5. image.data[3] = Directory(b) /\ (attached => image.data[L] = Directory(l))
  BY LaidData
<1>6. /\ Directory(b).kind = "dir"
      /\ \A k \in 1 .. Slots : Directory(b).rows[k] = IF k <= Len(b) THEN b[k] ELSE ZeroRow
  BY DirectoryIs
<1>7. /\ Directory(l).kind = "dir"
      /\ \A k \in 1 .. Slots : Directory(l).rows[k] = IF k <= Len(l) THEN l[k] ELSE ZeroRow
  BY DirectoryIs
<1>8. Len(l) = 3 /\ l[3] = FileEntry(measured, "3RDPARTY.TXT")
  BY LicenseRowsAre
<1>9. Len(b) = 4 /\ b[3] = FileEntry(measured, EFI) /\ b[4] = FileEntry(measured, JSN)
  BY DEF BootRows
<1> HIDE DEF r, b, l, L
<1>10. 3 \in 1 .. Slots /\ 4 \in 1 .. Slots /\ 5 \in 1 .. Slots /\ 6 \in 1 .. Slots
  BY <1>1
<1>11. image.root.kind = "dir" /\ (\A k \in 1 .. Slots : image.root.rows[k] = IF k <= n THEN r[k] ELSE ZeroRow)
  BY <1>2, <1>3, <1>4
<1>12. image.root.rows[3] = r[3]
  BY <1>10, <1>11
<1>13. attached => image.root.rows[4] = r[4] /\ image.root.rows[5] = r[5] /\ image.root.rows[6] = r[6]
  BY <1>10, <1>11
<1>14. image.data[3].kind = "dir" /\ image.data[3].rows[3] = b[3] /\ image.data[3].rows[4] = b[4]
  BY <1>5, <1>6, <1>9, <1>10
<1>15. attached => image.data[L].kind = "dir" /\ image.data[L].rows[3] = l[3]
  BY <1>5, <1>7, <1>8, <1>10
<1> QED
  BY <1>4, <1>8, <1>9, <1>11, <1>12, <1>13, <1>14, <1>15 DEF r, L

\* The checks of inspect_image, one after the other.
LEMMA LaidSystem ==
    ASSUME Laid
    PROVE  SystemIsCanonical(image)
<1> DEFINE m == IF attached THEN 4 ELSE 1
           a == <<entry("PROMPTBOOT", 0, 0), entry("EFI/", 2, 0)>>
           b == [k \in 1 .. m |-> image.root.rows[k + 2]]
           S == {a[1], a[2]} \cup {b[k] : k \in 1 .. m}
           r == RootRows(measured)
           rows == image.data[3].rows
           q == <<entry("./", 3, 0), entry("../", 2, 0), rows[3], rows[4]>>
<1>0. Slots \in Nat /\ Slots >= 6
  BY FatAssumption
<1>1. /\ measured \in [AllFiles -> Nat] /\ LayoutFits(measured)
      /\ image.boot = "bpb" /\ image.fat = <<FatTable(measured), FatTable(measured)>>
      /\ image.root = Directory(r)
  BY DEF Laid
<1>2. image.fat[1] = FatTable(measured) /\ image.fat[2] = FatTable(measured)
  BY <1>1
<1>3. \A c \in 0 .. 3 : FatTable(measured)[c] = U16Max
  BY <1>1, TableIs
<1>4. /\ image.root.rows[3] = FileEntry(measured, PBT)
      /\ \A k \in 1 .. Slots : image.root.rows[k] = IF k <= (IF attached THEN 6 ELSE 3) THEN r[k] ELSE ZeroRow
      /\ image.data[3].kind = "dir"
      /\ rows[3] = FileEntry(measured, EFI) /\ rows[4] = FileEntry(measured, JSN)
  BY LaidRows
<1>5. image.data[2] = Directory(EfiRows) /\ image.data[3] = Directory(BootRows(measured))
  BY LaidData
<1>6. 1 \in 1 .. Len(Files) /\ 2 \in 1 .. Len(Files) /\ 3 \in 1 .. Len(Files)
      /\ Files[1] = EFI /\ Files[2] = JSN /\ Files[3] = PBT
  BY FilesAre
<1>7. Exactly(rows[3], EFI) /\ Exactly(rows[4], JSN)
  <2>1. LET e == FileEntry(measured, Files[1]) IN e = entry(Files[1], e.first, e.size)
    BY <1>1, <1>6, FileEntryIs
  <2>2. LET e == FileEntry(measured, Files[2]) IN e = entry(Files[2], e.first, e.size)
    BY <1>1, <1>6, FileEntryIs
  <2> QED
    BY <1>4, <1>6, <2>1, <2>2 DEF Exactly
<1>8. Loosely(image.root.rows[3], PBT)
  <2>1. FileEntry(measured, Files[3]).name = Files[3]
    BY <1>1, <1>6, FileEntryIs
  <2> QED
    BY <1>4, <1>6, <2>1 DEF Loosely
<1>9. image.data[3] = Directory(q)
  BY <1>4, <1>5 DEF BootRows
<1>10. m \in Nat /\ m + 2 = (IF attached THEN 6 ELSE 3) /\ m <= 4
  OBVIOUS
<1>11. a \in Seq(S) /\ Len(a) = 2 /\ a[1] = entry("PROMPTBOOT", 0, 0) /\ a[2] = entry("EFI/", 2, 0)
  OBVIOUS
<1>12. b \in Seq(S) /\ Len(b) = m /\ (\A k \in 1 .. m : b[k] = image.root.rows[k + 2])
  <2> HIDE DEF m, a
  <2>1. b \in [1 .. m -> S] /\ (\A k \in 1 .. m : b[k] = image.root.rows[k + 2])
    OBVIOUS
  <2> HIDE DEF b, S
  <2> QED
    BY <1>10, <2>1
<1>13. Len(r) = m + 2 /\ r[1] = a[1] /\ r[2] = a[2]
  <2>1. Len(r) = (IF attached THEN 6 ELSE 3) /\ r[1] = entry("PROMPTBOOT", 0, 0) /\ r[2] = entry("EFI/", 2, 0)
    BY RootRowsAre
  <2> QED
    BY <1>10, <1>11, <2>1
<1> HIDE DEF a, b, S, r, m
<1>14. /\ Len(a \o b) = m + 2
       /\ \A i \in 1 .. m + 2 : (a \o b)[i] = IF i <= 2 THEN a[i] ELSE b[i - 2]
  <2>1. /\ Len(a \o b) = Len(a) + Len(b)
        /\ \A i \in 1 .. Len(a) + Len(b) : (a \o b)[i] = IF i <= Len(a) THEN a[i] ELSE b[i - Len(a)]
    BY <1>11, <1>12, ConcatProperties
  <2>2. Len(a) + Len(b) = m + 2
    BY <1>10, <1>11, <1>12
  <2> QED
    BY <1>11, <2>1, <2>2
<1>15. ASSUME NEW k \in 1 .. m + 2 PROVE r[k] = (a \o b)[k]
  <2>1. CASE k = 1 \/ k = 2
    BY <1>10, <1>13, <1>14, <2>1
  <2>2. CASE k > 2
    <3> DEFINE j == k - 2
    <3>1. j \in 1 .. m /\ j + 2 = k /\ k \in 1 .. Slots /\ ~(k <= 2)
      BY <1>0, <1>10, <2>2
    <3>2. (a \o b)[k] = b[j]
      BY <1>14, <3>1
    <3> HIDE DEF j
    <3>3. b[j] = image.root.rows[k]
      BY <1>12, <3>1
    <3>4. image.root.rows[k] = r[k]
      <4>1. k <= (IF attached THEN 6 ELSE 3)
        BY <1>10
      <4> QED
        BY <1>4, <3>1, <4>1
    <3> QED
      BY <3>2, <3>3, <3>4
  <2>3. k = 1 \/ k = 2 \/ k > 2
    BY <1>10
  <2> QED
    BY <2>1, <2>2, <2>3
<1>16. Directory(r) = Directory(a \o b)
  <2> DEFINE s == a \o b
  <2>1. Len(r) = Len(s) /\ Len(r) \in Nat /\ \A k \in 1 .. Len(r) : r[k] = s[k]
    BY <1>10, <1>13, <1>14, <1>15
  <2> HIDE DEF s
  <2>2. Directory(r) = Directory(s)
    BY <2>1, DirectoryEqual
  <2> QED
    BY <2>2 DEF s
<1>17. image.root = Directory(a \o b)
  BY <1>1, <1>16
<1> QED
  BY <1>1, <1>2, <1>3, <1>4, <1>5, <1>7, <1>8, <1>9, <1>17 DEF SystemIsCanonical, a, b, m

\* Every file is copied.
LEMMA LaidFiles ==
    ASSUME Laid, ImageShape, copied = Len(Files)
    PROVE  FilesAreCanonical(image)
<1> DEFINE efi == image.data[3].rows[3]
           jsn == image.data[3].rows[4]
           pbt == image.root.rows[3]
           F == First(measured)
<1>1. measured \in [AllFiles -> Nat] /\ LayoutFits(measured)
  BY DEF Laid
<1>2. 1 \in 1 .. Len(Files) /\ 2 \in 1 .. Len(Files) /\ 3 \in 1 .. Len(Files)
      /\ Files[1] = EFI /\ Files[2] = JSN /\ Files[3] = PBT
  BY FilesAre
<1>3. efi = FileEntry(measured, Files[1]) /\ jsn = FileEntry(measured, Files[2]) /\ pbt = FileEntry(measured, Files[3])
  BY <1>2, LaidRows
<1>4. ASSUME NEW i \in 1 .. Len(Files)
      PROVE  LET e == FileEntry(measured, Files[i])
             IN  /\ file_chain(image.fat[1], e.first, e.size) /\ Matches(image, e, Files[i])
                 /\ e.first = F[i] /\ e.size = measured[Files[i]] /\ e.size > 0
                 /\ Behind(e) = F[i] + Count(measured, i)
  <2>1. LET e == FileEntry(measured, Files[i])
        IN  file_chain(image.fat[1], e.first, e.size) /\ Matches(image, e, Files[i])
    BY LaidEntry
  <2>2. LET e == FileEntry(measured, Files[i])
        IN  /\ e.first = F[i] /\ e.size = measured[Files[i]] /\ e.size > 0
            /\ Behind(e) = F[i] + Count(measured, i)
    BY <1>1, FileEntryIs
  <2> QED
    BY <2>1, <2>2
<1>5. F[1] = 4 /\ F[2] = F[1] + Count(measured, 1) /\ F[3] = F[2] + Count(measured, 2)
  BY <1>1, PlacesAre
<1>6. measured[PBT] = ModelBytes
  BY <1>1 DEF LayoutFits
<1> HIDE DEF efi, jsn, pbt, F
<1>7. /\ file_chain(image.fat[1], efi.first, efi.size) /\ Matches(image, efi, EFI)
      /\ efi.first = 4 /\ efi.size > 0 /\ Behind(efi) = F[1] + Count(measured, 1)
  BY <1>2, <1>3, <1>4, <1>5
<1>8. /\ file_chain(image.fat[1], jsn.first, jsn.size) /\ Matches(image, jsn, JSN)
      /\ jsn.first = F[2] /\ jsn.size > 0 /\ Behind(jsn) = F[2] + Count(measured, 2)
  BY <1>2, <1>3, <1>4
<1>9. /\ file_chain(image.fat[1], pbt.first, pbt.size) /\ Matches(image, pbt, PBT)
      /\ pbt.first = F[3] /\ pbt.size = ModelBytes
  BY <1>2, <1>3, <1>4, <1>6
<1> QED
  BY <1>5, <1>7, <1>8, <1>9 DEF FilesAreCanonical, efi, jsn, pbt

LEMMA LaidDistribution ==
    ASSUME Laid, ImageShape, copied = Len(Files), attached
    PROVE  DistributionIsCanonical(image)
<1> DEFINE root == image.root.rows
           licenses == root[6]
           dir == Rows(image, licenses.first)
           e == [i \in 1 .. Len(DISTRIBUTION) |-> IF i <= 2 THEN root[i + 3] ELSE dir.rows[i]]
           next == [i \in 1 .. Len(DISTRIBUTION) |->
                    IF i = 1 THEN Behind(root[3])
                    ELSE IF i = 3 THEN licenses.first + 1 ELSE Behind(e[i - 1])]
           F == First(measured)
           L == licenses_first(measured)
           q == <<entry("./", licenses.first, 0), entry("../", 0, 0), dir.rows[3]>>
<1>1. measured \in [AllFiles -> Nat] /\ LayoutFits(measured)
  BY DEF Laid
<1>2. /\ 3 \in 1 .. Len(Files) /\ 4 \in 1 .. Len(Files) /\ 5 \in 1 .. Len(Files) /\ 6 \in 1 .. Len(Files)
      /\ Files[3] = PBT /\ Files[4] = "LICENSE" /\ Files[5] = "SOURCE.TGZ" /\ Files[6] = "3RDPARTY.TXT"
  BY FilesAre
<1>3. /\ root[3] = FileEntry(measured, PBT) /\ root[4] = FileEntry(measured, "LICENSE")
      /\ root[5] = FileEntry(measured, "SOURCE.TGZ") /\ licenses = entry("LICENSES/", L, 0)
      /\ image.data[L].kind = "dir" /\ image.data[L].rows[3] = FileEntry(measured, "3RDPARTY.TXT")
  BY LaidRows
<1>4. licenses.name = "LICENSES/" /\ licenses.first = L
  BY <1>3, EntryIs
<1>5. dir = image.data[L]
  <2>1. L \in 4 .. Limit - 1
    BY <1>1, ChainsApart
  <2>2. U16Max \in Nat /\ Limit \in 5 .. U16Max
    BY FatAssumption
  <2> HIDE DEF L
  <2>3. L \in DOMAIN image.data
    BY <2>1, <2>2 DEF ImageShape
  <2> QED
    BY <1>4, <2>3 DEF Rows
<1>6. ASSUME NEW i \in 1 .. Len(Files)
      PROVE  LET x == FileEntry(measured, Files[i])
             IN  /\ file_chain(image.fat[1], x.first, x.size) /\ Matches(image, x, Files[i])
                 /\ x = entry(Files[i], F[i], x.size) /\ x.size > 0
                 /\ Behind(x) = F[i] + Count(measured, i) /\ clusters(x.size) = Count(measured, i)
  <2>1. LET x == FileEntry(measured, Files[i])
        IN  file_chain(image.fat[1], x.first, x.size) /\ Matches(image, x, Files[i])
    BY LaidEntry
  <2>2. LET x == FileEntry(measured, Files[i])
        IN  /\ x.first = F[i] /\ x = entry(Files[i], x.first, x.size) /\ x.size > 0
            /\ Behind(x) = F[i] + Count(measured, i) /\ clusters(x.size) = Count(measured, i)
    BY <1>1, FileEntryIs
  <2> QED
    BY <2>1, <2>2
<1>7. /\ F[4] = F[3] + Count(measured, 3) /\ F[5] = F[4] + Count(measured, 4)
      /\ L = F[5] + Count(measured, 5) /\ F[6] = L + 1
  BY <1>1, PlacesAre
<1>8. Len(DISTRIBUTION) = 3 /\ DISTRIBUTION[1] = "LICENSE" /\ DISTRIBUTION[2] = "SOURCE.TGZ"
      /\ DISTRIBUTION[3] = "3RDPARTY.TXT"
  BY DEF DISTRIBUTION
<1>9. e[1] = root[4] /\ e[2] = root[5] /\ e[3] = dir.rows[3]
  <2> HIDE DEF root, dir
  <2> QED
    BY <1>8
<1>10. next[1] = Behind(root[3]) /\ next[2] = Behind(e[1]) /\ next[3] = licenses.first + 1
  <2> HIDE DEF root, dir, licenses, e
  <2> QED
    BY <1>8
<1>11. dir = Directory(q)
  <2>1. image.data[L] = Directory(LicenseRows(measured))
    BY LaidData
  <2> DEFINE l == LicenseRows(measured)
  <2>2. Len(l) = 3 /\ l[1] = entry("./", L, 0) /\ l[2] = entry("../", 0, 0) /\ l[3] = FileEntry(measured, "3RDPARTY.TXT")
    BY LicenseRowsAre
  <2>3. Len(q) = 3 /\ q[1] = entry("./", licenses.first, 0) /\ q[2] = entry("../", 0, 0) /\ q[3] = dir.rows[3]
    OBVIOUS
  <2> HIDE DEF l, q, dir, L, licenses
  <2>4. Len(l) = Len(q) /\ Len(l) \in Nat /\ \A k \in 1 .. Len(l) : l[k] = q[k]
    BY <1>3, <1>4, <1>5, <2>2, <2>3
  <2>5. Directory(l) = Directory(q)
    BY <2>4, DirectoryEqual
  <2> QED
    BY <1>5, <2>1, <2>5 DEF l
<1> HIDE DEF root, licenses, dir, e, next, F, L, q
<1>12. Behind(root[3]) = F[4]
  BY <1>2, <1>3, <1>6, <1>7
<1>13. /\ e[1] = FileEntry(measured, Files[4]) /\ e[2] = FileEntry(measured, Files[5])
       /\ e[3] = FileEntry(measured, Files[6])
  BY <1>2, <1>3, <1>5, <1>9
<1>14. next[1] = F[4] /\ next[2] = F[5] /\ next[3] = F[6]
  <2>1. Behind(e[1]) = F[5]
    BY <1>2, <1>6, <1>7, <1>13
  <2> QED
    BY <1>4, <1>7, <1>10, <1>12, <2>1
<1>15. ASSUME NEW i \in 1 .. Len(DISTRIBUTION)
       PROVE  /\ e[i] = entry(DISTRIBUTION[i], next[i], e[i].size)
              /\ e[i].size > 0
              /\ file_chain(image.fat[1], e[i].first, e[i].size)
              /\ Matches(image, e[i], DISTRIBUTION[i])
  <2>1. i = 1 \/ i = 2 \/ i = 3
    BY <1>8
  <2>2. CASE i = 1
    BY <1>2, <1>6, <1>8, <1>13, <1>14, <2>2
  <2>3. CASE i = 2
    BY <1>2, <1>6, <1>8, <1>13, <1>14, <2>3
  <2>4. CASE i = 3
    BY <1>2, <1>6, <1>8, <1>13, <1>14, <2>4
  <2> QED
    BY <2>1, <2>2, <2>3, <2>4
<1>16. licenses.first = Behind(root[3]) + clusters(e[1].size) + clusters(e[2].size)
  <2>1. clusters(e[1].size) = Count(measured, 4) /\ clusters(e[2].size) = Count(measured, 5)
    BY <1>2, <1>6, <1>13
  <2> QED
    BY <1>4, <1>7, <1>12, <2>1
<1>17. dir.kind = "dir"
  BY <1>3, <1>5
<1> QED
  BY <1>4, <1>11, <1>15, <1>16, <1>17 DEF DistributionIsCanonical, Loosely, root, licenses, dir, e, next, q

LEMMA LaidRest ==
    ASSUME Laid, ImageShape, copied = Len(Files)
    PROVE  RestIsZero(image)
<1> DEFINE Of(e) == e.first .. Behind(e) - 1
           root == image.root.rows
           boot == image.data[3].rows
           L == licenses_first(measured)
           n == Len(Files)
<1>1. measured \in [AllFiles -> Nat] /\ LayoutFits(measured)
  BY DEF Laid
<1>2. \A i \in 1 .. n : Of(FileEntry(measured, Files[i])) = Chain(measured, i)
  BY <1>1, FileEntryIs
<1>3. /\ n = (IF attached THEN 6 ELSE 3) /\ Files[1] = EFI /\ Files[2] = JSN /\ Files[3] = PBT
      /\ attached => Files[4] = "LICENSE" /\ Files[5] = "SOURCE.TGZ" /\ Files[6] = "3RDPARTY.TXT"
  BY FilesAre
<1>4. /\ root[3] = FileEntry(measured, PBT) /\ boot[3] = FileEntry(measured, EFI) /\ boot[4] = FileEntry(measured, JSN)
      /\ attached => /\ root[4] = FileEntry(measured, "LICENSE") /\ root[5] = FileEntry(measured, "SOURCE.TGZ")
                     /\ root[6] = entry("LICENSES/", L, 0)
                     /\ image.data[L].rows[3] = FileEntry(measured, "3RDPARTY.TXT")
  BY LaidRows
<1>5. attached => root[6].first = L
  BY <1>4, EntryIs
<1>6. Allocated(image) = {2, 3} \cup Of(boot[3]) \cup Of(boot[4]) \cup Of(root[3]) \cup
              (IF attached
               THEN {root[6].first} \cup Of(root[4]) \cup Of(root[5]) \cup
                    Of(image.data[root[6].first].rows[3])
               ELSE {})
  BY DEF Allocated
<1>7. image.fat[1] = FatTable(measured)
  BY DEF Laid
<1>8. \A c \in 4 .. U16Max :
         (/\ ~(attached /\ c = L) /\ \A i \in 1 .. n : c \notin Chain(measured, i)) => FatTable(measured)[c] = 0
  BY <1>1, TableIs
<1>9. \A c \in 4 .. Limit - 1 :
         (/\ ~(attached /\ c = L) /\ \A i \in 1 .. n : c \notin Chain(measured, i)) => image.data[c] = Zero
  BY LaidData
<1>10. DOMAIN image.data = 2 .. Limit - 1
  BY DEF ImageShape
<1>11. U16Max \in Nat /\ Limit \in 5 .. U16Max
  BY FatAssumption
<1> HIDE DEF Of, root, boot, L, n
<1>12. /\ Of(boot[3]) = Chain(measured, 1) /\ Of(boot[4]) = Chain(measured, 2) /\ Of(root[3]) = Chain(measured, 3)
  <2>1. 1 \in 1 .. n /\ 2 \in 1 .. n /\ 3 \in 1 .. n
    BY <1>3
  <2> QED
    BY <1>2, <1>3, <1>4, <2>1
<1>13. attached => /\ Of(root[4]) = Chain(measured, 4) /\ Of(root[5]) = Chain(measured, 5)
                   /\ Of(image.data[root[6].first].rows[3]) = Chain(measured, 6)
  <2> SUFFICES ASSUME attached
               PROVE  /\ Of(root[4]) = Chain(measured, 4) /\ Of(root[5]) = Chain(measured, 5)
                      /\ Of(image.data[root[6].first].rows[3]) = Chain(measured, 6)
    OBVIOUS
  <2>1. 4 \in 1 .. n /\ 5 \in 1 .. n /\ 6 \in 1 .. n
    BY <1>3
  <2> QED
    BY <1>2, <1>3, <1>4, <1>5, <2>1
<1>14. ASSUME NEW c, c \notin Allocated(image)
       PROVE  c \notin {2, 3} /\ ~(attached /\ c = L) /\ \A i \in 1 .. n : c \notin Chain(measured, i)
  <2>1. c \notin {2, 3} /\ ~(attached /\ c = L)
    BY <1>5, <1>6, <1>14
  <2>2. c \notin Chain(measured, 1) /\ c \notin Chain(measured, 2) /\ c \notin Chain(measured, 3)
    BY <1>6, <1>12, <1>14
  <2>3. attached => c \notin Chain(measured, 4) /\ c \notin Chain(measured, 5) /\ c \notin Chain(measured, 6)
    BY <1>6, <1>13, <1>14
  <2>4. ASSUME NEW i \in 1 .. n PROVE c \notin Chain(measured, i)
    <3>1. i = 1 \/ i = 2 \/ i = 3 \/ (attached /\ (i = 4 \/ i = 5 \/ i = 6))
      BY <1>3
    <3> QED
      BY <2>2, <2>3, <3>1
  <2> QED
    BY <2>1, <2>4
<1>15. ASSUME NEW c \in (4 .. U16Max) \ Allocated(image) PROVE image.fat[1][c] = 0
  BY <1>7, <1>8, <1>14
<1>16. ASSUME NEW c \in (DOMAIN image.data) \ Allocated(image) PROVE image.data[c] = Zero
  <2>1. c \notin {2, 3} /\ ~(attached /\ c = L) /\ \A i \in 1 .. n : c \notin Chain(measured, i)
    BY <1>14
  <2>2. c \in 4 .. Limit - 1
    BY <1>10, <1>11, <2>1
  <2> QED
    BY <1>9, <2>1, <2>2
<1> QED
  BY <1>15, <1>16 DEF RestIsZero

LEMMA BuiltIsAccepted ==
    ASSUME Laid, ImageShape, copied = Len(Files)
    PROVE  inspect_image(image)
<1>1. Identified
  BY DEF Laid, Identified, AllFiles
<1>2. SystemIsCanonical(image) /\ FilesAreCanonical(image) /\ RestIsZero(image)
  BY LaidSystem, LaidFiles, LaidRest
<1>3. attached => DistributionIsCanonical(image)
  BY LaidDistribution
<1> QED
  BY <1>1, <1>2, <1>3 DEF inspect_image

-----------------------------------------------------------------------------
(* The behaviours.                                                          *)

\* What stays when the files, their sizes and the distribution stay.
LEMMA LayoutStays ==
    ASSUME attached' = attached, measured' = measured
    PROVE  /\ Files' = Files /\ First(measured)' = First(measured)
           /\ licenses_first(measured)' = licenses_first(measured)
           /\ \A i : Count(measured, i)' = Count(measured, i)
           /\ \A i : Chain(measured, i)' = Chain(measured, i)
           /\ LayoutFits(measured)' <=> LayoutFits(measured)
<1>1. Files' = Files
  BY DEF Files
<1>2. First(measured)' = First(measured)
  BY <1>1 DEF First
<1> QED
  BY <1>1, <1>2 DEF licenses_first, Count, Chain, LayoutFits

LEMMA TablesStay ==
    ASSUME attached' = attached, measured' = measured
    PROVE  /\ FatTable(measured)' = FatTable(measured)
           /\ RootRows(measured)' = RootRows(measured)
           /\ System(measured)' = System(measured)
<1>1. /\ Files' = Files /\ First(measured)' = First(measured)
      /\ licenses_first(measured)' = licenses_first(measured)
  BY LayoutStays
<1>2. \A i : Chain(measured, i)' = Chain(measured, i)
  BY LayoutStays
<1>3. FatTable(measured)' = FatTable(measured)
  BY <1>1, <1>2 DEF FatTable
<1>4. \A name : FileEntry(measured, name)' = FileEntry(measured, name)
  BY <1>1 DEF FileEntry, Named
<1>5. RootRows(measured)' = RootRows(measured)
  BY <1>1, <1>4 DEF RootRows
<1>6. BootRows(measured)' = BootRows(measured) /\ LicenseRows(measured)' = LicenseRows(measured)
  BY <1>1, <1>4 DEF BootRows, LicenseRows
<1> QED
  BY <1>1, <1>3, <1>5, <1>6 DEF System

LEMMA VerdictStays ==
    ASSUME attached' = attached, source' = source, image' = image, inspect_image(image)
    PROVE  inspect_image(image)'
<1>1. SystemIsCanonical(image)'
  BY DEF inspect_image, SystemIsCanonical
<1>2. FilesAreCanonical(image)'
  BY DEF inspect_image, FilesAreCanonical, Matches
<1>3. Identified'
  BY DEF inspect_image, Identified
<1>4. ASSUME DistributionIsCanonical(image) PROVE DistributionIsCanonical(image)'
  <2> DEFINE root == image.root.rows
             licenses == root[6]
             dir == Rows(image, licenses.first)
             e == [i \in 1 .. Len(DISTRIBUTION) |-> IF i <= 2 THEN root[i + 3] ELSE dir.rows[i]]
             next == [i \in 1 .. Len(DISTRIBUTION) |->
                      IF i = 1 THEN Behind(root[3])
                      ELSE IF i = 3 THEN licenses.first + 1 ELSE Behind(e[i - 1])]
             RowFits(i) == /\ e[i] = entry(DISTRIBUTION[i], next[i], e[i].size)
                        /\ e[i].size > 0
                        /\ file_chain(image.fat[1], e[i].first, e[i].size)
                        /\ Matches(image, e[i], DISTRIBUTION[i])
             Same == /\ Loosely(licenses, "LICENSES/")
                     /\ dir.kind = "dir"
                     /\ licenses.first = Behind(root[3]) + clusters(e[1].size) + clusters(e[2].size)
                     /\ dir = Directory(<<entry("./", licenses.first, 0), entry("../", 0, 0), dir.rows[3]>>)
  <2>1. Same /\ \A i \in 1 .. Len(DISTRIBUTION) : RowFits(i)
    BY <1>4 DEF DistributionIsCanonical
  <2>2. root' = root /\ licenses' = licenses /\ dir' = dir
    OBVIOUS
  <2>3. e' = e /\ next' = next
    BY <2>2
  <2>4. Same'
    <3> HIDE DEF root, licenses, dir, e
    <3> QED
      BY <2>1, <2>2, <2>3
  <2>5. ASSUME NEW i \in 1 .. Len(DISTRIBUTION) PROVE RowFits(i)'
    <3> HIDE DEF root, licenses, dir, e, next
    <3>1. RowFits(i)
      BY <2>1
    <3>2. Matches(image, e[i], DISTRIBUTION[i])'
      BY <2>3, <3>1 DEF Matches
    <3> QED
      BY <2>3, <3>1, <3>2
  <2>6. DistributionIsCanonical(image)' <=> (Same' /\ \A i \in 1 .. Len(DISTRIBUTION) : RowFits(i)')
    BY DEF DistributionIsCanonical
  <2> QED
    BY <2>4, <2>5, <2>6
<1>5. RestIsZero(image)'
  <2>1. Allocated(image)' = Allocated(image)
    BY DEF Allocated
  <2>2. RestIsZero(image)
    BY DEF inspect_image
  <2> QED
    BY <2>1, <2>2 DEF RestIsZero
<1> QED
  BY <1>1, <1>2, <1>3, <1>4, <1>5 DEF inspect_image

\* The image file has all its parts, whatever is in them.
Whole ==
    /\ DOMAIN image = {"boot", "fat", "root", "data"}
    /\ DOMAIN image.fat = {1, 2}
    /\ ImageShape

\* Where the tool is, and what it has done.
FatOrder ==
    /\ attached \in BOOLEAN /\ copied \in 0 .. Len(Files)
    /\ stage \in {"measure", "write"} => copied = 0
    /\ stage = "measure" => disturbed = "no"
    /\ stage = "copy" => copied < Len(Files)
    /\ stage = "built" => copied = Len(Files)

\* As long as nothing is disturbed, the image is the layout of the files.
Undisturbed ==
    disturbed = "no" =>
        /\ \A name \in AllFiles : source[name].version = 0
        /\ stage = "write" => /\ measured \in [AllFiles -> Nat] /\ LayoutFits(measured)
                              /\ \A name \in AllFiles : source[name].size = measured[name]
        /\ stage \in {"copy", "built"} => Laid

FatInv ==
    /\ SourceTyped
    /\ FatOrder
    /\ stage \in {"copy", "built", "accepted", "rejected"} => Whole
    /\ Undisturbed
    /\ stage = "rejected" => disturbed # "no"
    /\ stage = "accepted" => inspect_image(image)

LEMMA FatInvInit == FatInit => FatInv
<1> SUFFICES ASSUME FatInit PROVE FatInv
  OBVIOUS
<1>1. Sizes \subseteq Nat /\ ModelBytes \in Nat \ {0}
  BY FatAssumption
<1>2. source \in [AllFiles -> [size : Sizes \cup {ModelBytes}, version : {0}]]
  BY DEF FatInit
<1>3. SourceTyped
  <2> DEFINE A == [size : Sizes \cup {ModelBytes}, version : {0}]
             B == [size : Nat, version : Nat]
  <2>1. A \subseteq B
    <3>1. \A x \in Sizes \cup {ModelBytes} : x \in Nat
      BY <1>1
    <3>2. ASSUME NEW r \in A PROVE r \in B
      BY <3>1
    <3> QED
      BY <3>2
  <2>2. source \in [AllFiles -> A]
    BY <1>2
  <2> HIDE DEF A, B
  <2>3. source \in [AllFiles -> B]
    BY <2>1, <2>2
  <2> QED
    BY <2>3 DEF B, SourceTyped
<1>4. Len(Files) \in Nat /\ Len(Files) > 0
  BY FilesAre
<1>5. FatOrder
  BY <1>4 DEF FatInit, FatOrder
<1>6. Undisturbed
  BY <1>2 DEF FatInit, Undisturbed
<1> QED
  BY <1>3, <1>5, <1>6 DEF FatInit, FatInv

\* A system without files has all its parts.
LEMMA SystemShaped ==
    ASSUME image' = System(measured)
    PROVE  Whole'
<1>1. DOMAIN FatTable(measured) = 0 .. U16Max
  BY DEF FatTable
<1>2. /\ DOMAIN image' = {"boot", "fat", "root", "data"}
      /\ image'.fat = <<FatTable(measured), FatTable(measured)>>
      /\ DOMAIN image'.data = 2 .. Limit - 1
  BY DEF System
<1>3. DOMAIN image'.fat = {1, 2} /\ image'.fat[1] = FatTable(measured)
  BY <1>2
<1> QED
  BY <1>1, <1>2, <1>3 DEF Whole, ImageShape

LEMMA MeasureKeeps ==
    ASSUME FatInv, Measure
    PROVE  FatInv'
<1>1. /\ stage = "measure" /\ measured' = [n \in AllFiles |-> source[n].size]
      /\ stage' = (IF LayoutFits(measured') THEN "write" ELSE "failed")
      /\ source' = source /\ attached' = attached /\ copied' = copied /\ disturbed' = disturbed
  BY DEF Measure
<1>2. Files' = Files
  BY <1>1 DEF Files
<1>3. LayoutFits(measured)' <=> LayoutFits(measured')
  <2>1. First(measured)' = First(measured')
    BY <1>2 DEF First
  <2> QED
    BY <1>2, <2>1 DEF LayoutFits
<1>4. SourceTyped'
  BY <1>1 DEF FatInv, SourceTyped
<1>5. measured' \in [AllFiles -> Nat] /\ \A name \in AllFiles : source[name].size = measured'[name]
  BY <1>1 DEF FatInv, SourceTyped
<1>6. FatOrder'
  BY <1>1, <1>2 DEF FatInv, FatOrder
<1>7. Undisturbed'
  BY <1>1, <1>3, <1>5 DEF FatInv, Undisturbed
<1> QED
  BY <1>1, <1>4, <1>6, <1>7 DEF FatInv

LEMMA WriteKeeps ==
    ASSUME FatInv, WriteSystem
    PROVE  FatInv'
<1>1. /\ stage = "write" /\ stage' = "copy" /\ image' = System(measured) /\ measured' = measured
      /\ source' = source /\ attached' = attached /\ copied' = copied /\ disturbed' = disturbed
  BY DEF WriteSystem
<1>2. /\ Files' = Files /\ (LayoutFits(measured)' <=> LayoutFits(measured))
  BY <1>1, LayoutStays
<1>3. SourceTyped'
  BY <1>1 DEF FatInv, SourceTyped
<1>4. Whole'
  BY <1>1, SystemShaped
<1>5. copied = 0 /\ Len(Files) \in Nat /\ Len(Files) > 0
  BY <1>1, FilesAre DEF FatInv, FatOrder
<1>6. FatOrder'
  BY <1>1, <1>2, <1>5 DEF FatInv, FatOrder
<1>7. ASSUME disturbed = "no" PROVE Laid'
  <2>1. /\ measured \in [AllFiles -> Nat] /\ LayoutFits(measured)
        /\ \A name \in AllFiles : source[name].version = 0 /\ source[name].size = measured[name]
    BY <1>1, <1>7 DEF FatInv, Undisturbed
  <2>2. /\ FatTable(measured)' = FatTable(measured) /\ RootRows(measured)' = RootRows(measured)
        /\ System(measured)' = System(measured)
    BY <1>1, TablesStay
  <2>3. /\ image'.boot = "bpb" /\ image'.fat = <<FatTable(measured), FatTable(measured)>>
        /\ image'.root = Directory(RootRows(measured))
    BY <1>1 DEF System
  <2>4. copied' = 0 /\ copied' \in 0 .. Len(Files)'
    BY <1>1, <1>2, <1>5
  <2>5. \A i \in 1 .. copied' : FALSE
    BY <2>4
  <2>6. \A c \in 2 .. Limit - 1 : image'.data[c] = System(measured)'.data[c]
    BY <1>1, <2>2
  <2> QED
    BY <1>1, <1>2, <2>1, <2>2, <2>3, <2>4, <2>5, <2>6 DEF Laid
<1>8. Undisturbed'
  BY <1>1, <1>7 DEF FatInv, Undisturbed
<1> QED
  BY <1>1, <1>3, <1>4, <1>6, <1>8 DEF FatInv

\* The next file is copied, or has another size than the measured one.
LEMMA CopyKeeps ==
    ASSUME FatInv, CopyInto
    PROVE  FatInv'
<1> DEFINE j == copied + 1
           name == Files[j]
           first == First(measured)[j]
           new == [c \in DOMAIN image.data |->
                      IF c \in Chain(measured, j) THEN Part(name, source[name], c - first)
                      ELSE image.data[c]]
<1>1. /\ stage = "copy"
      /\ source' = source /\ attached' = attached /\ measured' = measured /\ disturbed' = disturbed
  BY DEF CopyInto
<1>2. \/ /\ image' = [image EXCEPT !.data = new]
         /\ copied' = j /\ stage' = (IF j = Len(Files) THEN "built" ELSE "copy")
      \/ image' = image /\ copied' = copied /\ stage' = "failed"
  BY DEF CopyInto
<1>3. /\ Files' = Files /\ First(measured)' = First(measured)
      /\ (LayoutFits(measured)' <=> LayoutFits(measured))
  BY <1>1, LayoutStays
<1>4. /\ \A i : Count(measured, i)' = Count(measured, i)
      /\ \A i : Chain(measured, i)' = Chain(measured, i)
  BY <1>1, LayoutStays
<1>5. SourceTyped'
  BY <1>1 DEF FatInv, SourceTyped
<1>6. copied \in Nat /\ copied < Len(Files) /\ Len(Files) \in Nat /\ attached \in BOOLEAN
  <2>1. Len(Files) \in Nat
    BY FilesAre
  <2> QED
    BY <1>1, <2>1 DEF FatInv, FatOrder
<1>7. CASE image' = image /\ copied' = copied /\ stage' = "failed"
  <2>1. FatOrder'
    BY <1>1, <1>3, <1>6, <1>7 DEF FatOrder
  <2>2. Undisturbed'
    BY <1>1, <1>7 DEF FatInv, Undisturbed
  <2> QED
    BY <1>5, <1>7, <2>1, <2>2 DEF FatInv
<1>8. CASE /\ image' = [image EXCEPT !.data = new]
           /\ copied' = j /\ stage' = (IF j = Len(Files) THEN "built" ELSE "copy")
  <2>1. Whole
    BY <1>1 DEF FatInv
  <2>2. /\ DOMAIN image' = DOMAIN image /\ image'.fat = image.fat /\ image'.root = image.root
        /\ image'.boot = image.boot /\ image'.data = new
    <3> HIDE DEF new
    <3> QED
      BY <1>8, <2>1 DEF Whole
  <2>3. DOMAIN new = 2 .. Limit - 1
    BY <2>1 DEF Whole, ImageShape
  <2>4. Whole'
    <3> HIDE DEF new
    <3> QED
      BY <2>1, <2>2, <2>3 DEF Whole, ImageShape
  <2>5. j \in 1 .. Len(Files) /\ copied' \in 0 .. Len(Files) /\ (j # Len(Files) => j < Len(Files))
    BY <1>6, <1>8
  <2>6. FatOrder'
    <3> HIDE DEF new
    <3> QED
      BY <1>1, <1>3, <1>6, <1>8, <2>5 DEF FatOrder
  <2>7. ASSUME disturbed = "no" PROVE Laid'
    <3>0. Laid
      BY <1>1, <2>7 DEF FatInv, Undisturbed
    <3>1. /\ measured \in [AllFiles -> Nat] /\ LayoutFits(measured)
          /\ \A x \in AllFiles : source[x].version = 0 /\ source[x].size = measured[x]
          /\ image.boot = "bpb" /\ image.fat = <<FatTable(measured), FatTable(measured)>>
          /\ image.root = Directory(RootRows(measured))
      BY <3>0 DEF Laid
    <3>2. /\ FatTable(measured)' = FatTable(measured) /\ RootRows(measured)' = RootRows(measured)
          /\ System(measured)' = System(measured)
      BY <1>1, TablesStay
    <3>3. ASSUME NEW i \in 1 .. j, NEW k \in 0 .. Count(measured, i) - 1
          PROVE  new[First(measured)[i] + k] = Part(Files[i], source[Files[i]], k)
      <4> DEFINE F == First(measured)[i]
                 c == F + k
      <4>1. i \in 1 .. Len(Files)
        BY <2>5
      <4>2. F \in Nat /\ c \in 4 .. Limit - 1
        <5>1. F \in Nat
          BY <3>1, <4>1, ChainsApart
        <5>2. c \in 4 .. Limit - 1
          BY <3>1, <4>1, TableIs
        <5> QED
          BY <5>1, <5>2
      <4>3. c \in Chain(measured, i)
        BY <3>1, <4>1, ChainIs
      <4>4. c \in DOMAIN image.data
        <5>1. U16Max \in Nat /\ Limit \in 5 .. U16Max
          BY FatAssumption
        <5>2. c \in 2 .. Limit - 1
          <6> HIDE DEF c
          <6> QED
            BY <4>2, <5>1
        <5> QED
          BY <2>1, <5>2 DEF Whole, ImageShape
      <4>5. CASE i = j
        <5>1. new[c] = Part(name, source[name], c - first)
          BY <4>3, <4>4, <4>5
        <5>2. c - first = k
          BY <4>2, <4>5
        <5> QED
          BY <4>5, <5>1, <5>2
      <4>6. CASE i # j
        <5>1. i \in 1 .. copied
          BY <1>6, <4>6
        <5>2. c \notin Chain(measured, j)
          BY <2>5, <3>1, <4>1, <4>3, <4>6, ChainIs
        <5>3. new[c] = image.data[c]
          BY <4>4, <5>2
        <5>4. image.data[c] = Part(Files[i], source[Files[i]], k)
          BY <3>0, <5>1 DEF Laid
        <5> QED
          BY <5>3, <5>4
      <4> QED
        BY <4>5, <4>6
    <3>4. ASSUME NEW c \in 2 .. Limit - 1, \A i \in 1 .. j : c \notin Chain(measured, i)
          PROVE  new[c] = System(measured).data[c]
      <4>1. c \notin Chain(measured, j) /\ \A i \in 1 .. copied : c \notin Chain(measured, i)
        BY <1>6, <3>4
      <4>2. c \in DOMAIN image.data
        BY <2>1 DEF Whole, ImageShape
      <4>3. new[c] = image.data[c]
        BY <4>1, <4>2
      <4>4. image.data[c] = System(measured).data[c]
        BY <3>0, <4>1 DEF Laid
      <4> QED
        BY <4>3, <4>4
    <3> HIDE DEF new
    <3>5. copied' \in 0 .. Len(Files)' /\ copied' = j
      BY <1>3, <1>8, <2>5
    <3> HIDE DEF j
    <3>6. \A i \in 1 .. copied' : \A k \in 0 .. Count(measured, i)' - 1 :
             image'.data[First(measured)'[i] + k] = Part(Files'[i], source'[Files'[i]], k)
      <4> TAKE i \in 1 .. copied'
      <4>1. Count(measured, i)' = Count(measured, i)
        BY <1>4
      <4> TAKE k \in 0 .. Count(measured, i)' - 1
      <4>2. i \in 1 .. j /\ k \in 0 .. Count(measured, i) - 1
        BY <3>5, <4>1
      <4>3. new[First(measured)[i] + k] = Part(Files[i], source[Files[i]], k)
        BY <3>3, <4>2
      <4> QED
        BY <1>1, <1>3, <2>2, <4>3
    <3>7. \A c \in 2 .. Limit - 1 :
             (\A i \in 1 .. copied' : c \notin Chain(measured, i)') => image'.data[c] = System(measured)'.data[c]
      BY <1>4, <2>2, <3>2, <3>4, <3>5
    <3> QED
      BY <1>1, <1>3, <2>2, <3>1, <3>2, <3>5, <3>6, <3>7 DEF Laid
  <2>8. Undisturbed'
    <3>1. disturbed = "no" => \A x \in AllFiles : source[x].version = 0
      BY DEF FatInv, Undisturbed
    <3> HIDE DEF new
    <3> QED
      BY <1>1, <1>8, <2>7, <3>1 DEF Undisturbed
  <2> QED
    BY <1>5, <1>8, <2>4, <2>6, <2>8 DEF FatInv
<1> QED
  BY <1>2, <1>7, <1>8

\* A cluster of an undisturbed image is zero, a directory or a part of a file.
LEMMA LaidKinds ==
    ASSUME Laid, ImageShape, NEW c \in DOMAIN image.data
    PROVE  \/ image.data[c] = Zero
           \/ image.data[c].kind = "dir"
           \/ image.data[c].kind = "part"
<1>1. /\ measured \in [AllFiles -> Nat] /\ LayoutFits(measured) /\ copied \in 0 .. Len(Files)
  BY DEF Laid
<1>2. U16Max \in Nat /\ Limit \in 5 .. U16Max /\ c \in 2 .. Limit - 1
  BY FatAssumption DEF ImageShape
<1>3. c = 2 \/ c = 3 \/ c \in 4 .. Limit - 1
  BY <1>2
<1>4. \A rows : Directory(rows).kind = "dir"
  BY DEF Directory
<1>5. /\ image.data[2] = Directory(EfiRows) /\ image.data[3] = Directory(BootRows(measured))
      /\ attached => image.data[licenses_first(measured)] = Directory(LicenseRows(measured))
      /\ \A x \in 4 .. Limit - 1 :
            (/\ ~(attached /\ x = licenses_first(measured))
             /\ \A i \in 1 .. copied : x \notin Chain(measured, i)) => image.data[x] = Zero
  BY LaidData
<1>6. ASSUME NEW i \in 1 .. copied, c \in Chain(measured, i) PROVE image.data[c].kind = "part"
  <2>1. i \in 1 .. Len(Files)
    <3>1. Len(Files) \in Nat
      BY FilesAre
    <3> QED
      BY <1>1, <3>1
  <2>2. PICK k \in 0 .. Count(measured, i) - 1 : c = First(measured)[i] + k
    BY <1>1, <1>6, <2>1, ChainIs
  <2>3. image.data[c] = Part(Files[i], source[Files[i]], k)
    BY <2>2 DEF Laid
  <2> QED
    BY <2>3 DEF Part
<1>7. CASE c = 2 \/ c = 3
  BY <1>4, <1>5, <1>7
<1>8. CASE c \in 4 .. Limit - 1
  BY <1>4, <1>5, <1>6, <1>8
<1> QED
  BY <1>3, <1>7, <1>8

\* Damage changes what the image holds and not its size.
LEMMA DamageShaped ==
    ASSUME Whole, image' \in Damages,
           \A c \in DOMAIN image.data : \/ image.data[c] = Zero
                                        \/ image.data[c].kind = "dir"
                                        \/ image.data[c].kind = "part"
    PROVE  Whole'
<1> DEFINE D(f, c) == image' = [image EXCEPT !.fat = f] /\ DOMAIN f = {1, 2} /\ DOMAIN f[1] = DOMAIN image.fat[1]
           A == {[image EXCEPT !.boot = "dirt"]}
           B == {[image EXCEPT !.fat[copy][c] = v] : copy \in {1, 2}, c \in 0 .. U16Max, v \in 0 .. U16Max}
           C == {[image EXCEPT !.fat = [copy \in {1, 2} |-> [@[copy] EXCEPT ![c] = v]]] :
                    c \in 0 .. U16Max, v \in 0 .. U16Max}
           R == {[image EXCEPT !.root = dir] : dir \in AlteredDirectory(image.root)}
           Cell(c) ==
              CASE image.data[c] = Zero -> {[image EXCEPT !.data[c] = Dirt]}
                [] image.data[c].kind = "dir" ->
                      {[image EXCEPT !.data[c] = dir] : dir \in AlteredDirectory(image.data[c])}
                [] image.data[c].kind = "part" ->
                      {[image EXCEPT !.data[c].version = 2]} \cup
                      (IF image.data[c].bytes < ClusterBytes
                       THEN {[image EXCEPT !.data[c].slack = 1]} ELSE {})
<1>1. Damages = A \cup B \cup C \cup R \cup UNION {Cell(c) : c \in DOMAIN image.data}
  BY DEF Damages
<1>2. /\ DOMAIN image = {"boot", "fat", "root", "data"} /\ DOMAIN image.fat = {1, 2}
      /\ DOMAIN image.fat[1] = 0 .. U16Max /\ DOMAIN image.data = 2 .. Limit - 1
  BY DEF Whole, ImageShape
<1>3. CASE image' \in A
  BY <1>2, <1>3 DEF Whole, ImageShape
<1>4. CASE image' \in B
  <2>1. PICK copy \in {1, 2}, c \in 0 .. U16Max, v \in 0 .. U16Max :
           image' = [image EXCEPT !.fat = [image.fat EXCEPT ![copy] = [image.fat[copy] EXCEPT ![c] = v]]]
    BY <1>4
  <2> DEFINE f == [image.fat EXCEPT ![copy] = [image.fat[copy] EXCEPT ![c] = v]]
  <2>2. DOMAIN f = {1, 2} /\ DOMAIN f[1] = 0 .. U16Max
    BY <1>2
  <2>3. DOMAIN image' = DOMAIN image /\ image'.fat = f /\ image'.data = image.data
    <3> HIDE DEF f
    <3> QED
      BY <1>2, <2>1 DEF f
  <2> HIDE DEF f
  <2> QED
    BY <1>2, <2>2, <2>3 DEF Whole, ImageShape
<1>5. CASE image' \in C
  <2>1. PICK c \in 0 .. U16Max, v \in 0 .. U16Max :
           image' = [image EXCEPT !.fat = [copy \in {1, 2} |-> [image.fat[copy] EXCEPT ![c] = v]]]
    BY <1>5
  <2> DEFINE f == [copy \in {1, 2} |-> [image.fat[copy] EXCEPT ![c] = v]]
  <2>2. DOMAIN f = {1, 2} /\ DOMAIN f[1] = 0 .. U16Max
    BY <1>2
  <2>3. DOMAIN image' = DOMAIN image /\ image'.fat = f /\ image'.data = image.data
    <3> HIDE DEF f
    <3> QED
      BY <1>2, <2>1 DEF f
  <2> HIDE DEF f
  <2> QED
    BY <1>2, <2>2, <2>3 DEF Whole, ImageShape
<1>6. CASE image' \in R
  BY <1>2, <1>6 DEF Whole, ImageShape
<1>7. CASE image' \in UNION {Cell(c) : c \in DOMAIN image.data}
  <2>1. PICK c \in DOMAIN image.data : image' \in Cell(c)
    BY <1>7
  <2>2. ASSUME NEW x, image' = [image EXCEPT !.data = [image.data EXCEPT ![c] = x]]
        PROVE  Whole'
    BY <1>2, <2>2 DEF Whole, ImageShape
  <2>3. Zero.kind = "zero"
    BY DEF Zero
  <2>4. CASE image.data[c] = Zero
    <3>1. image.data[c].kind # "dir" /\ image.data[c].kind # "part"
      BY <2>3, <2>4
    <3>2. Cell(c) = {[image EXCEPT !.data[c] = Dirt]}
      BY <2>4, <3>1
    <3>3. image' = [image EXCEPT !.data = [image.data EXCEPT ![c] = Dirt]]
      BY <2>1, <3>2
    <3> QED
      BY <2>2, <3>3
  <2>5. CASE image.data[c].kind = "dir"
    <3>1. image.data[c].kind # "part" /\ image.data[c] # Zero
      BY <2>3, <2>5
    <3>2. Cell(c) = {[image EXCEPT !.data[c] = dir] : dir \in AlteredDirectory(image.data[c])}
      BY <2>5, <3>1
    <3>3. PICK dir : image' = [image EXCEPT !.data = [image.data EXCEPT ![c] = dir]]
      BY <2>1, <3>2
    <3> QED
      BY <2>2, <3>3
  <2>6. CASE image.data[c].kind = "part"
    <3>1. image.data[c].kind # "dir" /\ image.data[c] # Zero
      BY <2>3, <2>6
    <3>2. Cell(c) = {[image EXCEPT !.data[c].version = 2]} \cup
                    (IF image.data[c].bytes < ClusterBytes
                     THEN {[image EXCEPT !.data[c].slack = 1]} ELSE {})
      BY <2>6, <3>1
    <3>3. \/ image' = [image EXCEPT !.data = [image.data EXCEPT ![c] = [image.data[c] EXCEPT !.version = 2]]]
          \/ image' = [image EXCEPT !.data = [image.data EXCEPT ![c] = [image.data[c] EXCEPT !.slack = 1]]]
      BY <2>1, <3>2
    <3> QED
      BY <2>2, <3>3
  <2> QED
    BY <2>4, <2>5, <2>6
<1> QED
  BY <1>1, <1>3, <1>4, <1>5, <1>6, <1>7

LEMMA InspectKeeps ==
    ASSUME FatInv, InspectImage
    PROVE  FatInv'
<1>1. /\ stage = "built" /\ stage' = (IF inspect_image(image) THEN "accepted" ELSE "rejected")
      /\ source' = source /\ attached' = attached /\ measured' = measured /\ image' = image
      /\ copied' = copied /\ disturbed' = disturbed
  BY DEF InspectImage
<1>2. Files' = Files
  BY <1>1 DEF Files
<1>3. SourceTyped' /\ FatOrder'
  BY <1>1, <1>2 DEF FatInv, SourceTyped, FatOrder
<1>4. Whole /\ copied = Len(Files)
  BY <1>1 DEF FatInv, FatOrder
<1>5. Whole'
  BY <1>1, <1>4 DEF Whole, ImageShape
<1>6. Undisturbed'
  BY <1>1 DEF FatInv, Undisturbed
<1>7. stage' = "rejected" => disturbed' # "no"
  <2> SUFFICES ASSUME disturbed = "no" PROVE stage' = "accepted"
    BY <1>1
  <2>1. Laid
    BY <1>1 DEF FatInv, Undisturbed
  <2>2. inspect_image(image)
    BY <1>4, <2>1, BuiltIsAccepted DEF Whole
  <2> QED
    BY <1>1, <2>2
<1>8. stage' = "accepted" => inspect_image(image)'
  BY <1>1, VerdictStays
<1> QED
  BY <1>3, <1>5, <1>6, <1>7, <1>8 DEF FatInv

LEMMA DamageKeeps ==
    ASSUME FatInv, Damage
    PROVE  FatInv'
<1>1. /\ stage = "built" /\ disturbed = "no" /\ image' \in Damages /\ disturbed' = "image"
      /\ source' = source /\ attached' = attached /\ measured' = measured
      /\ stage' = stage /\ copied' = copied
  BY DEF Damage
<1>2. Files' = Files
  BY <1>1 DEF Files
<1>3. SourceTyped' /\ FatOrder'
  BY <1>1, <1>2 DEF FatInv, SourceTyped, FatOrder
<1>4. Whole /\ Laid
  BY <1>1 DEF FatInv, Undisturbed
<1>5. Whole'
  <2>1. \A c \in DOMAIN image.data : \/ image.data[c] = Zero
                                     \/ image.data[c].kind = "dir"
                                     \/ image.data[c].kind = "part"
    BY <1>4, LaidKinds DEF Whole
  <2> QED
    BY <1>1, <1>4, <2>1, DamageShaped
<1>6. Undisturbed'
  BY <1>1 DEF Undisturbed
<1> QED
  BY <1>1, <1>3, <1>5, <1>6 DEF FatInv

LEMMA RewriteKeeps ==
    ASSUME FatInv, NEW name \in AllFiles, Rewrite(name)
    PROVE  FatInv'
<1>1. /\ stage \in {"write", "copy", "built"} /\ disturbed' = "source"
      /\ image' = image /\ attached' = attached /\ measured' = measured
      /\ stage' = stage /\ copied' = copied
  BY DEF Rewrite
<1>2. Files' = Files
  BY <1>1 DEF Files
<1>3. PICK size \in Sizes : source' = [source EXCEPT ![name] = [size |-> size, version |-> 1]]
  BY DEF Rewrite
<1>4. SourceTyped'
  <2>1. size \in Nat
    BY FatAssumption
  <2>2. [size |-> size, version |-> 1] \in [size : Nat, version : Nat]
    BY <2>1
  <2> QED
    BY <1>3, <2>2 DEF FatInv, SourceTyped
<1>5. FatOrder'
  BY <1>1, <1>2 DEF FatInv, FatOrder
<1>6. Whole => Whole'
  BY <1>1 DEF Whole, ImageShape
<1>7. Undisturbed'
  BY <1>1 DEF Undisturbed
<1> QED
  BY <1>1, <1>4, <1>5, <1>6, <1>7 DEF FatInv

LEMMA FatStutters ==
    ASSUME FatInv, UNCHANGED fatVars
    PROVE  FatInv'
<1>1. /\ source' = source /\ attached' = attached /\ measured' = measured /\ image' = image
      /\ stage' = stage /\ copied' = copied /\ disturbed' = disturbed
  BY DEF fatVars
<1>2. /\ Files' = Files /\ First(measured)' = First(measured)
      /\ (LayoutFits(measured)' <=> LayoutFits(measured))
  BY <1>1, LayoutStays
<1>3. /\ \A i : Count(measured, i)' = Count(measured, i)
      /\ \A i : Chain(measured, i)' = Chain(measured, i)
  BY <1>1, LayoutStays
<1>4. SourceTyped' /\ FatOrder' /\ (Whole => Whole')
  BY <1>1, <1>2 DEF FatInv, SourceTyped, FatOrder, Whole, ImageShape
<1>5. /\ FatTable(measured)' = FatTable(measured) /\ RootRows(measured)' = RootRows(measured)
      /\ System(measured)' = System(measured)
  BY <1>1, TablesStay
<1>6. Laid => Laid'
  BY <1>1, <1>2, <1>3, <1>5 DEF Laid
<1>7. Undisturbed'
  BY <1>1, <1>2, <1>6 DEF FatInv, Undisturbed
<1>8. stage' = "accepted" => inspect_image(image)'
  BY <1>1, VerdictStays DEF FatInv
<1> QED
  BY <1>1, <1>4, <1>7, <1>8 DEF FatInv

\* What build_fat_image and inspect_image keep, whatever is rewritten or damaged.
THEOREM FatInvariance == FatSpec => []FatInv
<1>1. FatInit => FatInv
  BY FatInvInit
<1>2. FatInv /\ [FatNext]_fatVars => FatInv'
  BY MeasureKeeps, WriteKeeps, CopyKeeps, InspectKeeps, DamageKeeps, RewriteKeeps, FatStutters DEF FatNext
<1> QED
  BY <1>1, <1>2, PTL DEF FatSpec

\* The verdict of inspect_image is exact: an image it accepts gives a FAT driver
\* every file and holds nothing else, and it rejects no undisturbed image.
THEOREM VerdictAlwaysExact == FatSpec => []VerdictIsExact
<1>1. ASSUME FatInv PROVE VerdictIsExact
  <2>1. stage = "rejected" => disturbed # "no"
    BY <1>1 DEF FatInv
  <2>2. stage = "accepted" => ReadsAll /\ NothingElse
    BY <1>1, AcceptedReads, AcceptedHolds DEF FatInv, Whole
  <2> QED
    BY <2>1, <2>2 DEF VerdictIsExact, ReadsAll, Reads, NothingElse
<1> QED
  BY <1>1, FatInvariance, PTL

=============================================================================
