------------------------------ MODULE FatImage ------------------------------
(***************************************************************************)
(* The FAT16 boot image (image.rs): build_fat_image lays the files out and *)
(* writes them, inspect_image decides whether an image is exactly that.    *)
(* Between the steps a source file may be rewritten, and the finished      *)
(* image may be damaged anywhere.                                          *)
(*                                                                         *)
(* A cluster of the data area holds a directory or a part of one file; the *)
(* bytes of a file are told apart by its version, a directory entry's name *)
(* and attributes by its name.                                             *)
(***************************************************************************)
EXTENDS Naturals, Sequences, FiniteSets

CONSTANTS
    ClusterBytes,   \* CLUSTER_BYTES (8192)
    U16Max,         \* 0xffff: the last FAT entry, and the end-of-chain mark
    Limit,          \* the first cluster behind the data area (65503)
    ModelBytes,     \* MODEL_BYTES
    Slots,          \* entries of a directory (512 in the root)
    Sizes           \* the sizes that other files may have

ASSUME FatAssumption ==
    /\ ClusterBytes \in Nat \ {0} /\ Limit \in 5 .. U16Max /\ U16Max \in Nat
    /\ Slots \in Nat /\ Slots >= 6 /\ Sizes \subseteq Nat /\ ModelBytes \in Nat \ {0}

VARIABLES
    source,     \* the files next to the image
    attached,   \* whether a distribution is included
    measured,   \* the sizes read by build_fat_image
    image,      \* the image file
    stage,      \* where build_fat_image and inspect_image are
    copied,     \* files copied into the image so far
    disturbed   \* a source was rewritten, or the image damaged

fatVars == <<source, attached, measured, image, stage, copied, disturbed>>

EFI == "BOOTX64.EFI"
JSN == "BUILD.JSN"
PBT == "MODEL.PBT"

\* The first two are in the root, the others in LICENSES (six in the code).
DISTRIBUTION == <<"LICENSE", "SOURCE.TGZ", "3RDPARTY.TXT">>

Files == <<EFI, JSN, PBT>> \o (IF attached THEN DISTRIBUTION ELSE << >>)
Named(name) == CHOOSE i \in 1 .. Len(Files) : Files[i] = name
AllFiles == {EFI, JSN, PBT} \cup {DISTRIBUTION[i] : i \in 1 .. Len(DISTRIBUTION)}

\* A cluster is zero, has some other bytes, is a directory or a part of a file.
Zero == [kind |-> "zero"]
Dirt == [kind |-> "dirt"]

entry(name, first, size) == [name |-> name, first |-> first, size |-> size, stamp |-> 0]
ZeroRow == entry("zero", 0, 0)
OtherRow == entry("other", 2, 0)


clusters(size) == (size + ClusterBytes - 1) \div ClusterBytes

-----------------------------------------------------------------------------
(* The layout.                                                              *)

\* The first cluster of each file, and the end of the last one: clusters 2 and 3
\* are EFI and EFI/BOOT, the cluster before the third distribution file is LICENSES.
First(sizes) ==
    LET f[i \in 1 .. Len(Files) + 1] ==
            IF i = 1 THEN 4
            ELSE f[i - 1] + clusters(sizes[Files[i - 1]]) + (IF i = 6 THEN 1 ELSE 0)
    IN  f

licenses_first(sizes) == First(sizes)[6] - 1

\* All the errors of the layout: empty files, u16 overflow, the fixed geometry.
LayoutFits(sizes) ==
    /\ sizes[PBT] = ModelBytes
    /\ \A i \in 1 .. Len(Files) : sizes[Files[i]] > 0
    /\ First(sizes)[Len(Files) + 1] <= Limit

Chain(sizes, i) == First(sizes)[i] .. First(sizes)[i] + clusters(sizes[Files[i]]) - 1

\* Reserved entries and the two directories, then one chain per file.
FatTable(sizes) ==
    [c \in 0 .. U16Max |->
        IF c <= 3 THEN U16Max
        ELSE IF attached /\ c = licenses_first(sizes) THEN U16Max
        ELSE IF \E i \in 1 .. Len(Files) : c \in Chain(sizes, i)
             THEN LET i == CHOOSE k \in 1 .. Len(Files) : c \in Chain(sizes, k)
                  IN  IF c + 1 \in Chain(sizes, i) THEN c + 1 ELSE U16Max
        ELSE 0]

FileEntry(sizes, name) == entry(name, First(sizes)[Named(name)], sizes[name])

\* The rows of a directory, the rest of it zero.
Directory(rows) ==
    [kind |-> "dir", rows |-> [k \in 1 .. Slots |-> IF k <= Len(rows) THEN rows[k] ELSE ZeroRow]]

RootRows(sizes) ==
    <<entry("PROMPTBOOT", 0, 0), entry("EFI/", 2, 0), FileEntry(sizes, PBT)>> \o
    (IF attached THEN <<FileEntry(sizes, DISTRIBUTION[1]), FileEntry(sizes, DISTRIBUTION[2]),
                        entry("LICENSES/", licenses_first(sizes), 0)>>
     ELSE << >>)

EfiRows == <<entry("./", 2, 0), entry("../", 0, 0), entry("BOOT/", 3, 0)>>

BootRows(sizes) == <<entry("./", 3, 0), entry("../", 2, 0),
                     FileEntry(sizes, EFI), FileEntry(sizes, JSN)>>

LicenseRows(sizes) ==
    <<entry("./", licenses_first(sizes), 0), entry("../", 0, 0)>> \o
    [k \in 1 .. Len(DISTRIBUTION) - 2 |-> FileEntry(sizes, DISTRIBUTION[k + 2])]

\* The image before the files are copied; set_len made it all zero.
System(sizes) ==
    [boot |-> "bpb", fat |-> <<FatTable(sizes), FatTable(sizes)>>,
     root |-> Directory(RootRows(sizes)),
     data |-> [c \in 2 .. Limit - 1 |->
        IF c = 2 THEN Directory(EfiRows)
        ELSE IF c = 3 THEN Directory(BootRows(sizes))
        ELSE IF attached /\ c = licenses_first(sizes) THEN Directory(LicenseRows(sizes))
        ELSE Zero]]

\* The k-th cluster of a file: its bytes, and the slack behind the last of them.
Part(name, file, k) ==
    [kind |-> "part", file |-> name, version |-> file.version, part |-> k,
     bytes |-> IF (k + 1) * ClusterBytes <= file.size THEN ClusterBytes
               ELSE file.size - k * ClusterBytes,
     slack |-> 0]

-----------------------------------------------------------------------------
(* build_fat_image.                                                         *)

FatInit ==
    /\ attached \in BOOLEAN
    /\ source \in {s \in [AllFiles -> [size : Sizes \cup {ModelBytes}, version : {0}]] :
                      s[PBT].size = ModelBytes /\ \A n \in AllFiles \ {PBT} : s[n].size \in Sizes}
    /\ measured = << >> /\ image = Zero
    /\ stage = "measure" /\ copied = 0 /\ disturbed = "no"

Measure ==
    /\ stage = "measure"
    /\ measured' = [n \in AllFiles |-> source[n].size]
    /\ stage' = IF LayoutFits(measured') THEN "write" ELSE "failed"
    /\ UNCHANGED <<source, attached, image, copied, disturbed>>

\* Boot sector, both FATs, root and directories.
WriteSystem ==
    /\ stage = "write"
    /\ image' = System(measured)
    /\ stage' = "copy"
    /\ UNCHANGED <<source, attached, measured, copied, disturbed>>

\* copy_into of the next file, unless its size is not the measured one.
CopyInto ==
    /\ stage = "copy"
    /\ LET name == Files[copied + 1]
           first == First(measured)[copied + 1]
       IN  IF source[name].size = measured[name]
           THEN /\ image' = [image EXCEPT !.data = [c \in DOMAIN @ |->
                        IF c \in Chain(measured, copied + 1)
                        THEN Part(name, source[name], c - first) ELSE @[c]]]
                /\ copied' = copied + 1
                /\ stage' = IF copied' = Len(Files) THEN "built" ELSE "copy"
           ELSE stage' = "failed" /\ UNCHANGED <<image, copied>>
    /\ UNCHANGED <<source, attached, measured, disturbed>>

-----------------------------------------------------------------------------
(* inspect_image.                                                           *)

\* Mutated form of file_chain: the last cluster may point anywhere.
FileChainOpen(fat, first, size) ==
    \A k \in 0 .. clusters(size) - 1 :
        /\ first + k \in 2 .. U16Max
        /\ k # clusters(size) - 1 => fat[first + k] = first + k + 1

\* file_chain: consecutive clusters, closed by the end-of-chain mark.
file_chain(fat, first, size) ==
    \A k \in 0 .. clusters(size) - 1 :
        /\ first + k \in 2 .. U16Max
        /\ fat[first + k] = IF k = clusters(size) - 1 THEN U16Max ELSE first + k + 1

\* range_matches_path and the slack check: an error when the image ends before.
Matches(img, e, name) ==
    /\ e.size = source[name].size
    /\ \A k \in 0 .. clusters(e.size) - 1 :
          /\ e.first + k \in DOMAIN img.data
          /\ img.data[e.first + k] = Part(name, source[name], k)

Rows(img, c) == IF c \in DOMAIN img.data THEN img.data[c] ELSE Zero

\* name, attributes and first cluster alone are compared in two entries.
Loosely(e, name) == e.name = name

Exactly(e, name) == e = entry(name, e.first, e.size)

SystemIsCanonical(img) ==
    /\ img.boot = "bpb"
    /\ img.fat[1] = img.fat[2]
    /\ \A c \in 0 .. 3 : img.fat[1][c] = U16Max
    /\ Loosely(img.root.rows[3], PBT)
    /\ img.root = Directory(<<entry("PROMPTBOOT", 0, 0), entry("EFI/", 2, 0)>> \o
                            [k \in 1 .. (IF attached THEN 4 ELSE 1) |-> img.root.rows[k + 2]])
    /\ img.data[2] = Directory(EfiRows)
    /\ img.data[3].kind = "dir"
    /\ LET rows == img.data[3].rows
       IN  /\ Exactly(rows[3], EFI) /\ Exactly(rows[4], JSN)
           /\ img.data[3] = Directory(<<entry("./", 3, 0), entry("../", 2, 0), rows[3], rows[4]>>)

\* The clusters behind a file.
Behind(e) == e.first + clusters(e.size)

FilesAreCanonical(img) ==
    LET efi == img.data[3].rows[3]
        jsn == img.data[3].rows[4]
        pbt == img.root.rows[3]
    IN  /\ file_chain(img.fat[1], efi.first, efi.size)
        /\ file_chain(img.fat[1], jsn.first, jsn.size)
        /\ efi.size > 0 /\ jsn.size > 0
        /\ efi.first = 4 /\ jsn.first = Behind(efi)
        /\ Matches(img, jsn, JSN) /\ Matches(img, efi, EFI)
        /\ pbt.size = ModelBytes /\ pbt.first = Behind(jsn)
        /\ file_chain(img.fat[1], pbt.first, ModelBytes)
        /\ Matches(img, pbt, PBT)

\* What BUILD.JSN says: it was written for these bytes of the EFI program, and
\* the hash of the model is pinned.
Identified == \A n \in {EFI, JSN, PBT} : source[n].version = 0

DistributionIsCanonical(img) ==
    LET root == img.root.rows
        licenses == root[6]
        dir == Rows(img, licenses.first)
        e == [i \in 1 .. Len(DISTRIBUTION) |-> IF i <= 2 THEN root[i + 3] ELSE dir.rows[i]]
        next == [i \in 1 .. Len(DISTRIBUTION) |->
                    IF i = 1 THEN Behind(root[3])
                    ELSE IF i = 3 THEN licenses.first + 1 ELSE Behind(e[i - 1])]
    IN  /\ Loosely(licenses, "LICENSES/")
        /\ dir.kind = "dir"
        /\ licenses.first = Behind(root[3]) + clusters(e[1].size) + clusters(e[2].size)
        /\ dir = Directory(<<entry("./", licenses.first, 0), entry("../", 0, 0), dir.rows[3]>>)
        /\ \A i \in 1 .. Len(DISTRIBUTION) :
              /\ e[i] = entry(DISTRIBUTION[i], next[i], e[i].size)
              /\ e[i].size > 0
              /\ file_chain(img.fat[1], e[i].first, e[i].size)
              /\ Matches(img, e[i], DISTRIBUTION[i])

Allocated(img) ==
    LET Of(e) == e.first .. Behind(e) - 1
        root == img.root.rows
        boot == img.data[3].rows
    IN  {2, 3} \cup Of(boot[3]) \cup Of(boot[4]) \cup Of(root[3]) \cup
        (IF attached
         THEN {root[6].first} \cup Of(root[4]) \cup Of(root[5]) \cup
              Of(img.data[root[6].first].rows[3])
         ELSE {})

\* Orphan FAT entries and data in clusters of no file.
RestIsZero(img) ==
    /\ \A c \in (4 .. U16Max) \ Allocated(img) : img.fat[1][c] = 0
    /\ \A c \in (DOMAIN img.data) \ Allocated(img) : img.data[c] = Zero

inspect_image(img) ==
    /\ SystemIsCanonical(img)
    /\ FilesAreCanonical(img)
    /\ Identified
    /\ attached => DistributionIsCanonical(img)
    /\ RestIsZero(img)

InspectImage ==
    /\ stage = "built"
    /\ stage' = IF inspect_image(image) THEN "accepted" ELSE "rejected"
    /\ UNCHANGED <<source, attached, measured, image, copied, disturbed>>

-----------------------------------------------------------------------------
(* What happens around the tool, once in a behaviour.                       *)

\* A source file is written again, perhaps with another size.
Rewrite(name) ==
    /\ disturbed = "no" /\ stage \in {"write", "copy", "built"}
    /\ \E size \in Sizes : source' = [source EXCEPT ![name] = [size |-> size, version |-> 1]]
    /\ disturbed' = "source"
    /\ UNCHANGED <<attached, measured, image, stage, copied>>

Altered(e) == {[e EXCEPT !.first = f] : f \in 0 .. U16Max} \cup
              {[e EXCEPT !.size = s] : s \in 0 .. U16Max} \cup
              {[e EXCEPT !.stamp = 1], [e EXCEPT !.name = "other"]} \cup {ZeroRow}

AlteredDirectory(dir) ==
    {[dir EXCEPT !.rows[k] = OtherRow] : k \in 1 .. Slots} \cup
    UNION {{[dir EXCEPT !.rows[k] = e] : e \in Altered(dir.rows[k])} : k \in 1 .. Slots}

\* One place of the image holds something else: the boot sector, FAT entries in
\* one copy or in both, a directory entry, the bytes or the slack of a cluster.
Damages ==
    {[image EXCEPT !.boot = "dirt"]} \cup
    {[image EXCEPT !.fat[copy][c] = v] : copy \in {1, 2}, c \in 0 .. U16Max, v \in 0 .. U16Max} \cup
    {[image EXCEPT !.fat = [copy \in {1, 2} |-> [@[copy] EXCEPT ![c] = v]]] :
        c \in 0 .. U16Max, v \in 0 .. U16Max} \cup
    {[image EXCEPT !.root = dir] : dir \in AlteredDirectory(image.root)} \cup
    UNION {
        CASE image.data[c] = Zero -> {[image EXCEPT !.data[c] = Dirt]}
          [] image.data[c].kind = "dir" ->
                {[image EXCEPT !.data[c] = dir] : dir \in AlteredDirectory(image.data[c])}
          [] image.data[c].kind = "part" ->
                {[image EXCEPT !.data[c].version = 2]} \cup
                (IF image.data[c].bytes < ClusterBytes
                 THEN {[image EXCEPT !.data[c].slack = 1]} ELSE {}) :
        c \in DOMAIN image.data}

Damage ==
    /\ disturbed = "no" /\ stage = "built"
    /\ image' \in Damages \ {image}
    /\ disturbed' = "image"
    /\ UNCHANGED <<source, attached, measured, stage, copied>>

FatNext ==
    \/ Measure \/ WriteSystem \/ CopyInto \/ InspectImage \/ Damage
    \/ \E name \in AllFiles : Rewrite(name)

FatSpec == FatInit /\ [][FatNext]_fatVars

-----------------------------------------------------------------------------
(* Properties.                                                              *)

\* What any FAT driver finds: the clusters of an entry, by following a FAT.
Walk(fat, first, n) ==
    LET w[k \in 1 .. n] == IF k = 1 THEN first
                           ELSE IF w[k - 1] \in DOMAIN fat THEN fat[w[k - 1]] ELSE 0
    IN  w

\* The entry of a path, looked up by name in the directories.
Find(dir, name) ==
    IF dir.kind = "dir" /\ \E k \in 1 .. Slots : dir.rows[k].name = name
    THEN dir.rows[CHOOSE k \in 1 .. Slots : dir.rows[k].name = name]
    ELSE ZeroRow

Lookup(name) ==
    LET Sub(dir, n) == Rows(image, Find(dir, n).first)
    IN  IF name \in {PBT, "LICENSE", "SOURCE.TGZ"} THEN Find(image.root, name)
        ELSE IF name \in {EFI, JSN} THEN Find(Sub(Sub(image.root, "EFI/"), "BOOT/"), name)
        ELSE Find(Sub(image.root, "LICENSES/"), name)

\* An accepted image, damaged or built from files that changed meanwhile, gives
\* a FAT driver that follows either table the bytes of every file beside it, and
\* holds nothing else: data and FAT entries belong to the same clusters, except
\* that nothing reads the FAT entry of the LICENSES directory.  An image built
\* from files that stayed the same is accepted.
VerdictIsExact ==
    /\ stage = "rejected" => disturbed # "no"
    /\ stage = "accepted" =>
        /\ \A i \in 1 .. Len(Files), copy \in {1, 2} :
              LET e == Lookup(Files[i])
                  n == clusters(e.size)
                  w == Walk(image.fat[copy], e.first, n)
              IN  /\ e.size = source[Files[i]].size
                  /\ \A k \in 1 .. n : Rows(image, w[k]) = Part(Files[i], source[Files[i]], k - 1)
                  /\ image.fat[copy][w[n]] = U16Max
        /\ \A c \in 2 .. U16Max, copy \in {1, 2} :
              \/ (image.fat[copy][c] # 0) = (Rows(image, c) # Zero)
              \/ attached /\ c = Find(image.root, "LICENSES/").first
=============================================================================
