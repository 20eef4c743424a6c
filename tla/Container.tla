----------------------------- MODULE Container -----------------------------
(***************************************************************************)
(* The PBTQW25 container: pack.rs lays it out and writes it, inspect.rs    *)
(* compares it with the source, model.rs (open_authenticated) decides at   *)
(* boot whether it may be indexed.  The file that a validator sees may     *)
(* differ from the packed one in any one place, with digests to match or   *)
(* without.                                                                *)
(*                                                                         *)
(* A unit of the model's file is an element that the code reads as a whole *)
(* (an offset, a byte, an id); a digest is told apart by what it is of.    *)
(***************************************************************************)
EXTENDS Naturals, Sequences, FiniteSets, SequencesExt

CONSTANTS
    Unit,           \* the alignment (64)
    HeaderUnits,    \* HEADER_BYTES
    Bytes,          \* the bytes of UTF-8 strings
    Vocabulary,     \* the token strings of the source, each a sequence of bytes
    Types,          \* their types
    Merges,         \* the merges of the source, pairs of token strings
    Template,       \* the chat template
    Tensors,        \* the lengths of the source tensors, in pack order
    Regular         \* the ids that a merge may give are below (151 643)

ASSUME ContainerAssumption ==
    /\ Unit \in Nat \ {0} /\ HeaderUnits \in Nat /\ Regular \in Nat
    \* the shapes of the 291 tensors fill whole alignment units
    /\ Tensors \in Seq(Nat \ {0}) \ {<< >>}
    /\ \A i \in 1 .. Len(Tensors) : Tensors[i] % Unit = 0

\* What tokenizer_sections demands of the source, and what is known of the one
\* source whose digest is accepted.
ASSUME SourceAssumption ==
    /\ "invalid" \notin Bytes
    /\ Vocabulary \in Seq(Seq(Bytes) \ {<< >>})
    /\ \A i, j \in 1 .. Len(Vocabulary) : Vocabulary[i] = Vocabulary[j] => i = j
    /\ Types \in Seq({1, 3, 4, 5}) /\ Len(Types) = Len(Vocabulary)
    /\ Merges \in Seq(Seq(Bytes) \X Seq(Bytes))
    /\ \A m \in 1 .. Len(Merges) :
          /\ \E i \in 1 .. Len(Vocabulary) : Vocabulary[i] = Merges[m][1]
          /\ \E i \in 1 .. Len(Vocabulary) : Vocabulary[i] = Merges[m][2]
          /\ \E i \in 1 .. Len(Vocabulary) :
                i <= Regular /\ Vocabulary[i] = Merges[m][1] \o Merges[m][2]
    /\ Template \in Seq(Bytes) \ {<< >>} /\ Template[1] = "{"

VARIABLES
    file,       \* MODEL.PBT
    spoiled,    \* whether one place of it was changed
    inspected,  \* the verdict of inspect
    opened      \* the verdict of open_authenticated

containerVars == <<file, spoiled, inspected, opened>>

align(value) == ((value + Unit - 1) \div Unit) * Unit

-----------------------------------------------------------------------------
(* pack.                                                                    *)

TokenId(text) == (CHOOSE i \in 1 .. Len(Vocabulary) : Vocabulary[i] = text) - 1

\* Where the strings begin among the bytes, and where the last one ends.
TokenStarts ==
    LET at[i \in 1 .. Len(Vocabulary) + 1] ==
            IF i = 1 THEN 0 ELSE at[i - 1] + Len(Vocabulary[i - 1])
    IN  at

\* offsets, bytes, types, merges and template.
tokenizer_sections ==
    << TokenStarts,
       FlattenSeq(Vocabulary),
       Types,
       [i \in 1 .. Len(Merges) |->
           <<TokenId(Merges[i][1]), TokenId(Merges[i][2]),
             TokenId(Merges[i][1] \o Merges[i][2])>>],
       Template >>

Directory7 == 7
RowUnits == 1

\* Where things of these lengths begin, each aligned, and where the next would.
Offsets(lengths, start) ==
    LET at[i \in 1 .. Len(lengths) + 1] ==
            IF i = 1 THEN align(start) ELSE align(at[i - 1] + lengths[i - 1])
    IN  at

SectionLengths ==
    [i \in 1 .. 6 |-> IF i = 6 THEN Len(Tensors) * RowUnits ELSE Len(tokenizer_sections[i])]

SectionOffsets == Offsets(SectionLengths, HeaderUnits + Directory7)

TensorOffsets == Offsets(Tensors, SectionOffsets[7])

FileSize == TensorOffsets[Len(Tensors)] + Tensors[Len(Tensors)]

\* A row of the tensor directory: id, layer, role, dtype, rank and dimensions
\* are its schema.
TensorRow(i) ==
    [schema |-> i, offset |-> TensorOffsets[i], length |-> Tensors[i],
     digest |-> <<"tensor", i>>, reserved |-> 0]

\* A section's digest is that of its content: the packed one, or something else.
SectionRow(i) ==
    [schema |-> i, offset |-> SectionOffsets[i],
     length |-> IF i = 7 THEN FileSize - SectionOffsets[7] ELSE SectionLengths[i],
     digest |-> <<"section", i>>]

\* Identity fields and the digest of what is behind the header.
header(content) == [fields |-> "identity", content |-> content, reserved |-> 0]

\* copy_region: the bytes of a source tensor.
payload(i) == <<"tensor", i>>

padding == 0

Packed ==
    [size |-> FileSize,
     header |-> header("content"),
     rows |-> [i \in 1 .. 7 |-> SectionRow(i)],
     sections |-> tokenizer_sections,
     tensors |-> [i \in 1 .. Len(Tensors) |-> TensorRow(i)],
     data |-> [i \in 1 .. Len(Tensors) |-> payload(i)],
     gaps |-> [i \in 1 .. 7 |-> padding]]

\* What a digest over section i of the file f is, and over all behind its header.
SectionDigest(f, i) ==
    LET same == IF i <= 5 THEN f.sections[i] = Packed.sections[i]
                ELSE IF i = 6 THEN f.tensors = Packed.tensors
                ELSE f.data = Packed.data
    IN  IF same THEN <<"section", i>> ELSE <<"other", 0>>

ContentDigest(f) ==
    IF [f EXCEPT !.header = Packed.header] = Packed THEN "content" ELSE "changed"

ContainerInit ==
    /\ file = [size |-> 0]
    /\ spoiled = FALSE /\ inspected = "none" /\ opened = "none"

Pack ==
    /\ file.size = 0
    /\ file' = Packed
    /\ UNCHANGED <<spoiled, inspected, opened>>

-----------------------------------------------------------------------------
(* One place of the file is changed.                                        *)

Numbers == 0 .. FileSize + 1

\* The bytes of the sections 1 to 5: any element is another one.
SpoiledSections ==
    UNION {
        {[file.sections EXCEPT ![1][k] = v] : k \in DOMAIN file.sections[1], v \in Numbers},
        {[file.sections EXCEPT ![2][k] = v] : k \in DOMAIN file.sections[2],
                                              v \in Range(file.sections[2]) \cup {"invalid"}},
        {[file.sections EXCEPT ![3][k] = v] : k \in DOMAIN file.sections[3], v \in 0 .. 5},
        {[file.sections EXCEPT ![4][k][j] = v] : k \in DOMAIN file.sections[4], j \in 1 .. 3,
                                                 v \in 0 .. Len(Vocabulary)},
        {[file.sections EXCEPT ![5][k] = v] : k \in DOMAIN file.sections[5],
                                              v \in {"x", "invalid"}}}

SpoiledHeaders ==
    UNION {
        {[file EXCEPT !.size = v] : v \in Numbers},
        {[file EXCEPT !.header.fields = "other"], [file EXCEPT !.header.content = "other"],
         [file EXCEPT !.header.reserved = 1]}}

SpoiledRow(field, values) ==
    {[file EXCEPT !.rows[i][field] = v] : i \in 1 .. 7, v \in values}

SpoiledRows ==
    UNION {SpoiledRow("schema", {0}), SpoiledRow("offset", Numbers),
           SpoiledRow("length", Numbers), SpoiledRow("digest", {<<"other", 0>>})}

SpoiledTensor(field, values) ==
    {[file EXCEPT !.tensors[i][field] = v] : i \in DOMAIN file.tensors, v \in values}

SpoiledTensors ==
    UNION {SpoiledTensor("schema", {0}), SpoiledTensor("offset", Numbers),
           SpoiledTensor("length", Numbers), SpoiledTensor("digest", {<<"other", 0>>}),
           SpoiledTensor("reserved", {1})}

SpoiledContents ==
    UNION {
        {[file EXCEPT !.sections = s] : s \in SpoiledSections},
        {[file EXCEPT !.gaps[i] = 1] : i \in {k \in 2 .. 7 :
            SectionOffsets[k] > SectionOffsets[k - 1] + SectionLengths[k - 1]}},
        {[file EXCEPT !.data[i] = <<"other", i>>] : i \in DOMAIN file.data}}

SpoiledFiles == SpoiledHeaders \cup SpoiledRows \cup SpoiledTensors \cup SpoiledContents

\* The digests of the file are right for what it holds: another source or a
\* mistake of the packer.
Coherent(f) ==
    LET tensors == [f EXCEPT !.tensors = [i \in DOMAIN f.tensors |->
                                            [f.tensors[i] EXCEPT !.digest = f.data[i]]]]
        rows == [tensors EXCEPT !.rows = [i \in 1 .. 7 |->
                    [f.rows[i] EXCEPT !.digest = SectionDigest(tensors, i)]]]
    IN  [rows EXCEPT !.header.content = ContentDigest(rows)]

Spoil ==
    /\ file.size # 0 /\ ~spoiled /\ inspected = "none" /\ opened = "none"
    /\ \E f \in SpoiledFiles \ {file} : file' \in {f, Coherent(f)}
    /\ spoiled' = TRUE
    /\ UNCHANGED <<inspected, opened>>

-----------------------------------------------------------------------------
(* inspect.                                                                 *)

validate_header ==
    /\ file.header = header(ContentDigest(file))
    /\ file.size = FileSize

\* Schema and canonical offset of a section, behind the one before it.
validate_section_layout(i) ==
    LET row == file.rows[i]
        previous_end == IF i = 1 THEN HeaderUnits + Directory7
                        ELSE file.rows[i - 1].offset + file.rows[i - 1].length
    IN  /\ row.schema = i /\ row.length = SectionRow(i).length
        /\ row.offset % Unit = 0 /\ row.offset >= previous_end
        /\ row.offset + row.length <= file.size
        /\ row.offset = SectionOffsets[i]

\* Mutated form of validate_section_evidence: any digest will do that is right.
ValidateSectionRecomputed(i) ==
    /\ file.gaps[i] = padding
    /\ file.rows[i].digest = SectionDigest(file, i)

\* Padding and digest, which is the canonical one.
validate_section_evidence(i) ==
    /\ file.gaps[i] = padding
    /\ file.rows[i].digest = SectionDigest(file, i)
    /\ SectionDigest(file, i) = <<"section", i>>

same_region(i) == file.data[i] = payload(i)

\* validate_tensor_layout and validate_tensor_evidence: the row, the digest and
\* the bytes, compared with the source's.
validate_tensor(i, previous_end) ==
    LET row == file.tensors[i]
    IN  /\ row.schema = i /\ row.length = Tensors[i]
        /\ row.offset % Unit = 0 /\ row.offset >= previous_end
        /\ row.reserved = 0
        /\ row.digest = file.data[i] /\ same_region(i)

TensorEnd(i, start) == IF i = 0 THEN start ELSE file.tensors[i].offset + file.tensors[i].length

inspect ==
    /\ validate_header
    /\ \A i \in 1 .. 7 : validate_section_layout(i) /\ validate_section_evidence(i)
    /\ file.rows[7].offset + file.rows[7].length = file.size
    /\ \A i \in 1 .. Len(Tensors) :
          validate_tensor(i, TensorEnd(i - 1, file.rows[7].offset))
    /\ TensorEnd(Len(Tensors), 0) = file.size

InspectContainer ==
    /\ file.size # 0 /\ inspected = "none"
    /\ inspected' = IF inspect THEN "pass" ELSE "failed"
    /\ UNCHANGED <<file, spoiled, opened>>

-----------------------------------------------------------------------------
(* ModelView::open_authenticated: nothing is hashed but the token table.    *)

SectionsValid ==
    /\ file.size = FileSize
    /\ file.header.fields = "identity" /\ file.header.reserved = 0
    /\ \A i \in 1 .. 7 :
          LET row == file.rows[i]
              previous_end == IF i = 1 THEN HeaderUnits + Directory7
                              ELSE file.rows[i - 1].offset + file.rows[i - 1].length
          IN  /\ row.schema = i /\ row.length = SectionRow(i).length
              /\ row.offset % Unit = 0 /\ row.offset >= previous_end
              /\ row.offset = SectionOffsets[i]
              /\ file.gaps[i] = 0

\* Mutated form of validate_tensors: a tensor may begin behind the one before it.
ValidateTensorsLoosely ==
    \A i \in 1 .. Len(Tensors) :
        /\ file.tensors[i].schema = i /\ file.tensors[i].length = Tensors[i]
        /\ file.tensors[i].offset % Unit = 0 /\ file.tensors[i].reserved = 0

\* Every tensor has its length and begins where the one before it ends.
validate_tensors ==
    /\ \A i \in 1 .. Len(Tensors) :
          LET row == file.tensors[i]
          IN  /\ row.schema = i /\ row.length = Tensors[i]
              /\ row.offset = TensorEnd(i - 1, SectionOffsets[7])
              /\ row.offset % Unit = 0
              /\ row.reserved = 0
    /\ TensorEnd(Len(Tensors), 0) = FileSize

TokenIds == 0 .. Len(Vocabulary) - 1

token_bytes(id) == SubSeq(file.sections[2], file.sections[1][id + 1] + 1, file.sections[1][id + 2])

\* Rising offsets to the end of the bytes, UTF-8, known types in the known
\* numbers; the digests of the strings and of the types.
TokensValid ==
    LET offsets == file.sections[1]
    IN  /\ offsets[1] = 0
        /\ \A id \in TokenIds :
              /\ offsets[id + 2] > offsets[id + 1] /\ offsets[id + 2] <= Len(file.sections[2])
              /\ "invalid" \notin Range(token_bytes(id))
              /\ file.sections[3][id + 1] \in {1, 3, 4, 5}
        /\ offsets[Len(Vocabulary) + 1] = Len(file.sections[2])
        /\ \A type \in {1, 3, 4, 5} :
              Cardinality({i \in 1 .. Len(Types) : file.sections[3][i] = type}) =
              Cardinality({i \in 1 .. Len(Types) : Types[i] = type})
        /\ [i \in 1 .. Len(Vocabulary) |-> token_bytes(i - 1)] = Vocabulary
        /\ file.sections[3] = Types

\* Ids in range, the result's string is the concatenation, the digest of the
\* strings of left and right.
MergesValid ==
    \A rank \in 1 .. Len(Merges) :
        LET merge == file.sections[4][rank]
        IN  /\ \A k \in 1 .. 3 : merge[k] \in TokenIds
            /\ merge[3] < Regular
            /\ token_bytes(merge[3]) = token_bytes(merge[1]) \o token_bytes(merge[2])
            /\ <<token_bytes(merge[1]), token_bytes(merge[2])>> = Merges[rank]

TemplateValid == file.sections[5][1] = "{" /\ "invalid" \notin Range(file.sections[5])

open_authenticated ==
    SectionsValid /\ validate_tensors /\ TokensValid /\ MergesValid /\ TemplateValid

Open ==
    /\ file.size # 0 /\ opened = "none"
    /\ opened' = IF open_authenticated THEN "ok" ELSE "error"
    /\ UNCHANGED <<file, spoiled, inspected>>

ContainerNext == Pack \/ Spoil \/ InspectContainer \/ Open

ContainerSpec == ContainerInit /\ [][ContainerNext]_containerVars

-----------------------------------------------------------------------------
(* Properties.                                                              *)

\* What the packer writes passes both validators, and the inspector passes
\* nothing else, not even a file with digests right for what it holds: the two
\* layouts and the three readings of them agree.
InspectedIsPacked ==
    /\ inspected = "pass" => file = Packed
    /\ ~spoiled => inspected # "failed" /\ opened # "error"

\* A container that the runtime opens, whatever was changed in it, is indexed
\* inside its own bounds and without overlap: its tensors, as far as the tensor
\* data goes, and its tokens, types and merges are the packed ones.
OpenedIsUsable ==
    opened = "ok" =>
        /\ \A i, j \in 1 .. Len(Tensors) :
              /\ SectionOffsets[7] <= file.tensors[i].offset
              /\ file.tensors[i].offset + file.tensors[i].length <= file.size
              /\ i < j => file.tensors[i].offset + file.tensors[i].length <= file.tensors[j].offset
        /\ SubSeq(file.sections, 1, 4) = SubSeq(tokenizer_sections, 1, 4)
=============================================================================
