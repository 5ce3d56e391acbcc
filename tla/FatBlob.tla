------------------------------ MODULE FatBlob ------------------------------
(***************************************************************************)
(* The FATBLOB container (src/fatblob): Encode and Decode of the trailing  *)
(* blob, the canonical image native ++ Encode(blob), and the               *)
(* reconstruction of the image for another architecture.                   *)
(*                                                                         *)
(* An image is a sequence of cells.  A field of the format (the magic, the *)
(* count, one index entry, the trailer length, the trailer magic) is one   *)
(* cell, and so is each unit of opaque bytes; lengths and offsets count    *)
(* cells.  What the code reads as a number or as an index entry where      *)
(* opaque bytes lie is taken to be out of range, and is rejected.          *)
(*                                                                         *)
(* A function that may fail is two operators: <name>OK, the conjunction of *)
(* the checks that return no error, and <name>, the value returned then.   *)
(***************************************************************************)
EXTENDS Integers, Sequences

CONSTANTS
    Word,           \* units of opaque bytes: native code, compressed streams
    Magic,          \* "FATBLOB\x02"
    TrailerMagic,   \* "FATBLOBZ"; opaque bytes may hold it as well
    ElfMagic,       \* the first bytes of an ELF
    XzMagic,        \* the header of an .xz stream
    Name,           \* the architecture ids that fit the 8 bytes of an entry
    MaxCount,       \* the largest u16
    MaxInt,         \* the largest int of the machine
    MaxWord,        \* the largest u64
    MaxAlloc,       \* the largest capacity make([]byte) accepts
    Encoder,        \* the xz encoders a build machine may have
    Natives,        \* the raw binaries that are ever compressed
    Xz              \* Xz[e][n] is the .xz stream encoder e makes of n

Bytes == Seq(Word)

StatusPresent == 0
StatusReserved == 1
CodecNone == 0
CodecXZ == 1
Byte == 0..2                      \* 2: any value without a meaning
U64 == 0..MaxWord
Int64 == -(MaxInt + 1)..MaxInt

CountField == [count : 0..MaxCount]
EntryField == [name : Name, status : Byte, codec : Byte,
               offset : U64, length : U64, rawLen : U64]
TotalField == [total : U64]
Cell == Word \cup CountField \cup EntryField \cup TotalField

\* The data of a slice are opaque bytes, or whatever cells a damaged index
\* makes of them.
Slice == [arch : Name, status : Byte, codec : Byte, rawLen : U64,
          data : Seq(Cell)]

HeaderLen == 2                    \* magic and count
TrailerLen == 2                   \* total length and trailer magic

ASSUME FormatAssumption ==
    /\ {Magic, TrailerMagic, ElfMagic, XzMagic} \subseteq Word
    /\ \A w \in Word : w \notin CountField \cup EntryField \cup TotalField
    /\ MaxCount \in Nat /\ MaxInt \in Nat /\ MaxAlloc \in Nat
    /\ MaxWord \in Nat /\ MaxWord >= 2 * MaxInt + 1

\* .xz is lossless, whichever encoder made the stream.
ASSUME XzAssumption ==
    /\ Xz \in [Encoder -> [Natives -> Bytes]]
    /\ \A n \in Natives : n \in Bytes
    /\ \A e \in Encoder, n \in Natives :
          Xz[e][n] # <<>> /\ Xz[e][n][1] = XzMagic
    /\ \A d, e \in Encoder, m, n \in Natives : Xz[d][m] = Xz[e][n] => m = n

-----------------------------------------------------------------------------
(* Machine integers: uint64(i) wraps, int(u) keeps the low bits of a u64,  *)
(* int + int wraps.                                                        *)

Uint64(i) == i % (MaxWord + 1)

IntOf(u) ==
    IF u <= MaxInt THEN u
    ELSE LET low == u % (2 * (MaxInt + 1))
         IN  IF low <= MaxInt THEN low ELSE low - 2 * (MaxInt + 1)

Wrap(i) ==
    IF i > MaxInt THEN i - 2 * (MaxInt + 1)
    ELSE IF i < -(MaxInt + 1) THEN i + 2 * (MaxInt + 1)
    ELSE i

-----------------------------------------------------------------------------
(* Encode.  A blob is a sequence of slices.                                *)

\* Payload(b)[i]: the data of the first i slices, one after the other.
Payload(b) ==
    LET pay[i \in 0..Len(b)] == IF i = 0 THEN <<>> ELSE pay[i - 1] \o b[i].data
    IN  pay

\* Mutant of Entry: the status is forgotten.
EntryPresent(b, i) ==
    [name |-> b[i].arch, status |-> StatusPresent, codec |-> b[i].codec,
     offset |-> Uint64(Len(Payload(b)[i - 1])),
     length |-> Uint64(Len(b[i].data)),
     rawLen |-> b[i].rawLen]

\* The running offset is the length of all the payload before the slice.
Entry(b, i) ==
    [name |-> b[i].arch, status |-> b[i].status, codec |-> b[i].codec,
     offset |-> Uint64(Len(Payload(b)[i - 1])),
     length |-> Uint64(Len(b[i].data)),
     rawLen |-> b[i].rawLen]

EncodedLen(b) == HeaderLen + Len(b) + Len(Payload(b)[Len(b)]) + TrailerLen

EncodeOK(b) ==
    /\ Len(b) <= MaxCount
    /\ \A i \in 1..Len(b) : b[i].arch \in Name
    /\ \A i \in 1..Len(b) : b[i].codec \in {CodecNone, CodecXZ}

Header(b) == <<Magic, [count |-> Len(b)]>>
Index(b) == [i \in 1..Len(b) |-> Entry(b, i)]
Trailer(b) == <<[total |-> Uint64(EncodedLen(b))], TrailerMagic>>

Encode(b) == Header(b) \o Index(b) \o Payload(b)[Len(b)] \o Trailer(b)

-----------------------------------------------------------------------------
(* Decode.  Offsets below are the code's 0-based ones.                     *)

PayloadStart(data) == HeaderLen + data[2].count
PayloadEnd(data) == Len(data) - TrailerLen
Start(data, e) == Wrap(PayloadStart(data) + IntOf(e.offset))
End(data, e) == Wrap(Start(data, e) + IntOf(e.length))

\* Mutant of EntryOK: a length that wraps below the start is accepted.
EntryOKUnordered(data, e) ==
    /\ e \in EntryField
    /\ Start(data, e) >= PayloadStart(data)
    /\ End(data, e) <= PayloadEnd(data)

EntryOK(data, e) ==
    /\ e \in EntryField
    /\ Start(data, e) >= PayloadStart(data)
    /\ End(data, e) <= PayloadEnd(data)
    /\ End(data, e) >= Start(data, e)

DecodeOK(data) ==
    /\ Len(data) >= HeaderLen + TrailerLen
    /\ data[1] = Magic
    /\ data[Len(data)] = TrailerMagic
    /\ data[Len(data) - 1] = [total |-> Len(data)]
    /\ data[2] \in CountField
    /\ PayloadStart(data) <= PayloadEnd(data)
    /\ \A i \in 1..data[2].count : EntryOK(data, data[HeaderLen + i])

SliceAt(data, e) ==
    [arch |-> e.name, status |-> e.status, codec |-> e.codec,
     rawLen |-> e.rawLen,
     data |-> SubSeq(data, Start(data, e) + 1, End(data, e))]

Decode(data) == [i \in 1..data[2].count |-> SliceAt(data, data[HeaderLen + i])]

-----------------------------------------------------------------------------
(* Canonical images.                                                       *)

BuildCanonical(native, b) == native \o Encode(b)

BlobLen(image) == image[Len(image) - 1].total
HeadOf(image) == SubSeq(image, 1, Len(image) - BlobLen(image))
TailOf(image) == SubSeq(image, Len(image) - BlobLen(image) + 1, Len(image))
BlobOf(image) == Decode(TailOf(image))

SplitOK(image) ==
    /\ Len(image) >= TrailerLen
    /\ image[Len(image)] = TrailerMagic
    /\ image[Len(image) - 1] \in TotalField
    /\ BlobLen(image) > 0 /\ BlobLen(image) <= Len(image)
    /\ DecodeOK(TailOf(image))

-----------------------------------------------------------------------------
(* Codecs.                                                                 *)

\* make([]byte, 0, rawLen+1), after the stream's header was accepted.
Allocation(s) == IF s.rawLen = MaxWord THEN 0 ELSE s.rawLen + 1

XzHeaderOK(s) == s.codec = CodecXZ /\ s.data # <<>> /\ s.data[1] = XzMagic

DecompressPanics(s) == XzHeaderOK(s) /\ Allocation(s) > MaxAlloc

StreamOf(data, n) == \E e \in Encoder : Xz[e][n] = data

DecompressOK(s) ==
    \/ s.codec = CodecNone
    \/ /\ XzHeaderOK(s)
       /\ ~DecompressPanics(s)
       /\ \E n \in Natives : StreamOf(s.data, n) /\ Len(n) = s.rawLen

Decompress(s) ==
    IF s.codec = CodecNone THEN s.data
    ELSE CHOOSE n \in Natives : StreamOf(s.data, n)

\* Compress: the raw bytes are stored when the stream is not smaller.
Compress(raw, e) ==
    IF Len(Xz[e][raw]) >= Len(raw)
    THEN [codec |-> CodecNone, data |-> raw]
    ELSE [codec |-> CodecXZ, data |-> Xz[e][raw]]

Occupied(s) == s.status = StatusPresent /\ s.data # <<>>

CompressSlice(s, e) ==
    IF Occupied(s)
    THEN [arch |-> s.arch, status |-> s.status, codec |-> Compress(s.data, e).codec,
          rawLen |-> Len(s.data), data |-> Compress(s.data, e).data]
    ELSE [arch |-> s.arch, status |-> s.status, codec |-> CodecNone,
          rawLen |-> 0, data |-> s.data]

CompressBlobOK(raw) ==
    \A i \in 1..Len(raw) : Occupied(raw[i]) => raw[i].codec = CodecNone

CompressBlob(raw, e) == [i \in 1..Len(raw) |-> CompressSlice(raw[i], e)]

-----------------------------------------------------------------------------
(* Reconstruct: the first slice named target decides.                      *)

FirstSlice(b, target, i) ==
    /\ i \in 1..Len(b)
    /\ b[i].arch = target
    /\ \A j \in 1..(i - 1) : b[j].arch # target

HasPrefix(s, w) == s # <<>> /\ s[1] = w

ReconstructPanics(image, target) ==
    /\ SplitOK(image)
    /\ LET b == BlobOf(image)
       IN  \E i \in 1..Len(b) : /\ FirstSlice(b, target, i)
                                /\ Occupied(b[i])
                                /\ DecompressPanics(b[i])

\* Mutant of ReconstructOK: what was decompressed need not be an ELF file.
ReconstructAnyOK(image, target) ==
    /\ SplitOK(image)
    /\ LET b == BlobOf(image)
       IN  /\ EncodeOK(b)
           /\ \E i \in 1..Len(b) : /\ FirstSlice(b, target, i)
                                   /\ Occupied(b[i])
                                   /\ DecompressOK(b[i])

ReconstructOK(image, target) ==
    /\ SplitOK(image)
    /\ LET b == BlobOf(image)
       IN  /\ EncodeOK(b)
           /\ \E i \in 1..Len(b) : /\ FirstSlice(b, target, i)
                                   /\ Occupied(b[i])
                                   /\ DecompressOK(b[i])
                                   /\ HasPrefix(Decompress(b[i]), ElfMagic)

\* Mutant of Reconstruct: the slice is copied as it is stored.
ReconstructStored(image, target) ==
    LET b == BlobOf(image)
        i == CHOOSE i \in 1..Len(b) : FirstSlice(b, target, i)
    IN  BuildCanonical(b[i].data, b)

\* Mutant of Reconstruct: the slice stays decompressed in the new blob.
ReconstructRecoded(image, target) ==
    LET b == BlobOf(image)
        i == CHOOSE i \in 1..Len(b) : FirstSlice(b, target, i)
        raw == Decompress(b[i])
    IN  BuildCanonical(raw, [b EXCEPT ![i].codec = CodecNone, ![i].data = raw])

Reconstruct(image, target) ==
    LET b == BlobOf(image)
        i == CHOOSE i \in 1..Len(b) : FirstSlice(b, target, i)
    IN  BuildCanonical(Decompress(b[i]), b)

=============================================================================
