--------------------------- MODULE ReleaseProofs ---------------------------
(***************************************************************************)
(* Cross-architecture reconstruction is exact: any file that carries the   *)
(* blob of a release yields, for every released architecture, the very     *)
(* image that was built for it, and for any other name an error.           *)
(***************************************************************************)
EXTENDS Release, FatBlobProofs

\* A slot of the shared blob is the compressed slot of the raw blob.
LEMMA SlotDef ==
    ASSUME NEW nat, NEW e, Builds(nat, e)
    PROVE  LET b == SharedBlob(nat, e)
           IN  /\ Len(ArchOrder) \in Nat
               /\ Len(b) = Len(ArchOrder)
               /\ b = [i \in 1..Len(ArchOrder) |->
                          CompressSlice(RawSlice(nat, ArchOrder[i]), e)]
<1>1. Len(ArchOrder) \in Nat
  BY ReleaseAssumption, LenProperties
<1>2. /\ Len(RawBlob(nat)) = Len(ArchOrder)
      /\ \A i \in 1..Len(ArchOrder) :
            RawBlob(nat)[i] = RawSlice(nat, ArchOrder[i])
  BY <1>1 DEF RawBlob
<1> QED
  BY <1>1, <1>2 DEF SharedBlob, CompressBlob

\* A released architecture's slot: decompressing it gives the native back.
LEMMA ReleasedSlot ==
    ASSUME NEW nat, NEW e, Builds(nat, e), NEW a \in Released(nat),
           NEW s, s = CompressSlice(RawSlice(nat, a), e)
    PROVE  /\ s \in Slice
           /\ s.data \in Bytes
           /\ s.arch = a
           /\ s.codec \in {CodecNone, CodecXZ}
           /\ Occupied(s)
           /\ ~DecompressPanics(s)
           /\ DecompressOK(s)
           /\ Decompress(s) = nat[a]
           /\ HasPrefix(nat[a], ElfMagic)
<1> DEFINE n == nat[a]
           x == Xz[e][n]
<1>1. /\ e \in Encoder /\ a \in Supported /\ n # <<>>
      /\ n \in Bytes /\ n \in Natives /\ n[1] = ElfMagic
      /\ Len(n) < MaxAlloc /\ Len(n) <= MaxInt /\ Len(n) \in Nat
  <2>1. a \in Supported /\ n # <<>> /\ e \in Encoder
    BY DEF Released, Builds
  <2>2. n \in Bytes /\ Len(n) \in Nat
    BY <2>1, LenProperties DEF Builds, Bytes
  <2> QED
    BY <2>1, <2>2 DEF Builds
<1>2. a \in Name
  <2>1. PICK k \in 1..Len(ArchOrder) : a = ArchOrder[k]
    BY <1>1, ReleaseAssumption DEF Arch
  <2> QED
    BY <2>1, ReleaseAssumption, ElementOfSeq
<1>3. x \in Bytes /\ x # <<>> /\ x[1] = XzMagic
  BY <1>1, XzAssumption
<1>4. /\ Len(n) \in U64 /\ Len(n) # MaxWord
      /\ Len(n) + 1 <= MaxAlloc /\ CodecXZ # CodecNone
  BY <1>1, FormatAssumption DEF U64, CodecXZ, CodecNone
<1>5. RawSlice(nat, a) = [arch |-> a, status |-> StatusPresent,
                          codec |-> CodecNone, rawLen |-> 0, data |-> n]
  BY <1>1 DEF RawSlice
<1>6. Occupied(RawSlice(nat, a))
  BY <1>1, <1>5 DEF Occupied
<1>7. s = [arch |-> a, status |-> StatusPresent,
           codec |-> Compress(n, e).codec, rawLen |-> Len(n),
           data |-> Compress(n, e).data]
  BY <1>5, <1>6 DEF CompressSlice
<1>8. HasPrefix(n, ElfMagic)
  BY <1>1 DEF HasPrefix
<1>s. \A d \in Bytes : d \in Seq(Cell)
  BY SeqMonotonic DEF Bytes, Cell
<1> HIDE DEF n, x
<1>9. CASE Len(x) >= Len(n)
  <2>1. Compress(n, e) = [codec |-> CodecNone, data |-> n]
    BY <1>9 DEF Compress, x
  <2>2. s = [arch |-> a, status |-> StatusPresent, codec |-> CodecNone,
             rawLen |-> Len(n), data |-> n]
    BY <1>7, <2>1
  <2>3. s \in Slice
    BY <1>1, <1>2, <1>4, <1>s, <2>2
       DEF Slice, Byte, StatusPresent, CodecNone
  <2>4. Occupied(s) /\ DecompressOK(s) /\ Decompress(s) = n
    BY <1>1, <2>2 DEF Occupied, DecompressOK, Decompress
  <2>5. ~DecompressPanics(s)
    BY <1>4, <2>2 DEF DecompressPanics, XzHeaderOK
  <2> QED
    BY <1>1, <1>8, <2>2, <2>3, <2>4, <2>5 DEF n
<1>10. CASE ~(Len(x) >= Len(n))
  <2>1. Compress(n, e) = [codec |-> CodecXZ, data |-> x]
    BY <1>10 DEF Compress, x
  <2>2. s = [arch |-> a, status |-> StatusPresent, codec |-> CodecXZ,
             rawLen |-> Len(n), data |-> x]
    BY <1>7, <2>1
  <2>3. s \in Slice
    BY <1>2, <1>3, <1>4, <1>s, <2>2
       DEF Slice, Byte, StatusPresent, CodecXZ
  <2>4. Occupied(s) /\ XzHeaderOK(s)
    BY <1>3, <2>2 DEF Occupied, XzHeaderOK
  <2>5. ~DecompressPanics(s)
    BY <1>1, <1>4, <2>2, FormatAssumption DEF DecompressPanics, Allocation
  <2>6. StreamOf(s.data, n)
    BY <1>1, <2>2 DEF StreamOf, x
  <2>7. DecompressOK(s)
    BY <1>1, <2>2, <2>4, <2>5, <2>6 DEF DecompressOK
  <2>8. \A m \in Natives : StreamOf(s.data, m) => m = n
    BY <1>1, <2>6, XzAssumption DEF StreamOf
  <2>9. Decompress(s) = CHOOSE m \in Natives : StreamOf(s.data, m)
    BY <1>4, <2>2 DEF Decompress
  <2>10. Decompress(s) = n
    BY <1>1, <2>6, <2>8, <2>9
  <2> QED
    BY <1>3, <1>8, <2>2, <2>3, <2>4, <2>5, <2>7, <2>10 DEF n
<1> QED
  BY <1>9, <1>10

\* A slot without a native: reserved, or a native of no bytes.
LEMMA EmptySlot ==
    ASSUME NEW nat, NEW e, Builds(nat, e), NEW a \in Arch \ Released(nat),
           NEW s, s = CompressSlice(RawSlice(nat, a), e)
    PROVE  /\ s \in Slice
           /\ s.data \in Bytes
           /\ s.arch = a
           /\ s.codec \in {CodecNone, CodecXZ}
           /\ ~Occupied(s)
<1>1. a \in Name
  <2>1. PICK k \in 1..Len(ArchOrder) : a = ArchOrder[k]
    BY DEF Arch
  <2> QED
    BY <2>1, ReleaseAssumption, ElementOfSeq
<1>2. <<>> \in Bytes /\ <<>> \in Seq(Cell) /\ 0 \in U64
  BY FormatAssumption DEF Bytes, U64
<1>3. /\ RawSlice(nat, a).arch = a /\ RawSlice(nat, a).status \in Byte
      /\ RawSlice(nat, a).data = <<>>
  BY DEF RawSlice, Released, Byte, StatusPresent, StatusReserved
<1>4. ~Occupied(RawSlice(nat, a))
  BY <1>3 DEF Occupied
<1>5. s = [arch |-> a, status |-> RawSlice(nat, a).status,
           codec |-> CodecNone, rawLen |-> 0, data |-> <<>>]
  BY <1>3, <1>4 DEF CompressSlice
<1> QED
  BY <1>1, <1>2, <1>3, <1>5 DEF Slice, Occupied, Byte, CodecNone

\* The blob of some of the architectures.
PartBlob(nat, e, o) ==
    [i \in 1..Len(o) |-> CompressSlice(RawSlice(nat, o[i]), e)]

\* It can be encoded; its slots are the architectures in their order.
LEMMA PartEncodable ==
    ASSUME NEW nat, NEW e, Builds(nat, e), NEW o \in Seq(Arch),
           Len(o) <= MaxCount, EncodedLen(PartBlob(nat, e, o)) <= MaxInt
    PROVE  /\ Encodable(PartBlob(nat, e, o))
           /\ Len(PartBlob(nat, e, o)) = Len(o)
           /\ Len(o) \in Nat
           /\ \A i \in 1..Len(o) :
                 /\ o[i] \in Arch
                 /\ PartBlob(nat, e, o)[i] =
                       CompressSlice(RawSlice(nat, o[i]), e)
                 /\ PartBlob(nat, e, o)[i].arch = o[i]
                 /\ PartBlob(nat, e, o)[i].data \in Bytes
<1> DEFINE b == PartBlob(nat, e, o)
           n == Len(o)
<1>1. /\ n \in Nat /\ Len(b) = n
      /\ b = [i \in 1..n |-> CompressSlice(RawSlice(nat, o[i]), e)]
  <2>1. Len(o) \in Nat
    BY LenProperties
  <2> QED
    BY <2>1 DEF PartBlob
<1>2. \A i \in 1..n : o[i] \in Arch
  BY ElementOfSeq
<1> HIDE DEF b, n
<1>3. ASSUME NEW i \in 1..n
      PROVE  /\ b[i] = CompressSlice(RawSlice(nat, o[i]), e)
             /\ b[i] \in Slice /\ b[i].arch = o[i]
             /\ b[i].data \in Bytes
             /\ b[i].codec \in {CodecNone, CodecXZ}
  <2>1. b[i] = CompressSlice(RawSlice(nat, o[i]), e)
    BY <1>1
  <2>2. CASE o[i] \in Released(nat)
    BY <2>1, <2>2, ReleasedSlot
  <2>3. CASE o[i] \notin Released(nat)
    BY <1>2, <2>1, <2>3, EmptySlot
  <2> QED
    BY <2>1, <2>2, <2>3
<1>4. b \in Seq(Slice)
  <2>1. b \in [1..n -> Slice]
    BY <1>1, <1>3
  <2> QED
    BY <1>1, <2>1
<1>5. EncodeOK(b)
  <2>1. \A i \in 1..n : b[i].arch \in Name
    BY <1>3 DEF Slice
  <2>2. n <= MaxCount
    BY DEF n
  <2> QED
    BY <1>1, <1>3, <2>1, <2>2 DEF EncodeOK
<1>6. EncodedLen(b) <= MaxInt
  BY DEF b
<1> QED
  BY <1>1, <1>2, <1>3, <1>4, <1>5, <1>6 DEF Encodable, Slices, b, n

\* The shared blob of a build has all the slots.
LEMMA SharedIsPart ==
    ASSUME NEW nat, NEW e, Builds(nat, e)
    PROVE  /\ SharedBlob(nat, e) = PartBlob(nat, e, ArchOrder)
           /\ ArchOrder \in Seq(Arch) /\ Len(ArchOrder) <= MaxCount
           /\ EncodedLen(PartBlob(nat, e, ArchOrder)) <= MaxInt
<1>1. /\ Len(ArchOrder) \in Nat
      /\ SharedBlob(nat, e) = PartBlob(nat, e, ArchOrder)
  BY SlotDef DEF PartBlob
<1>2. ArchOrder \in Seq(Arch)
  <2>1. /\ ArchOrder = [i \in 1..Len(ArchOrder) |-> ArchOrder[i]]
        /\ \A i \in 1..Len(ArchOrder) : ArchOrder[i] \in Arch
    BY ReleaseAssumption, SeqDef DEF Arch
  <2>2. ArchOrder \in [1..Len(ArchOrder) -> Arch]
    BY <2>1
  <2> QED
    BY <1>1, <2>2, SeqDef
<1> QED
  BY <1>1, <1>2 DEF Builds

LEMMA SharedBlobEncodable ==
    ASSUME NEW nat, NEW e, Builds(nat, e)
    PROVE  /\ Encodable(SharedBlob(nat, e))
           /\ Len(SharedBlob(nat, e)) = Len(ArchOrder)
           /\ Len(ArchOrder) \in Nat
           /\ \A i \in 1..Len(ArchOrder) :
                 /\ ArchOrder[i] \in Arch
                 /\ SharedBlob(nat, e)[i] =
                       CompressSlice(RawSlice(nat, ArchOrder[i]), e)
                 /\ SharedBlob(nat, e)[i].arch = ArchOrder[i]
                 /\ SharedBlob(nat, e)[i].data \in Bytes
BY SharedIsPart, PartEncodable

\* Reconstruction is exact.  From a file with any head, a damaged one too,
\* and a blob of some architectures behind it, Reconstruct(target) succeeds
\* for those of them that have a native and no other, never panics, and
\* returns the native of the target followed by that very blob.
THEOREM PartLaw ==
    ASSUME NEW nat, NEW e, Builds(nat, e), NEW o \in Seq(Arch),
           \A i, j \in 1..Len(o) : o[i] = o[j] => i = j,
           Len(o) <= MaxCount, EncodedLen(PartBlob(nat, e, o)) <= MaxInt,
           NEW h \in Bytes,
           NEW image, image = BuildCanonical(h, PartBlob(nat, e, o)),
           NEW t
    PROVE  /\ ReconstructOK(image, t) <=>
                 t \in Released(nat) /\ \E i \in 1..Len(o) : o[i] = t
           /\ ~ReconstructPanics(image, t)
           /\ t \in Released(nat) /\ (\E i \in 1..Len(o) : o[i] = t) =>
                 Reconstruct(image, t) =
                    BuildCanonical(nat[t], PartBlob(nat, e, o))
<1> DEFINE b == PartBlob(nat, e, o)
           n == Len(o)
<1>1. /\ Encodable(b) /\ Len(b) = n /\ n \in Nat
      /\ \A i \in 1..n : /\ o[i] \in Arch
                         /\ b[i] = CompressSlice(RawSlice(nat, o[i]), e)
                         /\ b[i].arch = o[i]
  BY PartEncodable
<1>2. image = BuildCanonical(h, b)
  OBVIOUS
<1>b. b = PartBlob(nat, e, o)
  OBVIOUS
<1> HIDE DEF b
<1>3. SplitOK(image) /\ BlobOf(image) = b
  BY <1>1, <1>2, SplitLaw
<1>4. EncodeOK(b)
  BY <1>1 DEF Encodable
<1>5. \A i, j \in 1..n : o[i] = o[j] => i = j
  OBVIOUS
<1>6. CASE t \in Released(nat) /\ \E i \in 1..n : o[i] = t
  <2>1. PICK k \in 1..n : o[k] = t
    BY <1>6
  <2>2. /\ b[k].arch = t /\ Occupied(b[k]) /\ ~DecompressPanics(b[k])
        /\ DecompressOK(b[k]) /\ Decompress(b[k]) = nat[t]
        /\ HasPrefix(nat[t], ElfMagic)
    BY <1>1, <1>6, <2>1, ReleasedSlot
  <2>3. \A i \in 1..n : b[i].arch = t <=> i = k
    BY <1>1, <1>5, <2>1
  <2>4. \A i : FirstSlice(b, t, i) <=> i = k
    <3>1. ASSUME NEW i, FirstSlice(b, t, i)
          PROVE  i = k
      BY <1>1, <2>3, <3>1 DEF FirstSlice
    <3>2. FirstSlice(b, t, k)
      <4>1. \A j \in 1..(k - 1) : j \in 1..n /\ j # k
        BY <1>1
      <4> QED
        BY <1>1, <2>3, <4>1 DEF FirstSlice
    <3> QED
      BY <3>1, <3>2
  <2>5. ReconstructOK(image, t)
    BY <1>1, <1>3, <1>4, <2>2, <2>4 DEF ReconstructOK
  <2>6. ~ReconstructPanics(image, t)
    BY <1>1, <1>3, <2>2, <2>4 DEF ReconstructPanics
  <2>7. (CHOOSE i \in 1..Len(b) : FirstSlice(b, t, i)) = k
    BY <1>1, <2>4
  <2>8. Reconstruct(image, t) = BuildCanonical(nat[t], b)
    BY <1>3, <2>2, <2>7 DEF Reconstruct
  <2> QED
    BY <1>6, <1>b, <2>5, <2>6, <2>8
<1>7. CASE ~(t \in Released(nat) /\ \E i \in 1..n : o[i] = t)
  <2>1. ASSUME NEW i \in 1..n, b[i].arch = t
        PROVE  ~Occupied(b[i])
    <3>1. o[i] \in Arch \ Released(nat)
      BY <1>1, <1>7, <2>1
    <3> QED
      BY <1>1, <3>1, EmptySlot
  <2>2. \A i \in 1..Len(b) : FirstSlice(b, t, i) => ~Occupied(b[i])
    BY <1>1, <2>1 DEF FirstSlice
  <2> QED
    BY <1>3, <1>7, <2>2 DEF ReconstructOK, ReconstructPanics
<1> QED
  BY <1>6, <1>7

\* In particular from the blob of a complete build: the released
\* architectures are served, and no other, each with its released image.
THEOREM ReconstructLaw ==
    ASSUME NEW nat, NEW e, Builds(nat, e), NEW h \in Bytes,
           NEW image, image = BuildCanonical(h, SharedBlob(nat, e)),
           NEW t
    PROVE  /\ ReconstructOK(image, t) <=> t \in Released(nat)
           /\ ~ReconstructPanics(image, t)
           /\ t \in Released(nat) =>
                 Reconstruct(image, t) = Canonical(nat, e, t)
<1>1. \A i, j \in 1..Len(ArchOrder) : ArchOrder[i] = ArchOrder[j] => i = j
  BY ReleaseAssumption
<1>2. t \in Released(nat) => \E i \in 1..Len(ArchOrder) : ArchOrder[i] = t
  BY ReleaseAssumption DEF Released, Arch
<1>3. image = BuildCanonical(h, PartBlob(nat, e, ArchOrder))
  BY SharedIsPart
<1>4. Canonical(nat, e, t) = BuildCanonical(nat[t], PartBlob(nat, e, ArchOrder))
  BY SharedIsPart DEF Canonical
<1> QED
  BY <1>1, <1>2, <1>3, <1>4, SharedIsPart, PartLaw

=============================================================================
