------------------------ MODULE TeleportSelfProofs ------------------------
(***************************************************************************)
(* The program that carries all its builds: whatever chain of extractions, *)
(* torn writes and damage to native code its file came through, what it    *)
(* extracts is the released image, byte for byte.                          *)
(***************************************************************************)
EXTENDS TeleportSelf, ReleaseProofs

\* The release as the laws of the format see it.
LEMMA ReleaseFacts ==
    /\ Builds(Native, Enc) /\ Released(Native) # {}
    /\ Encodable(Blob)
    /\ \A i \in 1..Len(Blob) : Blob[i].data \in Bytes
    /\ BlobBytes \in Seq(Cell)
    /\ Len(BlobBytes) \in Nat /\ Len(BlobBytes) > 0
<1>1. Builds(Native, Enc) /\ Released(Native) # {}
  BY TeleportSelfAssumption
<1>2. /\ Encodable(Blob)
      /\ \A i \in 1..Len(Blob) : Blob[i].data \in Bytes
  BY <1>1, SharedBlobEncodable DEF Blob
<1>3. BlobBytes \in Seq(Cell) /\ Len(BlobBytes) = EncodedLen(Blob)
  BY <1>2, EncodeShape DEF BlobBytes
<1>4. Len(BlobBytes) \in Nat
  BY <1>3, LenProperties
<1>5. Len(BlobBytes) > 0
  <2>1. /\ Len(Blob) \in Nat /\ Off(Blob, Len(Blob)) \in Nat
        /\ Len(BlobBytes) = 4 + Len(Blob) + Off(Blob, Len(Blob))
    BY <1>2, EncodeShape, FormatAssumption DEF BlobBytes
  <2> HIDE DEF BlobBytes
  <2> QED
    BY <2>1
<1> QED
  BY <1>1, <1>2, <1>3, <1>4, <1>5

\* The native of a released architecture, and its image.
LEMMA CanonType ==
    ASSUME NEW a \in Released(Native)
    PROVE  /\ a \in Name
           /\ Native[a] \in Bytes /\ Len(Native[a]) \in Nat
           /\ Canon[a] = Native[a] \o BlobBytes
           /\ Canon[a] = BuildCanonical(Native[a], Blob)
           /\ Canon[a] \in Seq(Cell)
           /\ Len(Canon[a]) = Len(Native[a]) + Len(BlobBytes)
           /\ \A i \in 1..Len(Native[a]) : Canon[a][i] = Native[a][i]
<1>1. a \in Supported /\ Native[a] \in Bytes
  BY ReleaseFacts DEF Released, Builds
<1>2. a \in Name
  <2>1. PICK k \in 1..Len(ArchOrder) : a = ArchOrder[k]
    BY <1>1, ReleaseAssumption DEF Arch
  <2> QED
    BY <2>1, ReleaseAssumption, ElementOfSeq
<1>3. Canon[a] = Native[a] \o BlobBytes
  BY DEF Canon, Canonical, BuildCanonical, Blob, BlobBytes
<1>4. Canon[a] = BuildCanonical(Native[a], Blob)
  BY DEF Canon, Canonical, Blob
<1>5. Native[a] \in Seq(Cell) /\ Len(Native[a]) \in Nat
  BY <1>1, SeqMonotonic, LenProperties DEF Bytes, Cell
<1>6. /\ Canon[a] \in Seq(Cell)
      /\ Len(Canon[a]) = Len(Native[a]) + Len(BlobBytes)
      /\ \A i \in 1..Len(Native[a]) : Canon[a][i] = Native[a][i]
  BY <1>3, <1>5, ReleaseFacts, ConcatAt
<1> QED
  BY <1>1, <1>2, <1>3, <1>4, <1>5, <1>6

\* What lies where in any head followed by the blob.
LEMMA HeadedShape ==
    ASSUME NEW g \in Seq(Cell)
    PROVE  /\ g \o BlobBytes \in Seq(Cell)
           /\ Len(g \o BlobBytes) = Len(g) + Len(BlobBytes)
           /\ \A j \in 1..Len(g) : (g \o BlobBytes)[j] = g[j]
           /\ \A j \in 1..Len(BlobBytes) :
                 (g \o BlobBytes)[Len(g) + j] = BlobBytes[j]
<1>1. BlobBytes \in Seq(Cell)
  BY ReleaseFacts
<1> QED
  BY <1>1, ConcatIs

-----------------------------------------------------------------------------
(* The inductive invariant: until its blob is damaged, the running file is *)
(* some head as long as the native, followed by the blob of the release or *)
(* the beginning of it.                                                    *)

Carrier(f, a) ==
    \E h \in Bytes : \E k \in Nat :
        /\ Len(h) = Len(Native[a])
        /\ Len(h) <= k /\ k <= Len(h) + Len(BlobBytes)
        /\ f = SubSeq(h \o BlobBytes, 1, k)

\* What an extract leaves behind: the beginning of a released image.
Torn(s) ==
    \E t \in Released(Native) : \E k \in 0..Len(Canon[t]) :
        s = SubSeq(Canon[t], 1, k)

IInv ==
    /\ TypeOK
    /\ wear # "blob" => Carrier(file, goarch) /\ Torn(reply.out)
    /\ ExtractExact

\* A carrier whose blob can be split off is complete.
LEMMA WholeCarrier ==
    ASSUME NEW f, NEW a, Carrier(f, a), SplitOK(f)
    PROVE  \E h \in Bytes : f = BuildCanonical(h, Blob)
<1>1. PICK h \in Bytes : \E k \in Nat :
          /\ Len(h) <= k /\ k <= Len(h) + Len(BlobBytes)
          /\ f = SubSeq(h \o BlobBytes, 1, k)
  BY DEF Carrier
<1>2. PICK k \in Nat :
          /\ k <= Len(h) + Len(BlobBytes)
          /\ f = SubSeq(h \o BlobBytes, 1, k)
  BY <1>1
<1> DEFINE full == BuildCanonical(h, Blob)
<1>3. full = h \o BlobBytes
  BY DEF BuildCanonical, BlobBytes
<1>4. h \in Seq(Cell) /\ Len(h) \in Nat
  BY SeqMonotonic, LenProperties DEF Bytes, Cell
<1>5. full \in Seq(Cell) /\ Len(full) = Len(h) + Len(BlobBytes)
  BY <1>3, <1>4, ReleaseFacts, ConcatAt
<1>6. f = SubSeq(full, 1, k)
  BY <1>2, <1>3
<1>7. ASSUME k < Len(full)
      PROVE  FALSE
  <2>1. ~SplitOK(SubSeq(full, 1, k))
    <3>1. full = BuildCanonical(h, Blob)
      OBVIOUS
    <3> HIDE DEF full
    <3> QED
      BY <1>7, <3>1, ReleaseFacts, TornLaw
  <2> HIDE DEF full
  <2> QED
    BY <1>6, <2>1
<1> HIDE DEF full
<1>8. k = Len(full)
  <2>1. k <= Len(full)
    BY <1>2, <1>5
  <2>2. Len(full) \in Nat
    BY <1>5, LenProperties
  <2> QED
    BY <1>7, <2>1, <2>2
<1>9. SubSeq(full, 1, Len(full)) = full
  BY <1>5, SubSeqFull
<1> QED
  BY <1>6, <1>8, <1>9 DEF full

\* So an extract from it is exact.
LEMMA CarrierReconstruct ==
    ASSUME NEW f, NEW a, Carrier(f, a), NEW t, ReconstructOK(f, t)
    PROVE  t \in Released(Native) /\ Reconstruct(f, t) = Canon[t]
<1>1. SplitOK(f)
  BY DEF ReconstructOK
<1>2. PICK h \in Bytes : f = BuildCanonical(h, Blob)
  BY <1>1, WholeCarrier
<1> QED
  BY <1>2, ReleaseFacts, ReconstructLaw DEF Blob, Canon

-----------------------------------------------------------------------------
(* What the steps preserve.                                                *)

\* The file that runs after RunOut is a carrier: of two natives only one can
\* stand at its beginning, so the machine runs the program the image is for.
LEMMA RunOutCarrier ==
    ASSUME NEW s, Torn(s), NEW a \in Released(Native),
           Len(s) >= Len(Native[a]),
           SubSeq(s, 1, Len(Native[a])) = Native[a]
    PROVE  s \in Seq(Cell) /\ Carrier(s, a)
<1>1. PICK t \in Released(Native) : \E k \in 0..Len(Canon[t]) :
          s = SubSeq(Canon[t], 1, k)
  BY DEF Torn
<1> DEFINE n == Len(Native[a])
           m == Len(Native[t])
           c == Canon[t]
<1>2. PICK k \in 0..Len(c) : s = SubSeq(c, 1, k)
  BY <1>1
<1>3. /\ n \in Nat /\ m \in Nat
      /\ Native[t] \in Bytes /\ c = Native[t] \o BlobBytes
      /\ c \in Seq(Cell) /\ Len(c) = m + Len(BlobBytes)
      /\ \A i \in 1..m : c[i] = Native[t][i]
  BY CanonType
<1>n. n = Len(Native[a]) /\ m = Len(Native[t])
  OBVIOUS
<1> HIDE DEF c, n, m
<1>4. k \in Nat /\ k <= Len(c)
  BY <1>2, <1>3, LenProperties
<1>5. s \in Seq(Cell) /\ Len(s) = k /\ \A i \in 1..k : s[i] = c[i]
  BY <1>2, <1>3, <1>4, PrefixType
<1>6. n <= k
  BY <1>5, <1>n
<1>7. \A i \in 1..n : Native[a][i] = s[i]
  <2>1. SubSeq(s, 1, n) = Native[a]
    BY <1>n
  <2> QED
    BY <1>3, <1>5, <1>6, <2>1, PrefixType
<1>8. a = t
  <2>1. SUFFICES ASSUME a # t PROVE FALSE
    OBVIOUS
  <2>2. PICK i \in 1..n : i <= m /\ Native[a][i] # Native[t][i]
    BY <1>n, <2>1, TeleportSelfAssumption
  <2>3. i \in 1..m /\ i \in 1..k
    BY <1>3, <1>4, <1>6, <2>2
  <2> QED
    BY <1>3, <1>5, <1>7, <2>2, <2>3
<1>9. \E j \in Nat :
        /\ Len(Native[t]) <= j /\ j <= Len(Native[t]) + Len(BlobBytes)
        /\ s = SubSeq(Native[t] \o BlobBytes, 1, j)
  <2>1. m <= k /\ k <= m + Len(BlobBytes)
    BY <1>3, <1>4, <1>6, <1>8, <1>n
  <2>2. s = SubSeq(Native[t] \o BlobBytes, 1, k)
    BY <1>2, <1>3
  <2> QED
    BY <1>4, <1>n, <2>1, <2>2
<1>10. Carrier(s, t)
  BY <1>3, <1>9 DEF Carrier
<1> QED
  BY <1>5, <1>8, <1>10

\* Damage to the head leaves a carrier.
LEMMA DamagedHeadCarrier ==
    ASSUME NEW f \in Seq(Cell), NEW a, Carrier(f, a), NEW i \in 1..Len(f),
           i <= Len(Native[a]), NEW x \in Damaged(f[i])
    PROVE  Carrier([f EXCEPT ![i] = x], a)
<1>1. PICK h \in Bytes : \E k \in Nat :
          /\ Len(h) = Len(Native[a])
          /\ Len(h) <= k /\ k <= Len(h) + Len(BlobBytes)
          /\ f = SubSeq(h \o BlobBytes, 1, k)
  BY DEF Carrier
<1>2. PICK k \in Nat :
          /\ Len(h) = Len(Native[a])
          /\ Len(h) <= k /\ k <= Len(h) + Len(BlobBytes)
          /\ f = SubSeq(h \o BlobBytes, 1, k)
  BY <1>1
<1> DEFINE n == Len(h)
           g == [h EXCEPT ![i] = x]
           u == h \o BlobBytes
           v == g \o BlobBytes
           w == [f EXCEPT ![i] = x]
<1>3. h \in Seq(Cell) /\ h \in Seq(Word) /\ n \in Nat
  BY SeqMonotonic, LenProperties DEF Bytes, Cell
<1>4. /\ u \in Seq(Cell) /\ Len(u) = n + Len(BlobBytes)
      /\ \A j \in 1..n : u[j] = h[j]
      /\ \A j \in 1..Len(BlobBytes) : u[n + j] = BlobBytes[j]
  BY <1>3, ReleaseFacts, ConcatAt
<1>5. Len(f) = k /\ \A j \in 1..k : f[j] = u[j]
  <2> HIDE DEF u, n
  <2>1. k <= Len(u) /\ f = SubSeq(u, 1, k)
    BY <1>2, <1>4 DEF u, n
  <2> QED
    BY <1>4, <2>1, PrefixType
<1>6. i \in 1..n
  BY <1>2, <1>3
<1>7. x \in Word
  <2>1. f[i] = h[i]
    BY <1>4, <1>5, <1>6
  <2>2. f[i] \in Word
    BY <1>3, <1>6, <2>1, ElementOfSeq
  <2>3. f[i] \notin CountField /\ f[i] \notin EntryField
        /\ f[i] \notin TotalField
    BY <2>2, FormatAssumption
  <2> QED
    BY <2>3 DEF Damaged
<1>8. g \in Seq(Word) /\ Len(g) = n /\ g \in Seq(Cell)
  <2>1. i \in 1..Len(h)
    BY <1>6
  <2>2. g \in Seq(Word) /\ Len(g) = Len(h)
    BY <1>3, <1>7, <2>1, ExceptSeq
  <2> HIDE DEF g
  <2>3. Word \subseteq Cell
    BY DEF Cell
  <2> QED
    BY <2>2, <2>3, SeqMonotonic
<1>9. \A j \in 1..n : g[j] = IF j = i THEN x ELSE h[j]
  BY <1>3, <1>6, <1>7, ExceptSeq
<1>10. /\ v \in Seq(Cell) /\ Len(v) = n + Len(BlobBytes)
       /\ \A j \in 1..n : v[j] = g[j]
       /\ \A j \in 1..Len(BlobBytes) : v[n + j] = BlobBytes[j]
  <2>1. v = g \o BlobBytes /\ g \in Seq(Cell) /\ Len(g) = n
    BY <1>8
  <2> HIDE DEF g, n, v
  <2> QED
    BY <2>1, HeadedShape
<1>11. x \in Cell
  BY <1>7 DEF Cell
<1>12. w \in Seq(Cell) /\ Len(w) = k
       /\ \A j \in 1..k : w[j] = IF j = i THEN x ELSE f[j]
  BY <1>5, <1>11, ExceptSeq
<1>13. k <= Len(v) /\ n <= k /\ k <= n + Len(BlobBytes)
  BY <1>2, <1>10
<1>14. Len(BlobBytes) \in Nat
  BY ReleaseFacts
<1> HIDE DEF g, u, v, w, n
<1>15. w = SubSeq(v, 1, k)
  <2> DEFINE y == SubSeq(v, 1, k)
  <2>1. y \in Seq(Cell) /\ Len(y) = k /\ \A j \in 1..k : y[j] = v[j]
    BY <1>10, <1>13, PrefixType
  <2> HIDE DEF y
  <2>2. ASSUME NEW j \in 1..k
        PROVE  w[j] = y[j]
    <3>1. CASE j \in 1..n
      <4>1. f[j] = h[j]
        BY <1>4, <1>5, <3>1
      <4> QED
        BY <1>9, <1>10, <1>12, <2>1, <3>1, <4>1
    <3>2. CASE j \notin 1..n
      <4>1. j - n \in 1..Len(BlobBytes) /\ n + (j - n) = j /\ j # i
        BY <1>3, <1>6, <1>13, <1>14, <3>2
      <4>2. f[j] = BlobBytes[j - n]
        BY <1>4, <1>5, <4>1
      <4>3. v[j] = BlobBytes[j - n]
        BY <1>10, <4>1
      <4> QED
        BY <1>12, <2>1, <4>1, <4>2, <4>3
    <3> QED
      BY <3>1, <3>2
  <2>3. w = y
    BY <1>12, <2>1, <2>2, SeqEqual
  <2> QED
    BY <2>3 DEF y
<1>16. /\ g \in Bytes /\ Len(g) = Len(Native[a])
       /\ Len(g) <= k /\ k <= Len(g) + Len(BlobBytes)
       /\ w = SubSeq(g \o BlobBytes, 1, k)
  BY <1>2, <1>8, <1>13, <1>15 DEF Bytes, v, n
<1> QED
  BY <1>16 DEF Carrier, w

\* A damaged cell is a cell of the format.
LEMMA DamagedType ==
    ASSUME NEW c \in Cell, NEW x \in Damaged(c)
    PROVE  x \in Cell
<1>p. Probe \subseteq U64
  BY TeleportSelfAssumption
<1>1. CASE x \in Word \/ x \in CountField \/ x \in [total : Probe]
  BY <1>1, <1>p DEF Cell, TotalField
<1>2. CASE c \in EntryField /\ ~(x \in Word \/ x \in CountField
                                 \/ x \in [total : Probe])
  <2>1. /\ c = [name |-> c.name, status |-> c.status, codec |-> c.codec,
                offset |-> c.offset, length |-> c.length,
                rawLen |-> c.rawLen]
        /\ c.name \in Name /\ c.status \in Byte /\ c.codec \in Byte
        /\ c.offset \in U64 /\ c.length \in U64 /\ c.rawLen \in U64
    BY <1>2 DEF EntryField
  <2>2. \/ \E v \in Name : x = [c EXCEPT !.name = v]
        \/ \E v \in Byte : x = [c EXCEPT !.status = v]
        \/ \E v \in Byte : x = [c EXCEPT !.codec = v]
        \/ \E v \in U64 : x = [c EXCEPT !.offset = v]
        \/ \E v \in U64 : x = [c EXCEPT !.length = v]
        \/ \E v \in U64 : x = [c EXCEPT !.rawLen = v]
    BY <1>2, <1>p DEF Damaged
  <2>3. x \in EntryField
    BY <1>2, <2>1, <2>2 DEF EntryField
  <2> QED
    BY <2>3 DEF Cell
<1> QED
  BY <1>1, <1>2 DEF Damaged

\* An empty reply is a reply, and nothing was written.
LEMMA NoReplyType == NoReply \in Reply /\ Torn(NoReply.out)
<1>1. PICK t \in Released(Native) : TRUE
  BY ReleaseFacts
<1>2. /\ Canon[t] \in Seq(Cell) /\ Len(Canon[t]) \in Nat
      /\ t \in Arch
  <2>1. t \in Arch
    BY ReleaseAssumption DEF Released
  <2> QED
    BY <2>1, CanonType, LenProperties
<1>3. SubSeq(Canon[t], 1, 0) = <<>>
  BY <1>2, SubSeqEmpty
<1>4. NoReply.out = SubSeq(Canon[t], 1, 0)
  BY <1>3 DEF NoReply
<1>5. ArchOrder[1] \in Name
  <2>1. PICK k \in 1..Len(ArchOrder) : t = ArchOrder[k]
    BY <1>2 DEF Arch
  <2>2. Len(ArchOrder) \in Nat
    BY ReleaseAssumption, LenProperties
  <2>3. 1 \in 1..Len(ArchOrder)
    BY <2>1, <2>2
  <2> QED
    BY <2>3, ReleaseAssumption, ElementOfSeq
<1>6. NoReply \in Reply
  BY <1>5 DEF NoReply, Reply
<1> QED
  BY <1>2, <1>4, <1>6 DEF Torn

\* The answer of a command that writes nothing.
LEMMA AnswerType ==
    ASSUME NEW cmd \in {"none", "verify", "list", "extract"},
           NEW said \in {"", "canonical", "round-trips", "listed", "wrote",
                         "error", "panic"},
           NEW t \in Name, NEW present \in SUBSET Name, NEW out \in Seq(Cell),
           Answer(cmd, t, said, present, out)
    PROVE  /\ reply' \in Reply
           /\ reply'.cmd = cmd /\ reply'.arch = t /\ reply'.said = said
           /\ reply'.present = present /\ reply'.out = out
BY DEF Answer, Reply

LEMMA EmptyAnswerType ==
    ASSUME NEW cmd \in {"none", "verify", "list", "extract"},
           NEW said \in {"canonical", "round-trips", "error", "panic"},
           NEW t \in Name, Answer(cmd, t, said, {}, <<>>)
    PROVE  /\ reply' \in Reply /\ reply'.out = <<>>
           /\ reply'.said = said /\ reply'.cmd = cmd
<1>1. {} \in SUBSET Name /\ <<>> \in Seq(Cell)
  OBVIOUS
<1> QED
  BY <1>1 DEF Answer, Reply

\* What list shows are names.
LEMMA PresentType ==
    ASSUME NEW image \in Seq(Cell), SplitOK(image)
    PROVE  Present(image) \subseteq Name
<1>1. BlobOf(image) \in Slices
  BY SplitType
<1>2. \A i \in 1..Len(BlobOf(image)) : BlobOf(image)[i].arch \in Name
  BY <1>1, SlicesType
<1> QED
  BY <1>2 DEF Present

\* The inductive invariant holds at the start: the file is a released image.
LEMMA InitIInv == Init => IInv
<1> SUFFICES ASSUME Init PROVE IInv
  OBVIOUS
<1>1. goarch \in Released(Native) /\ file = Canon[goarch]
      /\ reply = NoReply /\ wear = "none"
  BY DEF Init
<1>2. file \in Seq(Cell)
  BY <1>1, CanonType
<1>3. TypeOK
  BY <1>1, <1>2, NoReplyType DEF TypeOK, NoReply
<1>4. Carrier(file, goarch)
  <2> DEFINE h == Native[goarch]
             k == Len(Canon[goarch])
  <2>1. /\ h \in Bytes /\ Len(h) \in Nat /\ k = Len(h) + Len(BlobBytes)
        /\ Canon[goarch] = h \o BlobBytes /\ Canon[goarch] \in Seq(Cell)
    BY <1>1, CanonType
  <2>2. file = SubSeq(h \o BlobBytes, 1, k)
    BY <1>1, <2>1, SubSeqFull
  <2>3. k \in Nat /\ Len(h) <= k /\ k <= Len(h) + Len(BlobBytes)
    <3>1. Len(BlobBytes) \in Nat
      BY ReleaseFacts
    <3> HIDE DEF h, k
    <3> QED
      BY <2>1, <3>1
  <2> QED
    BY <2>1, <2>2, <2>3 DEF Carrier
<1>5. ExtractExact
  BY <1>1 DEF ExtractExact, Wrote, NoReply
<1> QED
  BY <1>1, <1>3, <1>4, <1>5, NoReplyType DEF IInv

\* A command that writes nothing keeps the invariant.
LEMMA SilentStep ==
    ASSUME IInv, reply' \in Reply, reply'.out = <<>>,
           reply'.said # "wrote", UNCHANGED <<file, goarch, wear>>
    PROVE  IInv'
<1>1. TypeOK'
  BY DEF IInv, TypeOK
<1>2. Torn(reply'.out)
  BY NoReplyType DEF NoReply
<1>3. (wear # "blob" => Carrier(file, goarch) /\ Torn(reply.out))'
  BY <1>2 DEF IInv, Carrier, Torn
<1>4. ExtractExact'
  BY DEF ExtractExact, Wrote
<1> QED
  BY <1>1, <1>3, <1>4 DEF IInv

LEMMA InventoryStep == IInv /\ Inventory => IInv'
<1> SUFFICES ASSUME IInv, Inventory PROVE IInv'
  OBVIOUS
<1>1. goarch \in Name /\ file \in Seq(Cell) /\ <<>> \in Seq(Cell)
  BY CanonType DEF IInv, TypeOK
<1>2. UNCHANGED <<file, goarch, wear>>
  BY DEF Inventory
<1>3. CASE SplitOK(file)
  <2>1. Answer("list", goarch, "listed", Present(file), <<>>)
    BY <1>3 DEF Inventory
  <2>2. Present(file) \in SUBSET Name
    BY <1>1, <1>3, PresentType
  <2>3. reply' \in Reply /\ reply'.out = <<>> /\ reply'.said = "listed"
    BY <1>1, <2>1, <2>2, AnswerType
  <2> QED
    BY <1>2, <2>3, SilentStep
<1>4. CASE ~SplitOK(file)
  <2>1. Answer("list", goarch, "error", {}, <<>>)
    BY <1>4 DEF Inventory
  <2>2. reply' \in Reply /\ reply'.out = <<>> /\ reply'.said = "error"
    BY <1>1, <2>1, AnswerType
  <2> QED
    BY <1>2, <2>2, SilentStep
<1> QED
  BY <1>3, <1>4

LEMMA VerifyStep == IInv /\ (Verify \/ VerifyFails) => IInv'
<1> SUFFICES ASSUME IInv, Verify \/ VerifyFails PROVE IInv'
  OBVIOUS
<1>1. goarch \in Name /\ <<>> \in Seq(Cell)
  BY CanonType DEF IInv, TypeOK
<1>2. /\ UNCHANGED <<file, goarch, wear>>
      /\ \E said \in {"canonical", "round-trips", "error", "panic"} :
            Answer("verify", goarch, said, {}, <<>>)
  BY DEF Verify, VerifyFails
<1>3. PICK said \in {"canonical", "round-trips", "error", "panic"} :
          Answer("verify", goarch, said, {}, <<>>)
  BY <1>2
<1>4. reply' \in Reply /\ reply'.out = <<>> /\ reply'.said = said
  BY <1>1, <1>3, EmptyAnswerType
<1> QED
  BY <1>2, <1>4, SilentStep

LEMMA ExtractFailsStep ==
    ASSUME IInv, NEW t \in Name, ExtractFails(t)
    PROVE  IInv'
<1>1. /\ UNCHANGED <<file, goarch, wear>>
      /\ \E said \in {"error", "panic"} :
            Answer("extract", t, said, {}, <<>>)
  BY DEF ExtractFails
<1>2. PICK said \in {"error", "panic"} : Answer("extract", t, said, {}, <<>>)
  BY <1>1
<1>3. reply' \in Reply /\ reply'.out = <<>> /\ reply'.said = said
  BY <1>2, EmptyAnswerType
<1> QED
  BY <1>1, <1>3, SilentStep

\* An extract writes the released image or the beginning of it.
LEMMA ExtractStep ==
    ASSUME IInv, NEW t \in Name, Extract(t)
    PROVE  IInv'
<1> DEFINE data == Reconstruct(file, t)
<1>1. /\ file \in Seq(Cell) /\ ReconstructOK(file, t)
      /\ UNCHANGED <<file, goarch, wear>>
  BY DEF IInv, TypeOK, Extract
<1>2. /\ data \in Seq(Cell) /\ Len(data) \in Nat
      /\ HasPrefix(data, ElfMagic)
  BY <1>1, ReconstructType, LenProperties
<1>3. wear # "blob" => t \in Released(Native) /\ data = Canon[t]
  BY <1>1, CarrierReconstruct DEF IInv
<1>d. data = Reconstruct(file, t)
  OBVIOUS
<1> HIDE DEF data
<1>4. PICK k \in 0..Len(data), said \in {"wrote", "error"} :
          /\ said = "wrote" => k = Len(data)
          /\ Answer("extract", t, said, {}, SubSeq(data, 1, k))
  <2>1. CASE Answer("extract", t, "wrote", {}, data)
    <3>1. SubSeq(data, 1, Len(data)) = data /\ Len(data) \in 0..Len(data)
      BY <1>2, SubSeqFull
    <3> QED
      BY <2>1, <3>1
  <2>2. CASE \E k \in 0..(Len(data) - 1) :
                 Answer("extract", t, "error", {}, SubSeq(data, 1, k))
    BY <1>2, <2>2
  <2>3. \/ Answer("extract", t, "wrote", {}, data)
        \/ \E k \in 0..(Len(data) - 1) :
              Answer("extract", t, "error", {}, SubSeq(data, 1, k))
    BY DEF Extract, data
  <2> QED
    BY <2>1, <2>2, <2>3
<1>5. SubSeq(data, 1, k) \in Seq(Cell)
  <2>1. k \in Nat /\ k <= Len(data)
    BY <1>2
  <2> QED
    BY <1>2, <2>1, PrefixType
<1>6. /\ reply' \in Reply /\ reply'.cmd = "extract" /\ reply'.arch = t
      /\ reply'.said = said /\ reply'.out = SubSeq(data, 1, k)
  <2>1. /\ {} \in SUBSET Name
        /\ "extract" \in {"none", "verify", "list", "extract"}
        /\ said \in {"", "canonical", "round-trips", "listed", "wrote",
                     "error", "panic"}
        /\ Answer("extract", t, said, {}, SubSeq(data, 1, k))
    BY <1>4
  <2> HIDE DEF data
  <2> QED
    BY <1>5, <2>1, AnswerType, ZenonT(60)
<1>7. TypeOK'
  <2>1. SubSeq(data, 1, k) # <<>> => HasPrefix(SubSeq(data, 1, k), ElfMagic)
    <3>1. /\ k \in Nat /\ k <= Len(data)
          /\ \A u : u = SubSeq(data, 1, k) =>
                   Len(u) = k /\ \A i \in 1..k : u[i] = data[i]
      BY <1>2, PrefixType
    <3>2. CASE k = 0
      BY <1>5, <3>1, <3>2, EmptySeq
    <3>3. CASE k > 0
      <4>1. SubSeq(data, 1, k)[1] = data[1] /\ data[1] = ElfMagic
        BY <1>2, <3>1, <3>3 DEF HasPrefix
      <4> QED
        BY <4>1 DEF HasPrefix
    <3> QED
      BY <3>1, <3>2, <3>3
  <2> QED
    BY <1>1, <1>6, <2>1 DEF IInv, TypeOK
<1>8. (wear # "blob" => Carrier(file, goarch) /\ Torn(reply.out))'
  <2>1. wear # "blob" => Torn(reply'.out)
    BY <1>3, <1>6 DEF Torn
  <2>2. wear # "blob" => Carrier(file, goarch)'
    BY <1>1 DEF IInv, Carrier
  <2> QED
    BY <1>1, <2>1, <2>2 DEF Torn
<1>9. ExtractExact'
  <2>1. SUFFICES ASSUME wear # "blob", said = "wrote"
                 PROVE  t \in Released(Native) /\ reply'.out = Canon[t]
    BY <1>1, <1>6 DEF ExtractExact, Wrote
  <2>2. SubSeq(data, 1, k) = data
    BY <1>2, <1>4, <2>1, SubSeqFull
  <2> QED
    BY <1>3, <1>6, <2>1, <2>2
<1> QED
  BY <1>7, <1>8, <1>9 DEF IInv

\* A step of the environment leaves an empty reply.
LEMMA QuietStep ==
    ASSUME reply' = NoReply, file' \in Seq(Cell),
           goarch' \in Released(Native), wear' \in {"none", "head", "blob"},
           wear' # "blob" => Carrier(file', goarch')
    PROVE  IInv'
<1>1. TypeOK'
  BY NoReplyType DEF TypeOK, NoReply
<1>2. (wear # "blob" => Carrier(file, goarch) /\ Torn(reply.out))'
  BY NoReplyType DEF Carrier, Torn
<1>3. ExtractExact'
  BY DEF ExtractExact, Wrote, NoReply
<1> QED
  BY <1>1, <1>2, <1>3 DEF IInv

LEMMA RunOutStep == IInv /\ RunOut => IInv'
<1> SUFFICES ASSUME IInv, RunOut PROVE IInv'
  OBVIOUS
<1>1. PICK a \in Released(Native) :
          /\ Len(reply.out) >= Len(Native[a])
          /\ SubSeq(reply.out, 1, Len(Native[a])) = Native[a]
          /\ goarch' = a
  BY DEF RunOut
<1>2. file' = reply.out /\ reply' = NoReply /\ wear' = wear
  BY DEF RunOut
<1>3. reply.out \in Seq(Cell) /\ wear \in {"none", "head", "blob"}
  BY DEF IInv, TypeOK, Reply
<1>4. wear # "blob" => Carrier(reply.out, a)
  BY <1>1, RunOutCarrier DEF IInv
<1> QED
  BY <1>1, <1>2, <1>3, <1>4, QuietStep

LEMMA DamageStep == IInv /\ (DamageHead \/ DamageBlob) => IInv'
<1> SUFFICES ASSUME IInv, DamageHead \/ DamageBlob PROVE IInv'
  OBVIOUS
<1>1. /\ file \in Seq(Cell) /\ goarch \in Released(Native)
      /\ goarch' = goarch /\ reply' = NoReply
      /\ wear = "none" /\ wear' \in {"head", "blob"}
  BY DEF IInv, TypeOK, DamageHead, DamageBlob
<1>2. PICK i \in 1..Len(file) :
          /\ wear' = "head" => InHead(i)
          /\ DamageCell(i)
  BY DEF DamageHead, DamageBlob
<1>3. PICK c \in Damaged(file[i]) : file' = [file EXCEPT ![i] = c]
  BY <1>2 DEF DamageCell
<1>4. file' \in Seq(Cell)
  <2>1. file[i] \in Cell
    BY <1>1, ElementOfSeq
  <2>2. c \in Cell
    BY <2>1, DamagedType
  <2> QED
    BY <1>1, <1>3, <2>2, ExceptSeq
<1>5. wear' # "blob" => Carrier(file', goarch)
  <2>1. SUFFICES ASSUME wear' = "head" PROVE Carrier(file', goarch)
    BY <1>1
  <2>2. i <= Len(Native[goarch])
    BY <1>2, <2>1 DEF InHead
  <2>3. Carrier(file, goarch)
    BY <1>1 DEF IInv
  <2>4. Carrier([file EXCEPT ![i] = c], goarch)
    BY <1>1, <2>2, <2>3, DamagedHeadCarrier
  <2> QED
    BY <1>3, <2>4
<1> QED
  BY <1>1, <1>4, <1>5, QuietStep

LEMMA NextIInv == IInv /\ [Next]_vars => IInv'
<1> SUFFICES ASSUME IInv, [Next]_vars PROVE IInv'
  OBVIOUS
<1>1. CASE Inventory
  BY <1>1, InventoryStep
<1>2. CASE Verify \/ VerifyFails
  BY <1>2, VerifyStep
<1>3. CASE \E t \in Name : Extract(t) \/ ExtractFails(t)
  BY <1>3, ExtractStep, ExtractFailsStep
<1>4. CASE RunOut
  BY <1>4, RunOutStep
<1>5. CASE DamageHead \/ DamageBlob
  BY <1>5, DamageStep
<1>6. CASE UNCHANGED vars
  BY <1>6 DEF vars, IInv, TypeOK, Carrier, Torn, ExtractExact, Wrote
<1> QED
  BY <1>1, <1>2, <1>3, <1>4, <1>5, <1>6 DEF Next

-----------------------------------------------------------------------------
(* The theorems.                                                           *)

\* The invariant holds in every behaviour.
THEOREM Invariance == Spec => []IInv
<1>1. Init => IInv
  BY InitIInv
<1>2. IInv /\ [Next]_vars => IInv'
  BY NextIInv
<1> QED
  BY <1>1, <1>2, PTL DEF Spec

\* Type correctness: the file stays a sequence of cells of the format, the
\* program that runs is one of those released, and what extract writes begins
\* as an ELF file.
THEOREM TypeCorrect == Spec => []TypeOK
<1>1. IInv => TypeOK
  BY DEF IInv
<1> QED
  BY <1>1, Invariance, PTL

\* Extraction is exact over any number of hops: until the blob is damaged an
\* extract that succeeds wrote the released image of its target.
THEOREM ExtractionExact == Spec => []ExtractExact
<1>1. IInv => ExtractExact
  BY DEF IInv
<1> QED
  BY <1>1, Invariance, PTL

\* A running file that shows a blob shows the whole blob of the release: a
\* torn image never does, whatever bytes its native holds.
THEOREM NoHalfCarriers == Spec => []NoHalfCarrier
<1>1. IInv => NoHalfCarrier
  <2>1. SUFFICES ASSUME IInv, wear # "blob", SplitOK(file)
                 PROVE  TailOf(file) = BlobBytes
    BY DEF NoHalfCarrier
  <2>2. PICK h \in Bytes : file = BuildCanonical(h, Blob)
    BY <2>1, WholeCarrier DEF IInv
  <2> QED
    BY <2>2, ReleaseFacts, SplitLaw DEF BlobBytes
<1> QED
  BY <1>1, Invariance, PTL

\* A released image passes both steps of verify.
LEMMA CanonVerifies ==
    ASSUME NEW a \in Released(Native)
    PROVE  /\ RoundTrips(Canon[a])
           /\ ReconstructOK(Canon[a], a)
           /\ ~ReconstructPanics(Canon[a], a)
           /\ Reconstruct(Canon[a], a) = Canon[a]
<1>1. /\ Native[a] \in Bytes
      /\ Canon[a] = BuildCanonical(Native[a], Blob)
  BY CanonType
<1>2. /\ SplitOK(Canon[a]) /\ HeadOf(Canon[a]) = Native[a]
      /\ BlobOf(Canon[a]) = Blob
  BY <1>1, ReleaseFacts, SplitLaw
<1>3. EncodeOK(Blob)
  BY ReleaseFacts DEF Encodable
<1>4. RoundTrips(Canon[a])
  BY <1>1, <1>2, <1>3 DEF RoundTrips
<1>5. Canon[a] = BuildCanonical(Native[a], SharedBlob(Native, Enc))
      /\ Canon[a] = Canonical(Native, Enc, a)
  BY <1>1 DEF Blob, Canon
<1> QED
  BY <1>1, <1>4, <1>5, ReleaseFacts, ReconstructLaw

\* No file that is a carrier makes Reconstruct panic or fail on it when its
\* blob can be split off.
LEMMA CarrierAnswers ==
    ASSUME NEW f, NEW a \in Released(Native), Carrier(f, a), SplitOK(f)
    PROVE  /\ \A t : ReconstructOK(f, t) <=> t \in Released(Native)
           /\ \A t : ~ReconstructPanics(f, t)
           /\ BlobOf(f) = Blob
<1>1. PICK h \in Bytes : f = BuildCanonical(h, Blob)
  BY WholeCarrier
<1>2. f = BuildCanonical(h, SharedBlob(Native, Enc))
  BY <1>1 DEF Blob
<1>3. BlobOf(f) = Blob
  BY <1>1, ReleaseFacts, SplitLaw
<1> QED
  BY <1>2, <1>3, ReleaseFacts, ReconstructLaw

LEMMA VerifyDecides ==
    ASSUME IInv, wear # "blob", Verify \/ VerifyFails
    PROVE  reply'.said = "canonical" <=> file = Canon[goarch]
<1>1. goarch \in Released(Native) /\ Carrier(file, goarch)
  BY DEF IInv, TypeOK
<1>2. CASE VerifyFails
  <2>1. ~RoundTrips(file) /\ reply'.said = "error"
    BY <1>2 DEF VerifyFails, Answer
  <2> QED
    BY <1>1, <2>1, CanonVerifies
<1>3. CASE Verify
  <2>1. RoundTrips(file)
    BY <1>3 DEF Verify
  <2>2. /\ ReconstructOK(file, goarch) /\ ~ReconstructPanics(file, goarch)
    <3>1. SplitOK(file)
      BY <2>1 DEF RoundTrips
    <3> QED
      BY <1>1, <3>1, CarrierAnswers
  <2>3. Reconstruct(file, goarch) = Canon[goarch]
    BY <1>1, <2>2, CarrierReconstruct
  <2>4. IF Reconstruct(file, goarch) = file THEN reply'.said = "canonical"
        ELSE reply'.said = "error"
    BY <1>3, <2>2 DEF Verify, Answer
  <2> QED
    BY <2>3, <2>4
<1> QED
  BY <1>2, <1>3

\* verify is exact: until the blob is damaged it answers "canonical" for a
\* released image and for nothing else, neither torn nor damaged in its head.
THEOREM VerifyIsExact == Spec => []VerifyExact
<1>1. Init => VerifyExact
  <2>1. Init => reply.cmd = "none"
    <3>1. Init => reply = NoReply
      BY DEF Init
    <3>2. NoReply.cmd = "none"
      BY DEF NoReply
    <3> QED
      BY <3>1, <3>2
  <2>2. reply.cmd = "none" => VerifyExact
    BY DEF VerifyExact
  <2> QED
    BY <2>1, <2>2
<1>2. IInv /\ VerifyExact /\ [Next]_vars => VerifyExact'
  <2> SUFFICES ASSUME IInv, VerifyExact, [Next]_vars PROVE VerifyExact'
    OBVIOUS
  <2>1. CASE Verify \/ VerifyFails
    <3>1. UNCHANGED <<file, goarch, wear>>
      BY <2>1 DEF Verify, VerifyFails
    <3>2. wear # "blob" =>
              (reply'.said = "canonical" <=> file = Canon[goarch])
      BY <2>1, VerifyDecides
    <3> QED
      BY <3>1, <3>2 DEF VerifyExact
  <2>2. CASE Inventory
    BY <2>2 DEF Inventory, Answer, VerifyExact
  <2>3. CASE \E t \in Name : Extract(t) \/ ExtractFails(t)
    <3>1. reply'.cmd = "extract"
      BY <2>3 DEF Extract, ExtractFails, Answer
    <3> QED
      BY <3>1 DEF VerifyExact
  <2>4. CASE RunOut \/ DamageHead \/ DamageBlob
    <3>1. reply' = NoReply
      BY <2>4 DEF RunOut, DamageHead, DamageBlob
    <3> QED
      BY <3>1 DEF VerifyExact, NoReply
  <2>5. CASE UNCHANGED vars
    BY <2>5 DEF vars, VerifyExact
  <2> QED
    BY <2>1, <2>2, <2>3, <2>4, <2>5 DEF Next
<1> QED
  BY <1>1, <1>2, Invariance, PTL DEF Spec

\* On a 64-bit machine no offset or length of an accepted blob leads outside
\* its payload, for any damage and after any number of hops.
THEOREM InBounds ==
    ASSUME Wide
    PROVE  Spec => []DecodedInBounds
<1>1. TypeOK => DecodedInBounds
  <2>1. SUFFICES ASSUME TypeOK, SplitOK(file),
                        NEW i \in 1..TailOf(file)[2].count
                 PROVE  LET e == TailOf(file)[HeaderLen + i]
                        IN  PayloadStart(TailOf(file)) + e.offset + e.length
                               <= PayloadEnd(TailOf(file))
    BY DEF DecodedInBounds
  <2>2. TailOf(file) \in Seq(Cell)
    BY <2>1, SplitType DEF TypeOK
  <2>3. DecodeOK(TailOf(file))
    BY <2>1 DEF SplitOK
  <2> QED
    BY <2>1, <2>2, <2>3, BoundsLaw
<1> QED
  BY <1>1, TypeCorrect, PTL

\* A blob that can be split off a carrier lists what it can rebuild.
LEMMA CarrierPresent ==
    ASSUME NEW f, NEW a \in Released(Native), Carrier(f, a), SplitOK(f)
    PROVE  Present(f) = {t \in Name : ReconstructOK(f, t)}
<1> DEFINE n == Len(ArchOrder)
<1>1. /\ BlobOf(f) = Blob
      /\ \A t : ReconstructOK(f, t) <=> t \in Released(Native)
  BY CarrierAnswers
<1>2. /\ Len(Blob) = n
      /\ \A i \in 1..n :
            /\ ArchOrder[i] \in Arch
            /\ Blob[i] = CompressSlice(RawSlice(Native, ArchOrder[i]), Enc)
            /\ Blob[i].arch = ArchOrder[i]
  BY ReleaseFacts, SharedBlobEncodable DEF Blob
<1>3. \A i \in 1..n : Occupied(Blob[i]) <=> ArchOrder[i] \in Released(Native)
  BY <1>2, ReleaseFacts, ReleasedSlot, EmptySlot
<1>4. Released(Native) \subseteq Arch
  BY ReleaseAssumption DEF Released
<1>5. Present(f) = {Blob[i].arch : i \in {j \in 1..n : Occupied(Blob[j])}}
  <2>1. Len(Blob) = n
    BY <1>2
  <2> HIDE DEF n
  <2> QED
    BY <1>1, <2>1 DEF Present
<1>6. \A t \in Arch : \E i \in 1..n : t = ArchOrder[i]
  BY DEF Arch
<1> HIDE DEF n
<1>7. Present(f) = Released(Native)
  <2>1. ASSUME NEW i \in 1..n, Occupied(Blob[i])
        PROVE  Blob[i].arch \in Released(Native)
    BY <1>2, <1>3, <2>1
  <2>2. ASSUME NEW t \in Released(Native)
        PROVE  \E i \in 1..n : Occupied(Blob[i]) /\ Blob[i].arch = t
    BY <1>2, <1>3, <1>4, <1>6
  <2> QED
    BY <1>5, <2>1, <2>2
<1>8. Released(Native) \subseteq Name
  BY CanonType
<1> QED
  BY <1>1, <1>7, <1>8

\* list is exact: until the blob is damaged it shows just the architectures
\* that extract can write.
THEOREM ListIsExact == Spec => []ListExact
<1>1. Init => ListExact
  <2> SUFFICES ASSUME Init PROVE ListExact
    OBVIOUS
  <2>1. reply = NoReply
    BY DEF Init
  <2>2. NoReply.cmd = "none"
    BY DEF NoReply
  <2>3. reply.cmd = "none"
    BY <2>1, <2>2
  <2> QED
    BY <2>3 DEF ListExact
<1>2. IInv /\ ListExact /\ [Next]_vars => ListExact'
  <2> SUFFICES ASSUME IInv, ListExact, [Next]_vars PROVE ListExact'
    OBVIOUS
  <2>1. CASE Inventory
    <3>1. UNCHANGED <<file, goarch, wear>>
      BY <2>1 DEF Inventory
    <3>2. SplitOK(file) => reply'.present = Present(file)
      BY <2>1 DEF Inventory, Answer
    <3>3. wear # "blob" /\ SplitOK(file) =>
              Present(file) = {t \in Name : ReconstructOK(file, t)}
      BY CarrierPresent DEF IInv, TypeOK
    <3> QED
      BY <3>1, <3>2, <3>3 DEF ListExact
  <2>2. CASE Verify \/ VerifyFails
    <3>1. reply'.cmd = "verify"
      BY <2>2 DEF Verify, VerifyFails, Answer
    <3> QED
      BY <3>1 DEF ListExact
  <2>3. CASE \E t \in Name : Extract(t) \/ ExtractFails(t)
    <3>1. reply'.cmd = "extract"
      BY <2>3 DEF Extract, ExtractFails, Answer
    <3> QED
      BY <3>1 DEF ListExact
  <2>4. CASE RunOut \/ DamageHead \/ DamageBlob
    <3>1. reply' = NoReply
      BY <2>4 DEF RunOut, DamageHead, DamageBlob
    <3> QED
      BY <3>1 DEF ListExact, NoReply
  <2>5. CASE UNCHANGED vars
    BY <2>5 DEF vars, ListExact
  <2> QED
    BY <2>1, <2>2, <2>3, <2>4, <2>5 DEF Next
<1> QED
  BY <1>1, <1>2, Invariance, PTL DEF Spec


-----------------------------------------------------------------------------
(* Extraction from a damaged blob.                                         *)

\* The output of an extract is what Reconstruct makes of the running file.
Made ==
    Wrote => /\ ReconstructOK(file, reply.arch)
             /\ reply.out = Reconstruct(file, reply.arch)

\* A damaged blob, too, fits an int once it is encoded: Encode allocates it as
\* one slice before it writes, and cannot return otherwise.
Fits ==
    wear = "blob" /\ SplitOK(file) => EncodedLen(BlobOf(file)) <= MaxInt

LEMMA NextMade == Made /\ [Next]_vars => Made'
<1> SUFFICES ASSUME Made, [Next]_vars, Wrote'
             PROVE  /\ ReconstructOK(file', reply'.arch)
                    /\ reply'.out = Reconstruct(file', reply'.arch)
  BY DEF Made
<1>1. reply'.cmd = "extract" /\ reply'.said = "wrote"
  BY DEF Wrote
<1>2. CASE Inventory \/ Verify \/ VerifyFails
  <2>1. reply'.cmd \in {"list", "verify"}
    BY <1>2 DEF Inventory, Verify, VerifyFails, Answer
  <2> QED
    BY <1>1, <2>1
<1>3. CASE RunOut \/ DamageHead \/ DamageBlob
  <2>1. reply' = NoReply
    BY <1>3 DEF RunOut, DamageHead, DamageBlob
  <2>2. NoReply.cmd = "none"
    BY DEF NoReply
  <2> QED
    BY <1>1, <2>1, <2>2
<1>4. ASSUME NEW t \in Name, ExtractFails(t)
      PROVE  FALSE
  <2>1. reply'.said \in {"panic", "error"}
    BY <1>4 DEF ExtractFails, Answer
  <2> QED
    BY <1>1, <2>1
<1>5. ASSUME NEW t \in Name, Extract(t)
      PROVE  /\ ReconstructOK(file', reply'.arch)
             /\ reply'.out = Reconstruct(file', reply'.arch)
  <2>1. ReconstructOK(file, t) /\ file' = file
    BY <1>5 DEF Extract
  <2>2. CASE Answer("extract", t, "wrote", {}, Reconstruct(file, t))
    <3>1. reply'.arch = t /\ reply'.out = Reconstruct(file, t)
      BY <2>2 DEF Answer
    <3> QED
      BY <2>1, <3>1
  <2>3. CASE \E k \in 0..(Len(Reconstruct(file, t)) - 1) :
                Answer("extract", t, "error", {},
                       SubSeq(Reconstruct(file, t), 1, k))
    <3>1. reply'.said = "error"
      BY <2>3 DEF Answer
    <3> QED
      BY <1>1, <3>1
  <2> QED
    BY <1>5, <2>2, <2>3 DEF Extract
<1>6. CASE UNCHANGED vars
  BY <1>6 DEF vars, Made, Wrote
<1> QED
  BY <1>2, <1>3, <1>4, <1>5, <1>6 DEF Next

\* No slice is lost or altered by an extraction: the image written can be split
\* and carries the blob that was read, a damaged one that passed the checks
\* included, as long as that fits an int.
THEOREM ClosureHolds == Spec /\ []Fits => []CarrierClosure
<1>1. Init => Made
  <2>1. NoReply.cmd = "none"
    BY DEF NoReply
  <2> QED
    BY <2>1 DEF Init, Made, Wrote
<1>2. ASSUME IInv, Made, Fits
      PROVE  CarrierClosure
  <2> SUFFICES ASSUME Wrote
               PROVE  SplitOK(reply.out) /\ BlobOf(reply.out) = BlobOf(file)
    BY DEF CarrierClosure
  <2>1. /\ file \in Seq(Cell) /\ ReconstructOK(file, reply.arch)
        /\ reply.out = Reconstruct(file, reply.arch) /\ SplitOK(file)
    BY <1>2 DEF IInv, TypeOK, Made, ReconstructOK
  <2>2. EncodedLen(BlobOf(file)) <= MaxInt
    <3>1. CASE wear = "blob"
      BY <1>2, <2>1, <3>1 DEF Fits
    <3>2. CASE wear # "blob"
      <4>1. Carrier(file, goarch)
        BY <1>2, <3>2 DEF IInv
      <4>2. PICK h \in Bytes : file = BuildCanonical(h, Blob)
        BY <2>1, <4>1, WholeCarrier
      <4>3. BlobOf(file) = Blob
        BY <4>2, ReleaseFacts, SplitLaw
      <4> QED
        BY <4>3, ReleaseFacts DEF Encodable
    <3> QED
      BY <3>1, <3>2
  <2> QED
    BY <2>1, <2>2, ReencodeLaw
<1> QED
  BY <1>1, <1>2, NextMade, Invariance, PTL DEF Spec
=============================================================================
