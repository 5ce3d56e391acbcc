--------------------------- MODULE TeleportProofs ---------------------------
(***************************************************************************)
(* Deployments, however many meet on a machine: what is sent, what cat     *)
(* writes, and what a reported success is worth.                           *)
(***************************************************************************)
EXTENDS Teleport, ReleaseProofs

-----------------------------------------------------------------------------
(* The released images.                                                    *)

LEMMA CanonDomain ==
    ASSUME NEW v \in Version
    PROVE  /\ Builds(Native[v], Enc)
           /\ DOMAIN Canon[v] = Released(Native[v])
           /\ DeskArch \in Released(Native[v])
BY TeleportAssumption DEF Canon

\* An image is the native of its architecture followed by the shared blob.
LEMMA CanonShape ==
    ASSUME NEW v \in Version, NEW a \in Released(Native[v])
    PROVE  /\ Native[v][a] \in Bytes
           /\ Canon[v][a] = Canonical(Native[v], Enc, a)
           /\ Canon[v][a] =
                 BuildCanonical(Native[v][a], SharedBlob(Native[v], Enc))
           /\ Canon[v][a] \in Seq(Cell)
           /\ Len(Native[v][a]) \in Nat
           /\ Len(Canon[v][a]) \in Nat
           /\ Len(Canon[v][a]) >= Len(Native[v][a])
           /\ SubSeq(Canon[v][a], 1, Len(Native[v][a])) = Native[v][a]
<1> DEFINE n == Native[v][a]
           E == Encode(SharedBlob(Native[v], Enc))
           c == Canon[v][a]
<1>1. Builds(Native[v], Enc)
  BY CanonDomain
<1>2. n \in Bytes
  BY <1>1 DEF Builds, Released
<1>3. c = Canonical(Native[v], Enc, a)
  BY DEF Canon
<1>4. c = BuildCanonical(Native[v][a], SharedBlob(Native[v], Enc))
  BY <1>3 DEF Canonical
<1>5. c = n \o E
  BY <1>4 DEF BuildCanonical
<1>6. n \in Seq(Cell) /\ Len(n) \in Nat
  BY <1>2, SeqMonotonic, LenProperties DEF Bytes, Cell
<1>7. E \in Seq(Cell) /\ Len(E) \in Nat
  BY <1>1, SharedBlobEncodable, EncodeShape, LenProperties
<1> HIDE DEF n, E, c
<1>8. /\ c \in Seq(Cell) /\ Len(c) = Len(n) + Len(E)
      /\ \A j \in 1..Len(n) : c[j] = n[j]
  BY <1>5, <1>6, <1>7, ConcatAt
<1>9. SubSeq(c, 1, Len(n)) = n
  <2>1. SubSeq(c, 0 + 1, 0 + Len(n)) = n
    BY <1>6, <1>7, <1>8, SubSeqIs
  <2> QED
    BY <1>6, <2>1
<1>10. Len(c) \in Nat /\ Len(c) >= Len(n)
  BY <1>6, <1>7, <1>8
<1> QED
  BY <1>2, <1>3, <1>4, <1>6, <1>8, <1>9, <1>10 DEF n, c

\* Reconstruct yields, from any image of a release, the image of any of its
\* architectures, and nothing else.
LEMMA CanonAnswers ==
    ASSUME NEW v \in Version, NEW a \in Released(Native[v]), NEW t
    PROVE  /\ SplitOK(Canon[v][a])
           /\ HeadOf(Canon[v][a]) = Native[v][a]
           /\ ReconstructOK(Canon[v][a], t) <=> t \in Released(Native[v])
           /\ t \in Released(Native[v]) =>
                 Reconstruct(Canon[v][a], t) = Canon[v][t]
<1>1. Builds(Native[v], Enc) /\ Encodable(SharedBlob(Native[v], Enc))
  BY CanonDomain, SharedBlobEncodable
<1>2. /\ Native[v][a] \in Bytes
      /\ Canon[v][a] =
            BuildCanonical(Native[v][a], SharedBlob(Native[v], Enc))
  BY CanonShape
<1>3. SplitOK(Canon[v][a]) /\ HeadOf(Canon[v][a]) = Native[v][a]
  BY <1>1, <1>2, SplitLaw
<1>4. /\ ReconstructOK(Canon[v][a], t) <=> t \in Released(Native[v])
      /\ t \in Released(Native[v]) =>
            Reconstruct(Canon[v][a], t) = Canonical(Native[v], Enc, t)
  BY <1>1, <1>2, ReconstructLaw
<1>5. t \in Released(Native[v]) => Canon[v][t] = Canonical(Native[v], Enc, t)
  BY CanonShape
<1> QED
  BY <1>3, <1>4, <1>5

\* The beginning of an image that can be split is the image.
LEMMA CanonWhole ==
    ASSUME NEW v \in Version, NEW a \in Released(Native[v]),
           NEW k \in Nat, k <= Len(Canon[v][a]),
           SplitOK(SubSeq(Canon[v][a], 1, k))
    PROVE  k = Len(Canon[v][a])
<1> DEFINE c == Canon[v][a]
           b == SharedBlob(Native[v], Enc)
<1>1. Builds(Native[v], Enc)
  BY CanonDomain
<1>2. /\ Encodable(b)
      /\ \A i \in 1..Len(b) : b[i].data \in Bytes
  BY <1>1, SharedBlobEncodable
<1>3. /\ Native[v][a] \in Bytes /\ c = BuildCanonical(Native[v][a], b)
      /\ Len(c) \in Nat
  BY CanonShape
<1>4. k <= Len(c) /\ SplitOK(SubSeq(c, 1, k))
  OBVIOUS
<1> HIDE DEF c, b
<1>5. ~(k < Len(c))
  BY <1>2, <1>3, <1>4, TornLaw
<1> QED
  BY <1>3, <1>4, <1>5 DEF c

\* Images of different releases differ, whatever architectures they are for.
LEMMA CanonInjective ==
    ASSUME NEW v \in Version, NEW w \in Version,
           NEW a \in Released(Native[v]), NEW b \in Released(Native[w]),
           Canon[v][a] = Canon[w][b]
    PROVE  v = w
<1>1. \A t : t \in Released(Native[v]) <=> t \in Released(Native[w])
  BY CanonAnswers
<1>2. \A t \in Released(Native[v]) : Canon[v][t] = Canon[w][t]
  BY <1>1, CanonAnswers
<1>3. \A t \in Released(Native[v]) : Native[v][t] = Native[w][t]
  BY <1>1, <1>2, CanonAnswers
<1>4. /\ Native[v] \in [Supported -> Bytes]
      /\ Native[w] \in [Supported -> Bytes]
  BY CanonDomain DEF Builds
<1>5. \A t \in Supported : Native[v][t] = Native[w][t]
  BY <1>1, <1>3 DEF Released
<1>6. Native[v] = Native[w]
  BY <1>4, <1>5
<1> QED
  BY <1>6, TeleportAssumption

-----------------------------------------------------------------------------
(* What cat writes.                                                        *)

\* Whatever the file holds by then, a write leaves cells.
LEMMA WriteType ==
    ASSUME NEW f \in Seq(Cell), NEW pos \in Nat, NEW s \in Seq(Cell)
    PROVE  WriteAt(f, pos, s) \in Seq(Cell)
<1> DEFINE before == IF Len(f) >= pos THEN SubSeq(f, 1, pos)
                     ELSE f \o [i \in 1..(pos - Len(f)) |-> Zero]
           after == SubSeq(f, pos + Len(s) + 1, Len(f))
<1>1. Len(f) \in Nat /\ Len(s) \in Nat /\ \A i \in 1..Len(f) : f[i] \in Cell
  BY LenProperties, ElementOfSeq
<1>2. before \in Seq(Cell)
  <2>1. CASE Len(f) >= pos
    BY <1>1, <2>1, PrefixType
  <2>2. CASE ~(Len(f) >= pos)
    <3>1. Zero \in Cell
      BY TeleportAssumption DEF Cell
    <3>2. pos - Len(f) \in Nat
      BY <1>1, <2>2
    <3>3. [i \in 1..(pos - Len(f)) |-> Zero] \in Seq(Cell)
      BY <3>1, <3>2
    <3> QED
      BY <2>2, <3>3, ConcatProperties
  <2> QED
    BY <2>1, <2>2
<1>3. after \in Seq(Cell)
  <2>1. \A i \in (pos + Len(s) + 1)..Len(f) : f[i] \in Cell
    BY <1>1
  <2> QED
    BY <1>1, <2>1, SubSeqProperties
<1> HIDE DEF before, after
<1>4. (before \o s) \o after \in Seq(Cell)
  BY <1>2, <1>3, ConcatProperties
<1> QED
  BY <1>4 DEF WriteAt, before, after

\* Cell by cell: what is written lies at its position, the rest of the file
\* is as it was.
LEMMA WriteCells ==
    ASSUME NEW f \in Seq(Cell), NEW pos \in Nat, NEW s \in Seq(Cell),
           NEW w, w = WriteAt(f, pos, s)
    PROVE  /\ w \in Seq(Cell) /\ Len(w) \in Nat /\ Len(f) \in Nat
           /\ Len(s) \in Nat
           /\ Len(w) = IF Len(f) >= pos + Len(s) THEN Len(f) ELSE pos + Len(s)
           /\ \A i \in 1..Len(s) : w[pos + i] = s[i]
           /\ \A i \in 1..Len(f) :
                 i <= pos \/ i > pos + Len(s) => w[i] = f[i]
<1> DEFINE before == IF Len(f) >= pos THEN SubSeq(f, 1, pos)
                     ELSE f \o [i \in 1..(pos - Len(f)) |-> Zero]
           after == SubSeq(f, pos + Len(s) + 1, Len(f))
<1>1. Len(f) \in Nat /\ Len(s) \in Nat /\ \A i \in 1..Len(f) : f[i] \in Cell
  BY LenProperties, ElementOfSeq
<1>2. /\ before \in Seq(Cell) /\ Len(before) = pos
      /\ \A i \in 1..pos : i <= Len(f) => before[i] = f[i]
  <2>1. CASE Len(f) >= pos
    BY <1>1, <2>1, PrefixType
  <2>2. CASE ~(Len(f) >= pos)
    <3>1. PICK z : z = [i \in 1..(pos - Len(f)) |-> Zero]
      OBVIOUS
    <3>2. z \in Seq(Cell) /\ Len(z) = pos - Len(f)
      <4>1. Zero \in Cell /\ pos - Len(f) \in Nat
        BY <1>1, <2>2, TeleportAssumption DEF Cell
      <4> QED
        BY <3>1, <4>1
    <3>3. before = f \o z
      BY <2>2, <3>1
    <3>4. /\ f \o z \in Seq(Cell) /\ Len(f \o z) = Len(f) + Len(z)
          /\ \A i \in 1..Len(f) : (f \o z)[i] = f[i]
      BY <3>2, ConcatAt
    <3> HIDE DEF before
    <3> QED
      BY <1>1, <2>2, <3>2, <3>3, <3>4
  <2> QED
    BY <2>1, <2>2
<1>3. PICK m \in Nat : m = pos + Len(s)
  BY <1>1
<1>4. /\ after \in Seq(Cell)
      /\ Len(after) = IF Len(f) >= m THEN Len(f) - m ELSE 0
      /\ \A i \in 1..Len(after) : after[i] = f[m + i]
  <2>1. after = SubSeq(f, m + 1, Len(f))
    BY <1>3
  <2>2. \A i \in (m + 1)..Len(f) : f[i] \in Cell
    BY <1>1
  <2>3. /\ SubSeq(f, m + 1, Len(f)) \in Seq(Cell)
        /\ Len(SubSeq(f, m + 1, Len(f))) =
              IF m + 1 <= Len(f) THEN Len(f) - (m + 1) + 1 ELSE 0
        /\ \A i \in 1..(Len(f) - (m + 1) + 1) :
              SubSeq(f, m + 1, Len(f))[i] = f[(m + 1) + i - 1]
    BY <1>1, <2>2, SubSeqProperties
  <2> HIDE DEF after
  <2> QED
    BY <1>1, <2>1, <2>3
<1> HIDE DEF before, after
<1>5. PICK u : u = before \o s
  OBVIOUS
<1>6. /\ u \in Seq(Cell) /\ Len(u) = m
      /\ \A i \in 1..pos : u[i] = before[i]
      /\ \A i \in 1..Len(s) : u[pos + i] = s[i]
  <2>1. before \in Seq(Cell)
    BY <1>2
  <2>2. /\ u \in Seq(Cell) /\ Len(u) = Len(before) + Len(s)
        /\ \A i \in 1..Len(before) : u[i] = before[i]
        /\ \A i \in 1..Len(s) : u[Len(before) + i] = s[i]
    BY <1>5, <2>1, ConcatAt
  <2> QED
    BY <1>2, <1>3, <2>2
<1>7. w = u \o after
  BY <1>5, Zenon DEF WriteAt, before, after
<1>8. /\ w \in Seq(Cell) /\ Len(w) = m + Len(after)
      /\ \A i \in 1..m : w[i] = u[i]
      /\ \A i \in 1..Len(after) : w[m + i] = after[i]
  <2>1. /\ u \o after \in Seq(Cell)
        /\ Len(u \o after) = Len(u) + Len(after)
        /\ \A i \in 1..Len(u) : (u \o after)[i] = u[i]
        /\ \A i \in 1..Len(after) : (u \o after)[Len(u) + i] = after[i]
    BY <1>4, <1>6, ConcatAt
  <2> QED
    BY <1>6, <1>7, <2>1
<1>9. \A i \in 1..Len(s) : w[pos + i] = s[i]
  BY <1>1, <1>3, <1>6, <1>8
<1>10. ASSUME NEW i \in 1..Len(f), i <= pos \/ i > pos + Len(s)
       PROVE  w[i] = f[i]
  <2>1. CASE i <= pos
    <3>1. i \in 1..pos /\ i \in 1..m
      BY <1>1, <1>3, <2>1
    <3>2. w[i] = u[i] /\ u[i] = before[i] /\ before[i] = f[i]
      BY <1>1, <1>2, <1>6, <1>8, <3>1
    <3> QED
      BY <3>2
  <2>2. CASE i > pos + Len(s)
    <3>1. i - m \in 1..Len(after) /\ m + (i - m) = i
      BY <1>1, <1>3, <1>4, <2>2
    <3>2. w[m + (i - m)] = after[i - m] /\ after[i - m] = f[m + (i - m)]
      BY <1>4, <1>8, <3>1
    <3> QED
      BY <3>1, <3>2
  <2> QED
    BY <1>10, <2>1, <2>2
<1>11. Len(w) = IF Len(f) >= pos + Len(s) THEN Len(f) ELSE pos + Len(s)
  <2>1. Len(w) = m + (IF Len(f) >= m THEN Len(f) - m ELSE 0)
    BY <1>4, <1>8
  <2>2. Len(f) \in Nat /\ m \in Nat
    BY <1>1, <1>3
  <2>3. Len(w) = IF Len(f) >= m THEN Len(f) ELSE m
    BY <2>1, <2>2
  <2> QED
    BY <1>3, <2>3, Zenon
<1> QED
  BY <1>1, <1>8, <1>9, <1>10, <1>11, LenProperties

\* A cat alone on its file extends the beginning it wrote.
LEMMA WriteNext ==
    ASSUME NEW d \in Seq(Cell), NEW i \in Nat, NEW j \in Nat,
           i <= j, j <= Len(d)
    PROVE  WriteAt(SubSeq(d, 1, i), i, SubSeq(d, i + 1, j)) = SubSeq(d, 1, j)
<1> DEFINE f == SubSeq(d, 1, i)
           s == SubSeq(d, i + 1, j)
<1>1. Len(d) \in Nat /\ \A k \in 1..Len(d) : d[k] \in Cell
  BY LenProperties, ElementOfSeq
<1>2. f \in Seq(Cell) /\ Len(f) = i
  BY <1>1, PrefixType
<1>3. s \in Seq(Cell) /\ Len(s) \in Nat
  <2>1. \A k \in (i + 1)..j : d[k] \in Cell
    BY <1>1
  <2> QED
    BY <2>1, SubSeqProperties, LenProperties
<1>4. f \o s = SubSeq(d, 1, j)
  BY <1>1, ConcatAdjacentSubSeq
<1> HIDE DEF f, s
<1>5. SubSeq(f, 1, i) = f
  BY <1>2, SubSeqFull
<1>6. SubSeq(f, i + Len(s) + 1, Len(f)) = <<>>
  BY <1>2, <1>3, SubSeqEmpty
<1>7. WriteAt(f, i, s) = (f \o s) \o <<>>
  <2>1. WriteAt(f, i, s) =
           (SubSeq(f, 1, i) \o s) \o SubSeq(f, i + Len(s) + 1, Len(f))
    <3>1. Len(f) >= i
      BY <1>2
    <3> QED
      BY <3>1, Zenon DEF WriteAt
  <2> QED
    BY <1>5, <1>6, <2>1
<1>8. (f \o s) \o <<>> = f \o s
  BY <1>2, <1>3, ConcatProperties, ConcatEmptySeq
<1> QED
  BY <1>4, <1>7, <1>8 DEF f, s

\* One write of a cat.
LEMMA UntilRange ==
    ASSUME NEW c, IsCat(c), c.pos < c.upto
    PROVE  /\ Until(c) \in Nat /\ c.pos <= Until(c) /\ Until(c) <= c.upto
           /\ Until(c) <= Len(c.data)
           /\ SubSeq(c.data, c.pos + 1, Until(c)) \in Seq(Cell)
<1>1. /\ c.data \in Seq(Cell) /\ c.pos \in Nat /\ c.upto \in Nat
      /\ c.upto <= Len(c.data) /\ Len(c.data) \in Nat
  BY LenProperties DEF IsCat, CatState
<1>2. Until(c) \in Nat /\ c.pos <= Until(c) /\ Until(c) <= c.upto
  BY <1>1, TeleportAssumption DEF Until, Lesser
<1>3. \A k \in (c.pos + 1)..Until(c) : c.data[k] \in Cell
  BY <1>1, <1>2, ElementOfSeq
<1>4. SubSeq(c.data, c.pos + 1, Until(c)) \in Seq(Cell)
  BY <1>1, <1>2, <1>3, SubSeqProperties
<1> QED
  BY <1>1, <1>2, <1>4

\* Moving a cat on, or cutting off its input, leaves a cat.
LEMMA CatMoves ==
    ASSUME NEW c, IsCat(c), NEW n \in Nat
    PROVE  /\ n <= c.upto =>
                 /\ IsCat([c EXCEPT !.pos = n])
                 /\ [c EXCEPT !.pos = n] =
                       [host |-> c.host, data |-> c.data, pos |-> n,
                        upto |-> c.upto]
           /\ c.pos <= n /\ n <= c.upto =>
                 /\ IsCat([c EXCEPT !.upto = n])
                 /\ [c EXCEPT !.upto = n] =
                       [host |-> c.host, data |-> c.data, pos |-> c.pos,
                        upto |-> n]
<1>1. /\ c = [host |-> c.host, data |-> c.data, pos |-> c.pos, upto |-> c.upto]
      /\ c.host \in Host /\ c.data \in Seq(Cell) /\ c.pos \in Nat
      /\ c.upto \in Nat /\ Len(c.data) \in Nat
      /\ c.pos <= c.upto /\ c.upto <= Len(c.data)
  BY LenProperties DEF IsCat, CatState
<1>2. /\ [c EXCEPT !.pos = n] =
            [host |-> c.host, data |-> c.data, pos |-> n, upto |-> c.upto]
      /\ [c EXCEPT !.upto = n] =
            [host |-> c.host, data |-> c.data, pos |-> c.pos, upto |-> n]
  BY <1>1
<1> QED
  BY <1>1, <1>2 DEF IsCat, CatState

-----------------------------------------------------------------------------
(* The inductive invariant, however many deployments meet on a machine.    *)

\* p sends an image of some release: from the moment it knows the target's
\* architecture, the image for that.
Sends(p) ==
    \E v \in Version : \E a \in Released(Native[v]) :
        /\ data[p] = Canon[v][a]
        /\ pc[p] # "uname" => a = HostArch[dst[p]]

\* What the command p is at says of its cat, its target and its report.
InStep(p) ==
    /\ pc[p] = "stream" <=> cat[p] # NoCat
    /\ cat[p] # NoCat => /\ cat[p].host = dst[p]
                         /\ cat[p].data = data[p]
                         /\ cat[p].upto = Len(data[p])
    /\ orphan[p] # NoCat => Exists(orphan[p].host)
    /\ pc[p] \in {"stream", "chmod", "md5", "answer"} => Exists(dst[p])
    /\ pc[p] \in {"md5", "answer"} => exec[dst[p]]
    /\ pc[p] # "idle" => said[p] = ""
    /\ pc[p] # "idle" /\ src[p] = Desk => Sends(p)

IInv == Types /\ \A p \in Proc : InStep(p)

\* The types by parts.
Commands ==
    {"idle", "uname", "mkdir", "put", "stream", "chmod", "md5", "answer"}

FileType == [Host -> {NoDir, NoFile} \cup Seq(Cell)]

RemoteType ==
    /\ file \in FileType
    /\ exec \in [Host -> BOOLEAN]
    /\ last \in [Host -> Proc \cup {NoCat}]

ProcType ==
    /\ pc \in [Proc -> Commands]
    /\ src \in [Proc -> Host \cup {Desk}]
    /\ dst \in [Proc -> Host]
    /\ data \in [Proc -> Seq(Cell)]
    /\ said \in [Proc -> {"", "ok", "error"}]

CatType ==
    /\ cat \in [Proc -> {NoCat} \cup CatState]
    /\ orphan \in [Proc -> {NoCat} \cup CatState]
    /\ \A p \in Proc : /\ cat[p] = NoCat \/ IsCat(cat[p])
                       /\ orphan[p] = NoCat \/ IsCat(orphan[p])

LEMMA TypeParts ==
    Types <=> RemoteType /\ ProcType /\ CatType /\ faults \in 0..MaxFaults
BY DEF Types, RemoteType, ProcType, CatType, Commands, FileType

LEMMA TypePartsNext ==
    Types' <=> /\ RemoteType' /\ ProcType' /\ CatType'
                /\ faults' \in 0..MaxFaults
BY DEF Types, RemoteType, ProcType, CatType, Commands, FileType

\* A file that exists is a sequence of cells.
LEMMA ExistsCells ==
    ASSUME RemoteType, NEW h \in Host
    PROVE  Exists(h) <=> file[h] \in Seq(Cell)
BY MarksAssumption DEF RemoteType, FileType, Exists

\* Deploy returns.
LEMMA ReturnFacts ==
    ASSUME ProcType, NEW p \in Proc, NEW what \in {"ok", "error"},
           Return(p, what)
    PROVE  /\ ProcType'
           /\ pc'[p] = "idle" /\ said'[p] = what /\ data'[p] = <<>>
           /\ dst' = dst
           /\ \A q \in Proc : q # p =>
                 /\ pc'[q] = pc[q] /\ src'[q] = src[q]
                 /\ data'[q] = data[q] /\ said'[q] = said[q]
<1>1. <<>> \in Seq(Cell)
  OBVIOUS
<1> QED
  BY <1>1 DEF ProcType, Return, Commands

\* Deploy goes on to its next command.
LEMMA GotoFacts ==
    ASSUME ProcType, NEW p \in Proc, NEW l \in Commands, Goto(p, l)
    PROVE  /\ pc' \in [Proc -> Commands] /\ src' \in [Proc -> Host \cup {Desk}]
           /\ dst' \in [Proc -> Host] /\ said' \in [Proc -> {"", "ok", "error"}]
           /\ pc'[p] = l /\ src' = src /\ dst' = dst /\ said' = said
           /\ \A q \in Proc : q # p => pc'[q] = pc[q]
BY DEF ProcType, Goto

\* One deployment's cat, or the one it left behind, changes.
LEMMA CatFacts ==
    ASSUME CatType, NEW p \in Proc, NEW c, NEW o,
           c = NoCat \/ IsCat(c), o = NoCat \/ IsCat(o),
           cat' = [cat EXCEPT ![p] = c], orphan' = [orphan EXCEPT ![p] = o]
    PROVE  /\ CatType'
           /\ cat'[p] = c /\ orphan'[p] = o
           /\ \A q \in Proc : q # p => cat'[q] = cat[q] /\ orphan'[q] = orphan[q]
<1>1. c \in {NoCat} \cup CatState /\ o \in {NoCat} \cup CatState
  BY DEF IsCat
<1>2. /\ cat' \in [Proc -> {NoCat} \cup CatState]
      /\ orphan' \in [Proc -> {NoCat} \cup CatState]
      /\ cat'[p] = c /\ orphan'[p] = o
      /\ \A q \in Proc : q # p => cat'[q] = cat[q] /\ orphan'[q] = orphan[q]
  BY <1>1 DEF CatType
<1>3. ASSUME NEW q \in Proc
      PROVE  /\ cat'[q] = NoCat \/ IsCat(cat'[q])
             /\ orphan'[q] = NoCat \/ IsCat(orphan'[q])
  <2>1. CASE q = p
    BY <1>2, <2>1
  <2>2. CASE q # p
    BY <1>2, <2>2 DEF CatType
  <2> QED
    BY <2>1, <2>2
<1> QED
  BY <1>2, <1>3 DEF CatType, IsCat, CatState

\* The same functions, written as an update of nothing.
LEMMA Same ==
    ASSUME CatType, NEW p \in Proc
    PROVE  cat = [cat EXCEPT ![p] = cat[p]] /\ orphan = [orphan EXCEPT ![p] = orphan[p]]
BY DEF CatType

LEMMA CatOnly ==
    ASSUME CatType, NEW p \in Proc, NEW c, c = NoCat \/ IsCat(c),
           cat' = [cat EXCEPT ![p] = c], orphan' = orphan
    PROVE  /\ CatType' /\ cat'[p] = c
           /\ \A q \in Proc : q # p => cat'[q] = cat[q]
<1>1. c \in {NoCat} \cup CatState
  BY DEF IsCat
<1>2. /\ cat' \in [Proc -> {NoCat} \cup CatState]
      /\ cat'[p] = c
      /\ \A q \in Proc : q # p => cat'[q] = cat[q]
  BY <1>1 DEF CatType
<1>3. \A q \in Proc : cat'[q] = NoCat \/ IsCat(cat'[q])
  BY <1>2 DEF CatType
<1> QED
  BY <1>2, <1>3 DEF CatType, IsCat, CatState

LEMMA OrphanOnly ==
    ASSUME CatType, NEW p \in Proc, NEW o, o = NoCat \/ IsCat(o),
           orphan' = [orphan EXCEPT ![p] = o], cat' = cat
    PROVE  /\ CatType' /\ orphan'[p] = o
           /\ \A q \in Proc : q # p => orphan'[q] = orphan[q]
<1>1. o \in {NoCat} \cup CatState
  BY DEF IsCat
<1>2. /\ orphan' \in [Proc -> {NoCat} \cup CatState]
      /\ orphan'[p] = o
      /\ \A q \in Proc : q # p => orphan'[q] = orphan[q]
  BY <1>1 DEF CatType
<1>3. \A q \in Proc : orphan'[q] = NoCat \/ IsCat(orphan'[q])
  BY <1>2 DEF CatType
<1> QED
  BY <1>2, <1>3 DEF CatType, IsCat, CatState

\* No step takes an installed file away, or the x bit off one.
Keeps == \A h \in Host : Exists(h) => Exists(h)' /\ (exec[h] => exec'[h])

\* A deployment that moves at most within its stream stays in step.
LEMMA Bystander ==
    ASSUME Types, Keeps, NEW q \in Proc, InStep(q),
           pc'[q] = pc[q], src'[q] = src[q], dst'[q] = dst[q],
           data'[q] = data[q], said'[q] = said[q],
           cat'[q] = NoCat <=> cat[q] = NoCat,
           cat[q] # NoCat => /\ cat'[q].host = cat[q].host
                             /\ cat'[q].data = cat[q].data
                             /\ cat'[q].upto = cat[q].upto,
           orphan'[q] # NoCat => /\ orphan[q] # NoCat
                                 /\ orphan'[q].host = orphan[q].host
    PROVE  InStep(q)'
<1>1. dst[q] \in Host /\ (orphan[q] # NoCat => orphan[q].host \in Host)
  BY DEF Types, IsCat, CatState
<1>2. Sends(q) => Sends(q)'
  BY DEF Sends
<1>3. \A h \in Host : Exists(h) => Exists(h)' /\ (exec[h] => exec'[h])
  BY DEF Keeps
<1>4. (pc[q] \in {"stream", "chmod", "md5", "answer"} => Exists(dst[q]))'
  BY <1>1, <1>3 DEF InStep, Exists
<1>5. (orphan[q] # NoCat => Exists(orphan[q].host))'
  BY <1>1, <1>3 DEF InStep, Exists
<1>6. (pc[q] \in {"md5", "answer"} => exec[dst[q]])'
  BY <1>1, <1>3 DEF InStep
<1> QED
  BY <1>2, <1>4, <1>5, <1>6 DEF InStep

\* A deployment that returned is in step.
LEMMA Returned ==
    ASSUME NEW p \in Proc, pc'[p] = "idle", cat'[p] = NoCat,
           (orphan[p] # NoCat => Exists(orphan[p].host))'
    PROVE  InStep(p)'
BY DEF InStep

-----------------------------------------------------------------------------
(* Each step preserves it.                                                 *)

\* A deployment begins from an image, or fails at once.
LEMMA BeginStep ==
    ASSUME IInv, NEW p \in Proc, NEW s \in Host \cup {Desk}, NEW h \in Host,
           NEW image \in Seq(Cell), pc[p] = "idle",
           s = Desk => \E v \in Version : image = Canon[v][DeskArch],
           Begin(p, s, h, image)
    PROVE  IInv'
<1>1. Types /\ RemoteType /\ ProcType /\ CatType /\ faults \in 0..MaxFaults
  BY TypeParts DEF IInv
<1>2. UNCHANGED <<file, exec, last, cat, orphan, faults>>
  BY DEF Begin, remote
<1>3. ProcType'
  BY <1>1, ZenonT(60) DEF Begin, ProcType, Commands
<1>4. RemoteType' /\ CatType'
  BY <1>1, <1>2 DEF RemoteType, CatType
<1>5. Types'
  BY <1>1, <1>2, <1>3, <1>4, TypePartsNext
<1>6. Keeps
  BY <1>2 DEF Keeps, Exists
<1>7. InStep(p) /\ cat[p] = NoCat
  BY DEF IInv, InStep
<1>8. InStep(p)'
  <2>1. CASE SplitOK(image)
    <3>1. /\ pc'[p] = "uname" /\ src'[p] = s /\ data'[p] = image
          /\ said'[p] = ""
      BY <1>1, <2>1 DEF Begin, ProcType
    <3>2. src'[p] = Desk => Sends(p)'
      BY <3>1, CanonDomain DEF Sends
    <3>3. cat'[p] = NoCat /\ (orphan[p] # NoCat => Exists(orphan[p].host))'
      BY <1>2, <1>7 DEF InStep, Exists
    <3> QED
      BY <3>1, <3>2, <3>3 DEF InStep
  <2>2. CASE ~SplitOK(image)
    <3>1. pc'[p] = "idle" /\ cat'[p] = NoCat
      BY <1>2, <1>7, <2>2 DEF Begin
    <3>2. (orphan[p] # NoCat => Exists(orphan[p].host))'
      BY <1>2, <1>7 DEF InStep, Exists
    <3> QED
      BY <3>1, <3>2, Returned
  <2> QED
    BY <2>1, <2>2
<1>9. ASSUME NEW q \in Proc, q # p
      PROVE  InStep(q)'
  <2>1. /\ pc'[q] = pc[q] /\ src'[q] = src[q] /\ dst'[q] = dst[q]
        /\ data'[q] = data[q] /\ said'[q] = said[q]
    BY <1>1, <1>9 DEF Begin, ProcType
  <2>2. InStep(q)
    BY DEF IInv
  <2> QED
    BY <1>1, <1>2, <1>6, <2>1, <2>2, Bystander
<1> QED
  BY <1>5, <1>8, <1>9 DEF IInv

LEMMA DeskStep ==
    ASSUME IInv, NEW p \in Proc, NEW v \in Version, NEW h \in Host,
           RunFromDesk(p, v, h)
    PROVE  IInv'
<1>1. Canon[v][DeskArch] \in Seq(Cell)
  BY CanonDomain, CanonShape
<1>2. pc[p] = "idle" /\ Begin(p, Desk, h, Canon[v][DeskArch])
  BY DEF RunFromDesk
<1> QED
  BY <1>1, <1>2, BeginStep

LEMMA HopStep ==
    ASSUME IInv, NEW p \in Proc, NEW s \in Host, NEW h \in Host,
           RunInstalled(p, s, h)
    PROVE  IInv'
<1>1. file[s] \in Seq(Cell)
  BY TypeParts, ExistsCells DEF IInv, RunInstalled, Runnable
<1>2. s # Desk
  BY TeleportAssumption
<1>3. pc[p] = "idle" /\ Begin(p, s, h, file[s])
  BY DEF RunInstalled
<1> QED
  BY <1>1, <1>2, <1>3, BeginStep

\* Deploy returns, and its cat, if it had one, is gone or left behind.
LEMMA ReturnStep ==
    ASSUME IInv, NEW p \in Proc, NEW what \in {"ok", "error"},
           Return(p, what), RemoteType', Keeps, faults' \in 0..MaxFaults,
           NEW o, orphan' = [orphan EXCEPT ![p] = o],
           o = NoCat \/ (IsCat(o) /\ Exists(o.host)),
           cat' = [cat EXCEPT ![p] = NoCat]
    PROVE  IInv'
<1>1. Types /\ RemoteType /\ ProcType /\ CatType
  BY TypeParts DEF IInv
<1>2. /\ ProcType'
      /\ pc'[p] = "idle" /\ dst' = dst
      /\ \A q \in Proc : q # p =>
            /\ pc'[q] = pc[q] /\ src'[q] = src[q]
            /\ data'[q] = data[q] /\ said'[q] = said[q]
  BY <1>1, ReturnFacts
<1>3. /\ CatType' /\ cat'[p] = NoCat /\ orphan'[p] = o
      /\ \A q \in Proc : q # p =>
            cat'[q] = cat[q] /\ orphan'[q] = orphan[q]
  BY <1>1, CatFacts, ZenonT(60)
<1>4. Types'
  BY <1>2, <1>3, TypePartsNext
<1>5. InStep(p)'
  <2>1. (orphan[p] # NoCat => Exists(orphan[p].host))'
    <3>1. CASE o = NoCat
      BY <1>3, <3>1
    <3>2. CASE IsCat(o) /\ Exists(o.host)
      <4>1. o.host \in Host
        BY <3>2 DEF IsCat, CatState
      <4>2. Exists(o.host)'
        BY <3>2, <4>1 DEF Keeps
      <4> QED
        BY <1>3, <4>2 DEF Exists
    <3> QED
      BY <3>1, <3>2
  <2> QED
    BY <1>2, <1>3, <2>1, Returned
<1>6. ASSUME NEW q \in Proc, q # p
      PROVE  InStep(q)'
  <2>1. InStep(q)
    BY DEF IInv
  <2> QED
    BY <1>1, <1>2, <1>3, <1>6, <2>1, Bystander
<1> QED
  BY <1>4, <1>5, <1>6 DEF IInv

\* A deployment with no cat returns.
LEMMA QuietReturn ==
    ASSUME IInv, NEW p \in Proc, NEW what \in {"ok", "error"},
           pc[p] # "stream", Return(p, what), RemoteType', Keeps,
           faults' \in 0..MaxFaults, UNCHANGED <<cat, orphan>>
    PROVE  IInv'
<1>1. CatType /\ InStep(p)
  BY TypeParts DEF IInv
<1>2. cat[p] = NoCat
  BY <1>1 DEF InStep
<1>3. /\ cat' = [cat EXCEPT ![p] = NoCat]
      /\ orphan' = [orphan EXCEPT ![p] = orphan[p]]
  BY <1>1, <1>2, Same
<1>4. orphan[p] = NoCat \/ (IsCat(orphan[p]) /\ Exists(orphan[p].host))
  BY <1>1 DEF CatType, InStep
<1> QED
  BY <1>3, <1>4, ReturnStep

\* Nothing on the machines changes.
LEMMA RemoteSame ==
    ASSUME IInv, UNCHANGED remote
    PROVE  RemoteType' /\ Keeps
<1>1. RemoteType
  BY TypeParts DEF IInv
<1> QED
  BY <1>1 DEF RemoteType, remote, Keeps, Exists

\* mkdir -p leaves a file that exists alone.
LEMMA MkdirKeeps ==
    ASSUME IInv, NEW h \in Host, MkdirEffect(h)
    PROVE  /\ RemoteType' /\ Keeps
           /\ \A g \in Host : Exists(g) => file'[g] = file[g]
           /\ \A g \in Host : Exists(g)' => Exists(g)
<1>1. RemoteType
  BY TypeParts DEF IInv
<1>2. /\ file' = [file EXCEPT ![h] = IF file[h] = NoDir THEN NoFile ELSE file[h]]
      /\ UNCHANGED <<exec, last>>
  BY DEF MkdirEffect
<1>3. file' \in FileType
  BY <1>1, <1>2 DEF RemoteType, FileType
<1>4. \A g \in Host : file'[g] = IF g = h /\ file[g] = NoDir THEN NoFile
                                 ELSE file[g]
  BY <1>1, <1>2 DEF RemoteType, FileType
<1>5. \A g \in Host : Exists(g) => file'[g] = file[g]
  BY <1>4 DEF Exists
<1>6. \A g \in Host : Exists(g)' <=> Exists(g)
  BY <1>4 DEF Exists
<1> QED
  BY <1>1, <1>2, <1>3, <1>5, <1>6 DEF RemoteType, Keeps

\* chmod +x of a file.
LEMMA ChmodKeeps ==
    ASSUME IInv, NEW h \in Host, ChmodEffect(h)
    PROVE  /\ RemoteType' /\ Keeps
           /\ exec'[h] = TRUE /\ file' = file
           /\ \A g \in Host : exec[g] => exec'[g]
<1>1. RemoteType
  BY TypeParts DEF IInv
<1>2. exec' = [exec EXCEPT ![h] = TRUE] /\ UNCHANGED <<file, last>>
  BY DEF ChmodEffect
<1>3. exec' \in [Host -> BOOLEAN] /\ exec'[h] = TRUE
  BY <1>1, <1>2 DEF RemoteType
<1>4. \A g \in Host : exec[g] => exec'[g]
  BY <1>1, <1>2 DEF RemoteType
<1> QED
  BY <1>1, <1>2, <1>3, <1>4 DEF RemoteType, Keeps, Exists

LEMMA UnameStep ==
    ASSUME IInv, NEW p \in Proc, Uname(p)
    PROVE  IInv'
<1> DEFINE m == Machine[dst[p]]
           t == FromUname(m)
<1>1. Types /\ RemoteType /\ ProcType /\ CatType /\ faults \in 0..MaxFaults
  BY TypeParts DEF IInv
<1>2. /\ pc[p] = "uname" /\ InStep(p) /\ dst[p] \in Host
      /\ data[p] \in Seq(Cell)
  BY <1>1 DEF Uname, IInv, ProcType
<1>3. UNCHANGED <<file, exec, last, cat, orphan, faults>>
  BY DEF Uname, remote
<1>4. RemoteType' /\ Keeps /\ faults' \in 0..MaxFaults
  BY <1>1, <1>3, RemoteSame DEF remote
<1>5. CASE FromUnameOK(m) /\ ReconstructOK(data[p], t)
  <2>1. /\ data' = [data EXCEPT ![p] = Reconstruct(data[p], t)]
        /\ Goto(p, "mkdir")
    BY <1>5 DEF Uname
  <2>2. Reconstruct(data[p], t) \in Seq(Cell)
    BY <1>2, <1>5, ReconstructType
  <2>3. /\ pc' \in [Proc -> Commands] /\ src' \in [Proc -> Host \cup {Desk}]
        /\ dst' \in [Proc -> Host] /\ said' \in [Proc -> {"", "ok", "error"}]
        /\ pc'[p] = "mkdir" /\ src' = src /\ dst' = dst /\ said' = said
        /\ \A q \in Proc : q # p => pc'[q] = pc[q]
    BY <1>1, <2>1, GotoFacts DEF Commands
  <2>4. /\ data' \in [Proc -> Seq(Cell)]
        /\ data'[p] = Reconstruct(data[p], t)
        /\ \A q \in Proc : q # p => data'[q] = data[q]
    BY <1>1, <2>1, <2>2 DEF ProcType
  <2>5. ProcType' /\ CatType'
    BY <1>1, <1>3, <2>3, <2>4 DEF ProcType, CatType
  <2>6. Types'
    BY <1>4, <2>5, TypePartsNext
  <2>7. t = HostArch[dst[p]]
    BY <1>2, <1>5, TeleportAssumption
  <2>8. src[p] = Desk => Sends(p)'
    <3>1. SUFFICES ASSUME src[p] = Desk PROVE Sends(p)'
      OBVIOUS
    <3>2. PICK v \in Version : \E a \in Released(Native[v]) :
             data[p] = Canon[v][a]
      BY <1>2, <3>1 DEF InStep, Sends
    <3>3. PICK a \in Released(Native[v]) : data[p] = Canon[v][a]
      BY <3>2
    <3>4. t \in Released(Native[v]) /\ Reconstruct(data[p], t) = Canon[v][t]
      BY <1>5, <3>3, CanonAnswers
    <3> HIDE DEF t
    <3> QED
      BY <2>3, <2>4, <2>7, <3>4 DEF Sends
  <2>9. InStep(p)'
    BY <1>2, <1>3, <2>3, <2>8 DEF InStep, Exists
  <2>10. ASSUME NEW q \in Proc, q # p
         PROVE  InStep(q)'
    <3>1. InStep(q)
      BY DEF IInv
    <3> QED
      BY <1>1, <1>3, <1>4, <2>3, <2>4, <2>10, <3>1, Bystander
  <2> QED
    BY <2>6, <2>9, <2>10 DEF IInv
<1>6. CASE ~(FromUnameOK(m) /\ ReconstructOK(data[p], t))
  <2>1. Return(p, "error")
    BY <1>6 DEF Uname
  <2> QED
    BY <1>2, <1>3, <1>4, <2>1, QuietReturn
<1> QED
  BY <1>5, <1>6

\* A deployment goes on from a command that has no cat to one that has none.
LEMMA GotoStep ==
    ASSUME IInv, NEW p \in Proc, NEW l \in {"put", "md5", "answer"},
           pc[p] \in {"mkdir", "chmod", "md5"}, Goto(p, l), RemoteType', Keeps,
           l # "put" => Exists(dst[p]) /\ exec'[dst[p]],
           UNCHANGED <<data, cat, orphan, faults>>
    PROVE  IInv'
<1>1. Types /\ RemoteType /\ ProcType /\ CatType /\ faults \in 0..MaxFaults
  BY TypeParts DEF IInv
<1>2. InStep(p) /\ dst[p] \in Host
  BY <1>1 DEF IInv, ProcType
<1>3. /\ pc' \in [Proc -> Commands] /\ src' \in [Proc -> Host \cup {Desk}]
      /\ dst' \in [Proc -> Host] /\ said' \in [Proc -> {"", "ok", "error"}]
      /\ pc'[p] = l /\ src' = src /\ dst' = dst /\ said' = said
      /\ \A q \in Proc : q # p => pc'[q] = pc[q]
  BY <1>1, GotoFacts DEF Commands
<1>4. ProcType' /\ CatType'
  BY <1>1, <1>3 DEF ProcType, CatType
<1>5. Types'
  BY <1>1, <1>4, TypePartsNext
<1>6. (Sends(p))' \/ src[p] # Desk
  BY <1>2, <1>3 DEF InStep, Sends
<1>7. cat'[p] = NoCat /\ said'[p] = ""
  BY <1>2, <1>3 DEF InStep
<1>8. (orphan[p] # NoCat => Exists(orphan[p].host))'
  <2>1. orphan[p] # NoCat => orphan[p].host \in Host /\ Exists(orphan[p].host)
    BY <1>1, <1>2 DEF CatType, IsCat, CatState, InStep
  <2>2. orphan[p] # NoCat => Exists(orphan[p].host)'
    BY <2>1 DEF Keeps
  <2> QED
    BY <2>2 DEF Exists
<1>9. l # "put" => Exists(dst[p])' /\ exec'[dst[p]]
  BY <1>2, <1>3 DEF Keeps, Exists
<1>10. InStep(p)'
  BY <1>3, <1>6, <1>7, <1>8, <1>9 DEF InStep, Exists
<1>11. ASSUME NEW q \in Proc, q # p
       PROVE  InStep(q)'
  <2>1. InStep(q)
    BY DEF IInv
  <2> QED
    BY <1>1, <1>3, <1>11, <2>1, Bystander
<1> QED
  BY <1>5, <1>10, <1>11 DEF IInv

LEMMA MkdirStep ==
    ASSUME IInv, NEW p \in Proc, Mkdir(p)
    PROVE  IInv'
<1>1. /\ pc[p] = "mkdir" /\ MkdirEffect(dst[p]) /\ Goto(p, "put")
      /\ UNCHANGED <<data, cat, orphan, faults>>
  BY DEF Mkdir
<1>2. dst[p] \in Host
  BY DEF IInv, Types
<1>3. RemoteType' /\ Keeps
  BY <1>1, <1>2, MkdirKeeps
<1> QED
  BY <1>1, <1>3, GotoStep

LEMMA ChmodStep ==
    ASSUME IInv, NEW p \in Proc, Chmod(p)
    PROVE  IInv'
<1>1. /\ pc[p] = "chmod" /\ ChmodEffect(dst[p]) /\ Goto(p, "md5")
      /\ UNCHANGED <<data, cat, orphan, faults>>
  BY DEF Chmod
<1>2. dst[p] \in Host /\ Exists(dst[p])
  BY <1>1 DEF IInv, Types, InStep
<1>3. RemoteType' /\ Keeps /\ exec'[dst[p]]
  BY <1>1, <1>2, ChmodKeeps
<1> QED
  BY <1>1, <1>2, <1>3, GotoStep

LEMMA OpenFailsStep ==
    ASSUME IInv, NEW p \in Proc, OpenFails(p)
    PROVE  IInv'
<1>1. /\ pc[p] = "put" /\ Return(p, "error") /\ UNCHANGED remote
      /\ UNCHANGED <<cat, orphan, faults>>
  BY DEF OpenFails
<1>2. RemoteType' /\ Keeps /\ faults' \in 0..MaxFaults
  BY <1>1, RemoteSame DEF IInv, Types
<1> QED
  BY <1>1, <1>2, QuietReturn

LEMMA Md5ReadsStep ==
    ASSUME IInv, NEW p \in Proc, Md5Reads(p)
    PROVE  IInv'
<1>1. /\ UNCHANGED <<file, exec, last>>
      /\ UNCHANGED <<pc, src, dst, data, cat, orphan, said, faults>>
  BY DEF Md5Reads, remote
<1>2. Types /\ Types' /\ Keeps
  BY <1>1 DEF IInv, Types, IsCat, CatState, Keeps, Exists
<1>3. ASSUME NEW q \in Proc
      PROVE  InStep(q)'
  <2>1. InStep(q)
    BY DEF IInv
  <2> QED
    BY <1>1, <1>2, <2>1, Bystander
<1> QED
  BY <1>2, <1>3 DEF IInv

LEMMA Md5EndsStep ==
    ASSUME IInv, NEW p \in Proc, Md5Ends(p)
    PROVE  IInv'
<1>1. /\ pc[p] = "md5" /\ Goto(p, "answer") /\ UNCHANGED remote
      /\ UNCHANGED <<data, cat, orphan, faults>>
  BY DEF Md5Ends
<1>2. dst[p] \in Host /\ Exists(dst[p]) /\ exec[dst[p]]
  BY <1>1 DEF IInv, Types, InStep
<1>3. RemoteType' /\ Keeps /\ exec'[dst[p]]
  BY <1>1, <1>2, RemoteSame DEF remote
<1> QED
  BY <1>1, <1>2, <1>3, GotoStep

LEMMA CompareStep ==
    ASSUME IInv, NEW p \in Proc, Compare(p)
    PROVE  IInv'
<1>1. PICK what \in {"ok", "error"} : Return(p, what)
  BY DEF Compare
<1>2. pc[p] = "answer" /\ UNCHANGED remote /\ UNCHANGED <<cat, orphan, faults>>
  BY DEF Compare
<1>3. RemoteType' /\ Keeps /\ faults' \in 0..MaxFaults
  BY <1>2, RemoteSame DEF IInv, Types
<1> QED
  BY <1>1, <1>2, <1>3, QuietReturn

LEMMA FaultType ==
    ASSUME IInv, Fault
    PROVE  faults' \in 0..MaxFaults
<1>1. faults \in 0..MaxFaults
  BY TypeParts DEF IInv
<1>2. faults < MaxFaults /\ faults' = faults + 1
  BY DEF Fault
<1> QED
  BY <1>1, <1>2, TeleportAssumption

LEMMA CommandLostStep ==
    ASSUME IInv, NEW p \in Proc, CommandLost(p)
    PROVE  IInv'
<1>1. /\ faults' \in 0..MaxFaults /\ pc[p] # "stream" /\ dst[p] \in Host
      /\ Return(p, "error") /\ UNCHANGED <<cat, orphan>>
  BY FaultType DEF CommandLost, IInv, Types
<1>2. RemoteType' /\ Keeps
  BY <1>1, RemoteSame, MkdirKeeps, ChmodKeeps DEF CommandLost
<1> QED
  BY <1>1, <1>2, QuietReturn

LEMMA StreamLostStep ==
    ASSUME IInv, NEW p \in Proc, StreamLost(p)
    PROVE  IInv'
<1>1. /\ faults' \in 0..MaxFaults /\ pc[p] = "stream"
      /\ Return(p, "error") /\ UNCHANGED remote
      /\ cat' = [cat EXCEPT ![p] = NoCat]
  BY FaultType DEF StreamLost
<1>2. RemoteType' /\ Keeps
  BY <1>1, RemoteSame
<1>3. /\ cat[p] # NoCat /\ IsCat(cat[p]) /\ cat[p].host = dst[p]
      /\ Exists(dst[p])
  BY <1>1, TypeParts DEF IInv, InStep, CatType
<1>4. cat[p].pos \in Nat /\ cat[p].upto \in Nat
  BY <1>3 DEF IsCat, CatState
<1>5. PICK n \in cat[p].pos..cat[p].upto :
         orphan' = [orphan EXCEPT ![p] = [cat[p] EXCEPT !.upto = n]]
  BY DEF StreamLost
<1> DEFINE o == [cat[p] EXCEPT !.upto = n]
<1>6. IsCat(o) /\ o.host = cat[p].host
  <2>1. n \in Nat /\ cat[p].pos <= n /\ n <= cat[p].upto
    BY <1>4
  <2>2. /\ IsCat(o)
        /\ o = [host |-> cat[p].host, data |-> cat[p].data,
                pos |-> cat[p].pos, upto |-> n]
    BY <1>3, <2>1, CatMoves
  <2> HIDE DEF o
  <2> QED
    BY <2>2
<1>7. orphan' = [orphan EXCEPT ![p] = o]
  BY <1>5
<1> HIDE DEF o
<1> QED
  BY <1>1, <1>2, <1>3, <1>6, <1>7, ReturnStep

LEMMA CatFailsStep ==
    ASSUME IInv, NEW p \in Proc, CatFails(p)
    PROVE  IInv'
<1>1. /\ faults' \in 0..MaxFaults /\ Return(p, "error")
      /\ UNCHANGED remote /\ UNCHANGED orphan
      /\ cat' = [cat EXCEPT ![p] = NoCat]
  BY FaultType DEF CatFails
<1>2. RemoteType' /\ Keeps
  BY <1>1, RemoteSame
<1>3. CatType /\ InStep(p)
  BY TypeParts DEF IInv
<1>4. /\ orphan' = [orphan EXCEPT ![p] = orphan[p]]
      /\ orphan[p] = NoCat \/ (IsCat(orphan[p]) /\ Exists(orphan[p].host))
  BY <1>1, <1>3, Same DEF CatType, InStep
<1> QED
  BY <1>1, <1>2, <1>4, ReturnStep

LEMMA OpenStep ==
    ASSUME IInv, NEW p \in Proc, Open(p)
    PROVE  IInv'
<1>0. PICK h \in Host : h = dst[p]
  BY DEF IInv, Types
<1> DEFINE c == [host |-> h, data |-> data[p], pos |-> 0, upto |-> Len(data[p])]
<1>1. Types /\ RemoteType /\ ProcType /\ CatType /\ faults \in 0..MaxFaults
  BY TypeParts DEF IInv
<1>e. <<>> \in Seq(Cell)
  OBVIOUS
<1>2. InStep(p) /\ data[p] \in Seq(Cell) /\ <<>> \in Seq(Cell)
  BY <1>1, <1>e DEF IInv, ProcType
<1>3. /\ pc[p] = "put" /\ Goto(p, "stream")
      /\ file' = [file EXCEPT ![h] = <<>>]
      /\ exec' = [exec EXCEPT ![h] = Exists(h) /\ exec[h]]
      /\ last' = [last EXCEPT ![h] = p]
      /\ cat' = [cat EXCEPT ![p] = c]
      /\ UNCHANGED <<data, orphan, faults>>
  BY <1>0 DEF Open
<1>4. IsCat(c) /\ c.host = h /\ c.data = data[p] /\ c.upto = Len(data[p])
  <2>1. Len(data[p]) \in Nat
    BY <1>2, LenProperties
  <2> QED
    BY <1>2, <2>1 DEF IsCat, CatState
<1> HIDE DEF c
<1>5. /\ file' \in FileType /\ file'[h] = <<>>
      /\ \A g \in Host : g # h => file'[g] = file[g]
  BY <1>1, <1>2, <1>3 DEF RemoteType, FileType
<1>6. /\ exec' \in [Host -> BOOLEAN]
      /\ \A g \in Host : g # h => exec'[g] = exec[g]
      /\ exec'[h] <=> Exists(h) /\ exec[h]
  BY <1>1, <1>2, <1>3 DEF RemoteType
<1>7. RemoteType'
  BY <1>1, <1>2, <1>3, <1>5, <1>6 DEF RemoteType
<1>8. Exists(h)'
  BY <1>2, <1>5, MarksAssumption DEF Exists
<1>9. Keeps
  <2>1. ASSUME NEW g \in Host, Exists(g)
        PROVE  Exists(g)' /\ (exec[g] => exec'[g])
    <3>1. CASE g = h
      <4>1. exec[h] => exec'[h]
        BY <1>6, <2>1, <3>1
      <4> QED
        BY <1>8, <3>1, <4>1 DEF Exists
    <3>2. CASE g # h
      BY <1>5, <1>6, <2>1, <3>2 DEF Exists
    <3> QED
      BY <3>1, <3>2
  <2> QED
    BY <2>1 DEF Keeps
<1>10. /\ pc' \in [Proc -> Commands] /\ src' \in [Proc -> Host \cup {Desk}]
       /\ dst' \in [Proc -> Host] /\ said' \in [Proc -> {"", "ok", "error"}]
       /\ pc'[p] = "stream" /\ src' = src /\ dst' = dst /\ said' = said
       /\ \A q \in Proc : q # p => pc'[q] = pc[q]
  BY <1>1, <1>3, GotoFacts DEF Commands
<1>11. /\ CatType' /\ cat'[p] = c
       /\ \A q \in Proc : q # p => cat'[q] = cat[q]
  BY <1>1, <1>3, <1>4, CatOnly
<1>12. ProcType'
  BY <1>1, <1>3, <1>10 DEF ProcType
<1>13. Types'
  BY <1>1, <1>3, <1>7, <1>11, <1>12, TypePartsNext
<1>14. InStep(p)'
  <2>1. c # NoCat
    BY <1>4, MarksAssumption DEF IsCat
  <2>2. Sends(p)' \/ src[p] # Desk
    BY <1>2, <1>3, <1>10 DEF InStep, Sends
  <2>3. said'[p] = ""
    BY <1>2, <1>3, <1>10 DEF InStep
  <2>4. (orphan[p] # NoCat => Exists(orphan[p].host))'
    <3>1. orphan[p] # NoCat => orphan[p].host \in Host /\ Exists(orphan[p].host)
      BY <1>1, <1>2 DEF CatType, IsCat, CatState, InStep
    <3>2. orphan[p] # NoCat => Exists(orphan[p].host)'
      BY <1>3, <1>9, <3>1 DEF Keeps, Exists
    <3> QED
      BY <1>3, <3>2 DEF Exists
  <2>5. Exists(dst[p])'
    BY <1>0, <1>8, <1>10 DEF Exists
  <2>6. c.host = dst'[p] /\ c.data = data'[p] /\ c.upto = Len(data'[p])
    BY <1>0, <1>3, <1>4, <1>10
  <2> QED
    BY <1>10, <1>11, <2>1, <2>2, <2>3, <2>4, <2>5, <2>6 DEF InStep
<1>15. ASSUME NEW q \in Proc, q # p
       PROVE  InStep(q)'
  <2>1. InStep(q)
    BY DEF IInv
  <2> QED
    BY <1>1, <1>3, <1>9, <1>10, <1>11, <1>15, <2>1, Bystander
<1> QED
  BY <1>13, <1>14, <1>15 DEF IInv

LEMMA PutDoneStep ==
    ASSUME IInv, NEW p \in Proc, PutDone(p)
    PROVE  IInv'
<1>1. Types /\ RemoteType /\ ProcType /\ CatType /\ faults \in 0..MaxFaults
  BY TypeParts DEF IInv
<1>2. /\ pc[p] = "stream" /\ Goto(p, "chmod") /\ UNCHANGED remote
      /\ cat' = [cat EXCEPT ![p] = NoCat]
      /\ UNCHANGED <<data, orphan, faults>>
  BY DEF PutDone
<1>3. RemoteType' /\ Keeps
  BY <1>2, RemoteSame
<1>4. InStep(p)
  BY DEF IInv
<1>5. /\ pc' \in [Proc -> Commands] /\ src' \in [Proc -> Host \cup {Desk}]
      /\ dst' \in [Proc -> Host] /\ said' \in [Proc -> {"", "ok", "error"}]
      /\ pc'[p] = "chmod" /\ src' = src /\ dst' = dst /\ said' = said
      /\ \A q \in Proc : q # p => pc'[q] = pc[q]
  BY <1>1, <1>2, GotoFacts DEF Commands
<1>6. /\ CatType' /\ cat'[p] = NoCat
      /\ \A q \in Proc : q # p => cat'[q] = cat[q]
  BY <1>1, <1>2, CatOnly
<1>7. ProcType'
  BY <1>1, <1>2, <1>5 DEF ProcType
<1>8. Types'
  BY <1>1, <1>2, <1>3, <1>6, <1>7, TypePartsNext
<1>9. InStep(p)'
  <2>1. Sends(p)' \/ src[p] # Desk
    BY <1>2, <1>4, <1>5 DEF InStep, Sends
  <2> QED
    BY <1>2, <1>4, <1>5, <1>6, <2>1 DEF InStep, Exists, remote
<1>10. ASSUME NEW q \in Proc, q # p
       PROVE  InStep(q)'
  <2>1. InStep(q)
    BY DEF IInv
  <2> QED
    BY <1>1, <1>2, <1>3, <1>5, <1>6, <1>10, <2>1, Bystander
<1> QED
  BY <1>8, <1>9, <1>10 DEF IInv

\* A write of any cat at an installed file.
LEMMA CatWritesStep ==
    ASSUME IInv, NEW c, IsCat(c), Exists(c.host), CatWrites(c)
    PROVE  /\ RemoteType' /\ Keeps /\ ProcType'
           /\ file' = [file EXCEPT ![c.host] =
                 WriteAt(file[c.host], c.pos,
                         SubSeq(c.data, c.pos + 1, Until(c)))]
           /\ \A g \in Host : Exists(g)' <=> Exists(g)
<1>1. RemoteType /\ ProcType
  BY TypeParts DEF IInv
<1>2. c.host \in Host /\ c.pos \in Nat /\ c.pos < c.upto
  BY DEF IsCat, CatState, CatWrites
<1>3. SubSeq(c.data, c.pos + 1, Until(c)) \in Seq(Cell)
  BY <1>2, UntilRange
<1>4. file[c.host] \in Seq(Cell)
  BY <1>1, <1>2, ExistsCells
<1> DEFINE f == WriteAt(file[c.host], c.pos,
                        SubSeq(c.data, c.pos + 1, Until(c)))
<1>5. f \in Seq(Cell)
  BY <1>2, <1>3, <1>4, WriteType
<1>6. /\ file' = [file EXCEPT ![c.host] = f]
      /\ UNCHANGED <<exec, pc, src, dst, data, said, last, faults>>
  BY DEF CatWrites
<1> HIDE DEF f
<1>7. file' \in FileType
  BY <1>1, <1>2, <1>5, <1>6 DEF RemoteType, FileType
<1>8. RemoteType' /\ ProcType'
  BY <1>1, <1>6, <1>7 DEF RemoteType, ProcType
<1>9. \A g \in Host : file'[g] = IF g = c.host THEN f ELSE file[g]
  BY <1>1, <1>2, <1>6 DEF RemoteType, FileType
<1>10. \A g \in Host : Exists(g)' <=> Exists(g)
  BY <1>5, <1>9, MarksAssumption DEF Exists
<1>11. Keeps
  BY <1>6, <1>10 DEF Keeps
<1> QED
  BY <1>6, <1>8, <1>10, <1>11 DEF f

LEMMA WriteStep ==
    ASSUME IInv, NEW p \in Proc, Write(p)
    PROVE  IInv'
<1>0. PICK c : c = cat[p]
  OBVIOUS
<1>d. PICK d : d = [c EXCEPT !.pos = Until(c)]
  OBVIOUS
<1>1. Types /\ CatType /\ faults \in 0..MaxFaults
  BY TypeParts DEF IInv
<1>2. /\ c # NoCat /\ CatWrites(c) /\ orphan' = orphan
      /\ cat' = [cat EXCEPT ![p] = d]
      /\ UNCHANGED <<pc, src, dst, data, said, faults>>
  BY <1>0, <1>1, <1>d DEF Write, CatWrites, CatType
<1>3. InStep(p) /\ IsCat(c)
  BY <1>0, <1>1, <1>2 DEF IInv, CatType
<1>4. Exists(c.host)
  BY <1>0, <1>2, <1>3 DEF InStep
<1>5. RemoteType' /\ Keeps /\ ProcType'
  BY <1>2, <1>3, <1>4, CatWritesStep
<1>6. /\ IsCat(d)
      /\ d = [host |-> c.host, data |-> c.data, pos |-> Until(c),
              upto |-> c.upto]
  <2>1. Until(c) \in Nat /\ Until(c) <= c.upto
    BY <1>2, <1>3, UntilRange DEF CatWrites
  <2> QED
    BY <1>3, <1>d, <2>1, CatMoves
<1>7. d.host = c.host /\ d.data = c.data /\ d.upto = c.upto /\ d # NoCat
  BY <1>6, MarksAssumption DEF IsCat
<1>8. /\ CatType' /\ cat'[p] = d
      /\ \A q \in Proc : q # p => cat'[q] = cat[q]
  <2>1. IsCat(d)
    BY <1>6
  <2> QED
    BY <1>1, <1>2, <2>1, CatOnly
<1>9. Types'
  BY <1>1, <1>2, <1>5, <1>8, TypePartsNext
<1>10. ASSUME NEW q \in Proc
       PROVE  InStep(q)'
  <2>1. InStep(q)
    BY DEF IInv
  <2>2. /\ cat'[q] = NoCat <=> cat[q] = NoCat
        /\ cat[q] # NoCat => /\ cat'[q].host = cat[q].host
                             /\ cat'[q].data = cat[q].data
                             /\ cat'[q].upto = cat[q].upto
    BY <1>0, <1>2, <1>7, <1>8
  <2> QED
    BY <1>1, <1>2, <1>5, <2>1, <2>2, Bystander
<1> QED
  BY <1>9, <1>10 DEF IInv

LEMMA OrphanWritesStep ==
    ASSUME IInv, NEW p \in Proc, OrphanWrites(p)
    PROVE  IInv'
<1>0. PICK c : c = orphan[p]
  OBVIOUS
<1>d. PICK d : d = [c EXCEPT !.pos = Until(c)]
  OBVIOUS
<1>1. Types /\ CatType /\ faults \in 0..MaxFaults
  BY TypeParts DEF IInv
<1>2. /\ c # NoCat /\ CatWrites(c) /\ cat' = cat
      /\ orphan' = [orphan EXCEPT ![p] = d]
      /\ UNCHANGED <<pc, src, dst, data, said, faults>>
  BY <1>0, <1>1, <1>d DEF OrphanWrites, CatWrites, CatType
<1>3. InStep(p) /\ IsCat(c)
  BY <1>0, <1>1, <1>2 DEF IInv, CatType
<1>4. Exists(c.host)
  BY <1>0, <1>2, <1>3 DEF InStep
<1>5. RemoteType' /\ Keeps /\ ProcType'
  BY <1>2, <1>3, <1>4, CatWritesStep
<1>6. /\ IsCat(d)
      /\ d = [host |-> c.host, data |-> c.data, pos |-> Until(c),
              upto |-> c.upto]
  <2>1. Until(c) \in Nat /\ Until(c) <= c.upto
    BY <1>2, <1>3, UntilRange DEF CatWrites
  <2> QED
    BY <1>3, <1>d, <2>1, CatMoves
<1>7. d.host = c.host
  BY <1>6
<1>8. /\ CatType' /\ orphan'[p] = d
      /\ \A q \in Proc : q # p => orphan'[q] = orphan[q]
  <2>1. IsCat(d)
    BY <1>6
  <2> QED
    BY <1>1, <1>2, <2>1, OrphanOnly
<1>9. Types'
  BY <1>1, <1>2, <1>5, <1>8, TypePartsNext
<1>10. ASSUME NEW q \in Proc
       PROVE  InStep(q)'
  <2>1. InStep(q)
    BY DEF IInv
  <2>2. orphan'[q] # NoCat => /\ orphan[q] # NoCat
                              /\ orphan'[q].host = orphan[q].host
    BY <1>0, <1>2, <1>7, <1>8
  <2> QED
    BY <1>1, <1>2, <1>5, <2>1, <2>2, Bystander
<1> QED
  BY <1>9, <1>10 DEF IInv

LEMMA OrphanEndsStep ==
    ASSUME IInv, NEW p \in Proc, OrphanEnds(p)
    PROVE  IInv'
<1>1. Types /\ RemoteType /\ ProcType /\ CatType /\ faults \in 0..MaxFaults
  BY TypeParts DEF IInv
<1>2. /\ orphan' = [orphan EXCEPT ![p] = NoCat]
      /\ UNCHANGED <<file, exec, pc, src, dst, data, cat, said, last, faults>>
  BY DEF OrphanEnds, remote
<1>3. RemoteType' /\ Keeps /\ ProcType'
  BY <1>1, <1>2 DEF RemoteType, ProcType, Keeps, Exists
<1>4. /\ CatType' /\ orphan'[p] = NoCat
      /\ \A q \in Proc : q # p => orphan'[q] = orphan[q]
  BY <1>1, <1>2, OrphanOnly
<1>5. Types'
  BY <1>1, <1>2, <1>3, <1>4, TypePartsNext
<1>6. ASSUME NEW q \in Proc
      PROVE  InStep(q)'
  <2>1. InStep(q)
    BY DEF IInv
  <2> QED
    BY <1>1, <1>2, <1>3, <1>4, <2>1, Bystander
<1> QED
  BY <1>5, <1>6 DEF IInv

LEMMA InitIInv == Init => IInv
<1> SUFFICES ASSUME Init PROVE IInv
  OBVIOUS
<1>1. (CHOOSE h \in Host : TRUE) \in Host
  BY TeleportAssumption
<1>2. <<>> \in Seq(Cell)
  OBVIOUS
<1>3. RemoteType
  BY DEF Init, RemoteType, FileType
<1>4. ProcType
  BY <1>1, <1>2 DEF Init, ProcType, Commands
<1>5. CatType
  BY DEF Init, CatType
<1>6. faults \in 0..MaxFaults
  <2>1. faults = 0 /\ MaxFaults \in Nat
    BY TeleportAssumption DEF Init
  <2> QED
    BY <2>1
<1>7. Types
  BY <1>3, <1>4, <1>5, <1>6, TypeParts
<1>8. \A p \in Proc : pc[p] = "idle" /\ cat[p] = NoCat /\ orphan[p] = NoCat
  BY DEF Init
<1>9. \A p \in Proc : InStep(p)
  BY <1>8 DEF InStep
<1> QED
  BY <1>7, <1>9 DEF IInv

LEMMA NextIInv == IInv /\ [Next]_vars => IInv'
<1> SUFFICES ASSUME IInv, [Next]_vars PROVE IInv'
  OBVIOUS
<1>1. CASE UNCHANGED vars
  <2>1. UNCHANGED <<file, exec, pc, src, dst, data, cat, orphan, said, last,
                    faults>>
    BY <1>1 DEF vars
  <2>2. Types /\ Types'
    BY <2>1 DEF IInv, Types, IsCat, CatState
  <2>3. Keeps
    BY <2>1 DEF Keeps, Exists
  <2>4. ASSUME NEW q \in Proc
        PROVE  InStep(q)'
    <3>1. InStep(q)
      BY DEF IInv
    <3> QED
      BY <2>1, <2>2, <2>3, <3>1, Bystander
  <2> QED
    BY <2>2, <2>4 DEF IInv
<1>2. ASSUME NEW p \in Proc,
             \/ \E v \in Version, h \in Host : RunFromDesk(p, v, h)
             \/ \E s, h \in Host : RunInstalled(p, s, h)
      PROVE  IInv'
  BY <1>2, DeskStep, HopStep
<1>3. ASSUME NEW p \in Proc, Step(p)
      PROVE  IInv'
  BY <1>3, UnameStep, MkdirStep, OpenStep, OpenFailsStep, WriteStep,
     PutDoneStep, ChmodStep, Md5ReadsStep, Md5EndsStep, CompareStep DEF Step
<1>4. ASSUME NEW p \in Proc, CommandLost(p) \/ StreamLost(p) \/ CatFails(p)
      PROVE  IInv'
  BY <1>4, CommandLostStep, StreamLostStep, CatFailsStep
<1>5. ASSUME NEW p \in Proc, OrphanStep(p)
      PROVE  IInv'
  BY <1>5, OrphanWritesStep, OrphanEndsStep DEF OrphanStep
<1> QED
  BY <1>1, <1>2, <1>3, <1>4, <1>5 DEF Next

LEMMA Invariance == Spec => []IInv
BY InitIInv, NextIInv, PTL DEF Spec

-----------------------------------------------------------------------------
(* What md5sum has read.                                                   *)

SumType == sum \in [Proc -> Seq(Cell)] /\ calm \in [Proc -> BOOLEAN]

\* As long as nobody changed what md5sum has read, the file still begins with
\* it, and is no longer once md5sum has ended.
Summed(p) ==
    LET f == file[dst[p]]
        n == Len(sum[p])
    IN  /\ pc[p] \notin {"md5", "answer"} => sum[p] = <<>>
        /\ pc[p] = "md5" /\ calm[p] =>
              n <= Len(f) /\ \A i \in 1..n : f[i] = sum[p][i]
        /\ pc[p] = "answer" /\ calm[p] => f = sum[p]

SInv == SumType /\ \A p \in Proc : Summed(p)

\* A deployment whose md5sum has read nothing.
LEMMA NothingSummed ==
    ASSUME NEW q \in Proc, sum'[q] = <<>>, pc'[q] # "answer",
           pc'[q] = "md5" => file'[dst'[q]] \in Seq(Cell)
    PROVE  Summed(q)'
<1>1. Len(sum'[q]) = 0
  BY EmptySeq
<1>2. pc'[q] = "md5" => Len(file'[dst'[q]]) \in Nat
  BY LenProperties
<1> QED
  BY <1>1, <1>2 DEF Summed

\* The file of a deployment that is at its md5sum exists.
LEMMA SummedFile ==
    ASSUME IInv, NEW q \in Proc, pc[q] \in {"md5", "answer"}
    PROVE  dst[q] \in Host /\ Exists(dst[q]) /\ file[dst[q]] \in Seq(Cell)
<1>1. dst[q] \in Host /\ InStep(q) /\ RemoteType
  BY TypeParts DEF IInv, Types
<1>2. Exists(dst[q])
  BY <1>1 DEF InStep
<1> QED
  BY <1>1, <1>2, ExistsCells

\* A step that leaves the files that exist alone, and a deployment where it is.
LEMMA StaysSummed ==
    ASSUME IInv, NEW q \in Proc, Summed(q),
           pc'[q] = pc[q], dst'[q] = dst[q], sum'[q] = sum[q],
           calm'[q] = calm[q],
           \A g \in Host : Exists(g) => file'[g] = file[g]
    PROVE  Summed(q)'
<1>1. CASE pc[q] \notin {"md5", "answer"}
  BY <1>1 DEF Summed
<1>2. CASE pc[q] \in {"md5", "answer"}
  <2>1. file'[dst[q]] = file[dst[q]]
    BY <1>2, SummedFile
  <2> QED
    BY <2>1 DEF Summed
<1> QED
  BY <1>1, <1>2

\* Deploy returns.
LEMMA ReturnSummed ==
    ASSUME IInv, SInv, NEW p \in Proc, NEW what \in {"ok", "error"},
           Return(p, what), \A g \in Host : Exists(g) => file'[g] = file[g]
    PROVE  SInv'
<1>1. ProcType /\ SumType
  BY TypeParts DEF IInv, SInv
<1>2. /\ pc'[p] = "idle" /\ dst' = dst
      /\ \A q \in Proc : q # p => pc'[q] = pc[q]
  BY <1>1, ReturnFacts
<1>3. /\ SumType' /\ sum'[p] = <<>>
      /\ \A q \in Proc : q # p => sum'[q] = sum[q] /\ calm'[q] = calm[q]
  <2>1. <<>> \in Seq(Cell)
    OBVIOUS
  <2> QED
    BY <1>1, <2>1 DEF Return, SumType
<1>4. Summed(p)'
  BY <1>2, <1>3, NothingSummed
<1>5. ASSUME NEW q \in Proc, q # p
      PROVE  Summed(q)'
  BY <1>2, <1>3, <1>5, StaysSummed DEF SInv
<1> QED
  BY <1>3, <1>4, <1>5 DEF SInv

\* A step that concerns no md5sum: at most one deployment moves, and is at none
\* before it.
LEMMA QuietSummed ==
    ASSUME IInv, SInv, NEW p \in Proc, pc[p] \notin {"md5", "answer"},
           pc'[p] # "answer", UNCHANGED <<sum, calm>>,
           pc'[p] = "md5" => file'[dst'[p]] \in Seq(Cell),
           \A q \in Proc : q # p => pc'[q] = pc[q] /\ dst'[q] = dst[q],
           \A g \in Host : Exists(g) => file'[g] = file[g]
    PROVE  SInv'
<1>1. SumType' /\ sum'[p] = <<>>
  BY DEF SInv, SumType, Summed
<1>2. Summed(p)'
  BY <1>1, NothingSummed
<1>3. ASSUME NEW q \in Proc, q # p
      PROVE  Summed(q)'
  BY <1>3, StaysSummed DEF SInv
<1> QED
  BY <1>1, <1>2, <1>3 DEF SInv

LEMMA BeginSummed ==
    ASSUME IInv, SInv, NEW p \in Proc, NEW s, NEW h, NEW image,
           pc[p] = "idle", Begin(p, s, h, image)
    PROVE  SInv'
<1>1. /\ pc \in [Proc -> Commands] /\ dst \in [Proc -> Host]
  BY TypeParts DEF IInv, ProcType
<1>2. /\ pc'[p] \in {"idle", "uname"} /\ UNCHANGED <<sum, calm>>
      /\ \A q \in Proc : q # p => pc'[q] = pc[q] /\ dst'[q] = dst[q]
      /\ \A g \in Host : Exists(g) => file'[g] = file[g]
  BY <1>1 DEF Begin, remote
<1> QED
  BY <1>2, QuietSummed

\* Deploy goes on to a command that is neither md5sum nor its answer, or to
\* md5sum.
LEMMA GotoSummed ==
    ASSUME IInv, SInv, NEW p \in Proc, NEW l \in Commands \ {"answer"},
           pc[p] \notin {"md5", "answer"}, Goto(p, l), calm' = calm,
           l = "md5" => Exists(dst[p]),
           \A g \in Host : Exists(g) => file'[g] = file[g]
    PROVE  SInv'
<1>1. ProcType /\ RemoteType
  BY TypeParts DEF IInv
<1>2. /\ pc'[p] = l /\ dst' = dst /\ sum' = sum
      /\ \A q \in Proc : q # p => pc'[q] = pc[q]
  BY <1>1, GotoFacts DEF Goto
<1>3. l = "md5" => file'[dst'[p]] \in Seq(Cell)
  BY <1>1, <1>2, ExistsCells DEF ProcType
<1> QED
  BY <1>2, <1>3, QuietSummed

\* The commands before md5sum, and Deploy's returns.
LEMMA CommandSummed ==
    ASSUME IInv, SInv, NEW p \in Proc,
           \/ Uname(p) \/ Mkdir(p) \/ OpenFails(p) \/ PutDone(p) \/ Chmod(p)
           \/ Compare(p) \/ CommandLost(p) \/ StreamLost(p) \/ CatFails(p)
    PROVE  SInv'
<1>1. dst[p] \in Host /\ InStep(p)
  BY DEF IInv, Types
<1>2. \A g \in Host : Exists(g) => file'[g] = file[g]
  <2>1. UNCHANGED remote \/ MkdirEffect(dst[p]) \/ ChmodEffect(dst[p])
    BY DEF Uname, Mkdir, OpenFails, PutDone, Chmod, Compare, CommandLost,
           StreamLost, CatFails
  <2> QED
    BY <1>1, <2>1, MkdirKeeps, ChmodKeeps DEF remote
<1>3. ASSUME Return(p, "ok") \/ Return(p, "error")
      PROVE  SInv'
  BY <1>2, <1>3, ReturnSummed
<1>4. ASSUME NEW l \in {"mkdir", "put", "chmod", "md5"}, Goto(p, l),
             calm' = calm, pc[p] \in {"uname", "mkdir", "stream", "chmod"},
             l = "md5" => pc[p] = "chmod"
      PROVE  SInv'
  <2>1. l \in Commands \ {"answer"} /\ (l = "md5" => Exists(dst[p]))
    BY <1>1, <1>4 DEF Commands, InStep
  <2>2. pc[p] \notin {"md5", "answer"}
    BY <1>4
  <2> QED
    BY <1>2, <1>4, <2>1, <2>2, GotoSummed
<1>5. \/ Return(p, "ok") \/ Return(p, "error")
      \/ \E l \in {"mkdir", "put", "chmod", "md5"} :
            /\ Goto(p, l) /\ calm' = calm
            /\ pc[p] \in {"uname", "mkdir", "stream", "chmod"}
            /\ l = "md5" => pc[p] = "chmod"
  BY DEF Uname, Mkdir, OpenFails, PutDone, Chmod, Compare, CommandLost,
         StreamLost, CatFails
<1> QED
  BY <1>3, <1>4, <1>5

\* The open truncates: a md5sum of the file that stays calm had read nothing.
LEMMA OpenSummed ==
    ASSUME IInv, SInv, NEW p \in Proc, Open(p)
    PROVE  SInv'
<1>1. ProcType /\ RemoteType /\ SumType
  BY TypeParts DEF IInv, SInv
<1>2. PICK h \in Host : h = dst[p]
  BY <1>1 DEF ProcType
<1>3. /\ pc[p] = "put" /\ Goto(p, "stream") /\ Touch(h, 0)
      /\ file' = [file EXCEPT ![h] = <<>>]
  BY <1>2 DEF Open
<1>4. /\ pc'[p] = "stream" /\ dst' = dst /\ sum' = sum
      /\ \A q \in Proc : q # p => pc'[q] = pc[q]
  BY <1>1, <1>3, GotoFacts DEF Commands, Goto
<1>5. /\ SumType'
      /\ \A q \in Proc : calm'[q] <=> /\ calm[q]
                                      /\ dst[q] = h => /\ pc[q] # "answer"
                                                       /\ Len(sum[q]) <= 0
  BY <1>1, <1>3, <1>4 DEF Touch, SumType
<1>6. /\ file'[h] = <<>> /\ Len(<<>>) = 0
      /\ \A g \in Host : g # h => file'[g] = file[g]
  BY <1>1, <1>3 DEF RemoteType, FileType
<1>7. ASSUME NEW q \in Proc
      PROVE  Summed(q)'
  <2>1. dst[q] \in Host /\ Len(sum[q]) \in Nat /\ Summed(q)
    BY <1>1, LenProperties DEF ProcType, SumType, SInv
  <2>2. CASE q = p
    BY <1>3, <1>4, <2>1, <2>2 DEF Summed
  <2>3. CASE q # p /\ dst[q] # h
    BY <1>4, <1>5, <1>6, <2>1, <2>3 DEF Summed
  <2>4. CASE q # p /\ dst[q] = h
    BY <1>4, <1>5, <1>6, <2>1, <2>4 DEF Summed
  <2> QED
    BY <2>2, <2>3, <2>4
<1> QED
  BY <1>5, <1>7 DEF SInv

\* A write of any cat leaves what a calm md5sum has read.
LEMMA WritesSummed ==
    ASSUME IInv, SInv, NEW c, IsCat(c), Exists(c.host), CatWrites(c)
    PROVE  SInv'
<1>1. ProcType /\ RemoteType /\ SumType
  BY TypeParts DEF IInv, SInv
<1>2. PICK h \in Host : h = c.host
  BY DEF IsCat, CatState
<1>3. PICK w : w = WriteAt(file[h], c.pos, SubSeq(c.data, c.pos + 1, Until(c)))
  OBVIOUS
<1>4. /\ file' = [file EXCEPT ![h] = w] /\ Touch(h, c.pos)
      /\ UNCHANGED <<pc, dst, sum>>
  BY <1>2, <1>3 DEF CatWrites
<1>5. /\ SumType'
      /\ \A q \in Proc : calm'[q] <=> /\ calm[q]
                                      /\ dst[q] = h => /\ pc[q] # "answer"
                                                       /\ Len(sum[q]) <= c.pos
  BY <1>1, <1>4 DEF Touch, SumType
<1>6. \A g \in Host : file'[g] = IF g = h THEN w ELSE file[g]
  BY <1>1, <1>4 DEF RemoteType, FileType
<1>7. /\ Len(file[h]) \in Nat /\ Len(w) \in Nat /\ c.pos \in Nat
      /\ Len(w) >= Len(file[h])
      /\ \A i \in 1..Len(file[h]) : i <= c.pos => w[i] = file[h][i]
  <2>1. file[h] \in Seq(Cell) /\ c.pos \in Nat /\ c.pos < c.upto
    BY <1>1, <1>2, ExistsCells DEF IsCat, CatState, CatWrites
  <2>2. PICK s \in Seq(Cell) : s = SubSeq(c.data, c.pos + 1, Until(c))
    BY <2>1, UntilRange
  <2>3. w = WriteAt(file[h], c.pos, s)
    BY <1>3, <2>2
  <2>4. /\ Len(w) \in Nat /\ Len(file[h]) \in Nat /\ Len(s) \in Nat
        /\ Len(w) = IF Len(file[h]) >= c.pos + Len(s) THEN Len(file[h])
                    ELSE c.pos + Len(s)
        /\ \A i \in 1..Len(file[h]) :
              i <= c.pos \/ i > c.pos + Len(s) => w[i] = file[h][i]
    BY <2>1, <2>3, WriteCells
  <2> QED
    BY <2>1, <2>4
<1>8. ASSUME NEW q \in Proc
      PROVE  Summed(q)'
  <2>1. dst[q] \in Host /\ Len(sum[q]) \in Nat /\ Summed(q)
    BY <1>1, LenProperties DEF ProcType, SumType, SInv
  <2>2. CASE dst[q] # h
    BY <1>4, <1>5, <1>6, <2>1, <2>2 DEF Summed
  <2>3. CASE dst[q] = h
    <3>1. ASSUME pc[q] = "md5", calm'[q]
          PROVE  /\ Len(sum[q]) <= Len(w)
                 /\ \A i \in 1..Len(sum[q]) : w[i] = sum[q][i]
      <4>1. /\ Len(sum[q]) <= Len(file[h]) /\ Len(sum[q]) <= c.pos
            /\ \A i \in 1..Len(sum[q]) : file[h][i] = sum[q][i]
        BY <1>5, <2>1, <2>3, <3>1 DEF Summed
      <4> QED
        BY <1>7, <2>1, <4>1
    <3>2. file'[dst'[q]] = w /\ (pc[q] = "answer" => ~calm'[q])
      BY <1>4, <1>5, <1>6, <2>3
    <3> QED
      BY <1>4, <2>1, <3>1, <3>2 DEF Summed
  <2> QED
    BY <2>2, <2>3
<1> QED
  BY <1>5, <1>8 DEF SInv

\* md5sum reads on.
LEMMA ReadsSummed ==
    ASSUME IInv, SInv, NEW p \in Proc, Md5Reads(p)
    PROVE  SInv'
<1>1. PICK f : f = file[dst[p]]
  OBVIOUS
<1>2. PICK n : n = Len(sum[p])
  OBVIOUS
<1>3. /\ pc[p] = "md5" /\ n < Len(f)
      /\ UNCHANGED <<file, pc, dst, calm>>
      /\ sum' = [sum EXCEPT ![p] =
                    sum[p] \o SubSeq(f, n + 1, Lesser(n + Chunk, Len(f)))]
  BY <1>1, <1>2 DEF Md5Reads, remote
<1>4. /\ SumType /\ sum[p] \in Seq(Cell) /\ n \in Nat
      /\ f \in Seq(Cell) /\ Len(f) \in Nat
  BY <1>1, <1>2, <1>3, SummedFile, LenProperties DEF SInv, SumType
<1>5. PICK m : m = Lesser(n + Chunk, Len(f))
  OBVIOUS
<1>6. m \in Nat /\ n < m /\ m <= Len(f)
  BY <1>3, <1>4, <1>5, TeleportAssumption DEF Lesser
<1>7. PICK t : t = SubSeq(f, n + 1, m)
  OBVIOUS
<1>8. /\ t \in Seq(Cell) /\ Len(t) = m - n
      /\ \A i \in 1..(m - n) : t[i] = f[n + i]
  <2>1. \A i \in (n + 1)..m : f[i] \in Cell
    BY <1>4, <1>6, ElementOfSeq
  <2>2. /\ SubSeq(f, n + 1, m) \in Seq(Cell)
        /\ Len(SubSeq(f, n + 1, m)) =
              IF n + 1 <= m THEN m - (n + 1) + 1 ELSE 0
        /\ \A i \in 1..(m - (n + 1) + 1) :
              SubSeq(f, n + 1, m)[i] = f[(n + 1) + i - 1]
    BY <1>4, <1>6, <2>1, SubSeqProperties
  <2> QED
    BY <1>4, <1>6, <1>7, <2>2
<1>9. PICK u : u = sum[p] \o t
  OBVIOUS
<1>10. /\ u \in Seq(Cell) /\ Len(u) = m
       /\ \A i \in 1..n : u[i] = sum[p][i]
       /\ \A i \in 1..(m - n) : u[n + i] = t[i]
  <2>1. /\ u \in Seq(Cell) /\ Len(u) = Len(sum[p]) + Len(t)
        /\ \A i \in 1..Len(sum[p]) : u[i] = sum[p][i]
        /\ \A i \in 1..Len(t) : u[Len(sum[p]) + i] = t[i]
    BY <1>4, <1>8, <1>9, ConcatAt
  <2>2. /\ Len(u) = n + Len(t)
        /\ \A i \in 1..n : u[i] = sum[p][i]
        /\ \A i \in 1..Len(t) : u[n + i] = t[i]
    BY <1>2, <2>1, Zenon
  <2>3. Len(t) = m - n
    BY <1>8
  <2> QED
    <3>1. Len(u) = m
      BY <1>4, <1>6, <2>2, <2>3
    <3> QED
      BY <2>1, <2>2, <2>3, <3>1
<1>11. sum' = [sum EXCEPT ![p] = u]
  BY <1>3, <1>5, <1>7, <1>9
<1>12. /\ SumType' /\ sum'[p] = u
       /\ \A q \in Proc : q # p => sum'[q] = sum[q]
  BY <1>3, <1>4, <1>10, <1>11 DEF SumType
<1>13. Summed(p)'
  <2>1. SUFFICES ASSUME calm[p]
                 PROVE  m <= Len(f) /\ \A i \in 1..m : f[i] = u[i]
    BY <1>1, <1>3, <1>10, <1>12 DEF Summed
  <2>2. \A i \in 1..n : f[i] = sum[p][i]
    BY <1>1, <1>2, <1>3, <2>1 DEF SInv, Summed
  <2>3. ASSUME NEW i \in 1..m
        PROVE  f[i] = u[i]
    <3>1. CASE i <= n
      BY <1>4, <1>6, <1>10, <2>2, <3>1
    <3>2. CASE i > n
      <4>1. i - n \in 1..(m - n) /\ n + (i - n) = i
        BY <1>4, <1>6, <3>2
      <4> QED
        BY <1>8, <1>10, <4>1
    <3> QED
      BY <1>4, <1>6, <3>1, <3>2
  <2> QED
    BY <1>6, <2>3
<1>14. ASSUME NEW q \in Proc, q # p
       PROVE  Summed(q)'
  BY <1>3, <1>12, <1>14, StaysSummed DEF SInv
<1> QED
  BY <1>12, <1>13, <1>14 DEF SInv

\* At the end of the file a calm md5sum has read all of it.
LEMMA EndsSummed ==
    ASSUME IInv, SInv, NEW p \in Proc, Md5Ends(p)
    PROVE  SInv'
<1>1. /\ pc[p] = "md5" /\ Len(sum[p]) >= Len(file[dst[p]])
      /\ Goto(p, "answer") /\ UNCHANGED <<file, calm>>
  BY DEF Md5Ends, remote
<1>2. ProcType /\ SumType /\ file[dst[p]] \in Seq(Cell)
  BY <1>1, TypeParts, SummedFile DEF IInv, SInv
<1>3. /\ pc'[p] = "answer" /\ dst' = dst /\ sum' = sum
      /\ \A q \in Proc : q # p => pc'[q] = pc[q]
  BY <1>1, <1>2, GotoFacts DEF Commands, Goto
<1>4. SumType'
  BY <1>1, <1>2, <1>3 DEF SumType
<1>5. Summed(p)'
  <2>1. SUFFICES ASSUME calm[p] PROVE file[dst[p]] = sum[p]
    BY <1>1, <1>3 DEF Summed
  <2>2. /\ Len(sum[p]) <= Len(file[dst[p]])
        /\ \A i \in 1..Len(sum[p]) : file[dst[p]][i] = sum[p][i]
    BY <1>1, <2>1 DEF SInv, Summed
  <2>3. /\ sum[p] \in Seq(Cell) /\ Len(sum[p]) \in Nat
        /\ Len(file[dst[p]]) \in Nat
    BY <1>2, LenProperties DEF SumType
  <2>4. Len(file[dst[p]]) = Len(sum[p])
    BY <1>1, <2>2, <2>3
  <2> QED
    BY <1>2, <2>2, <2>3, <2>4, SeqEqual
<1>6. ASSUME NEW q \in Proc, q # p
      PROVE  Summed(q)'
  BY <1>1, <1>3, <1>6, StaysSummed DEF SInv
<1> QED
  BY <1>4, <1>5, <1>6 DEF SInv

\* The cats that write exist on files that exist.
LEMMA Writers ==
    ASSUME IInv, NEW p \in Proc
    PROVE  /\ Write(p) => /\ IsCat(cat[p]) /\ Exists(cat[p].host)
                          /\ CatWrites(cat[p])
           /\ OrphanWrites(p) => /\ IsCat(orphan[p]) /\ Exists(orphan[p].host)
                                 /\ CatWrites(orphan[p])
<1>1. CatType /\ InStep(p)
  BY TypeParts DEF IInv
<1>2. Write(p) => cat[p] # NoCat /\ CatWrites(cat[p])
  BY DEF Write, CatWrites
<1>3. OrphanWrites(p) => orphan[p] # NoCat /\ CatWrites(orphan[p])
  BY DEF OrphanWrites, CatWrites
<1>4. cat[p] # NoCat => IsCat(cat[p]) /\ Exists(cat[p].host)
  BY <1>1 DEF CatType, InStep, Exists
<1>5. orphan[p] # NoCat => IsCat(orphan[p]) /\ Exists(orphan[p].host)
  BY <1>1 DEF CatType, InStep, Exists
<1> QED
  BY <1>2, <1>3, <1>4, <1>5

LEMMA InitSInv == Init => SInv
<1> SUFFICES ASSUME Init PROVE SInv
  OBVIOUS
<1>1. <<>> \in Seq(Cell)
  OBVIOUS
<1> QED
  BY <1>1 DEF Init, SInv, SumType, Summed

LEMMA NextSInv == IInv /\ SInv /\ [Next]_vars => SInv'
<1> SUFFICES ASSUME IInv, SInv, [Next]_vars PROVE SInv'
  OBVIOUS
<1>1. CASE UNCHANGED vars
  BY <1>1 DEF vars, SInv, SumType, Summed
<1>2. ASSUME NEW p \in Proc,
             \/ \E v \in Version, h \in Host : RunFromDesk(p, v, h)
             \/ \E s, h \in Host : RunInstalled(p, s, h)
      PROVE  SInv'
  BY <1>2, BeginSummed DEF RunFromDesk, RunInstalled
<1>3. ASSUME NEW p \in Proc, Step(p)
      PROVE  SInv'
  <2>1. Write(p) => SInv'
    BY Writers, WritesSummed
  <2> QED
    BY <1>3, <2>1, CommandSummed, OpenSummed, ReadsSummed, EndsSummed DEF Step
<1>4. ASSUME NEW p \in Proc, CommandLost(p) \/ StreamLost(p) \/ CatFails(p)
      PROVE  SInv'
  BY <1>4, CommandSummed
<1>5. ASSUME NEW p \in Proc, OrphanStep(p)
      PROVE  SInv'
  <2>1. OrphanWrites(p) => SInv'
    BY Writers, WritesSummed
  <2>2. ASSUME OrphanEnds(p)
        PROVE  SInv'
    <3>1. UNCHANGED <<file, pc, dst, sum, calm>>
      BY <2>2 DEF OrphanEnds, remote
    <3> QED
      BY <3>1 DEF SInv, SumType, Summed
  <2> QED
    BY <1>5, <2>1, <2>2 DEF OrphanStep
<1> QED
  BY <1>1, <1>2, <1>3, <1>4, <1>5 DEF Next

LEMMA SumInvariance == Spec => []SInv
BY InitSInv, NextSInv, Invariance, PTL DEF Spec

-----------------------------------------------------------------------------
(* What it yields.                                                         *)

\* However the commands of several deployments, their writes, broken
\* connections and what these leave behind interleave, a machine holds cells
\* at an installed path, no cat reads beyond what reached it, and Deploy sends
\* no command while its cat runs.
THEOREM TypeCorrect == Spec => []TypeOK
<1>1. IInv /\ SInv => TypeOK
  BY DEF IInv, InStep, SInv, SumType, TypeOK
<1> QED
  BY <1>1, Invariance, SumInvariance, PTL

\* Only the md5 that agrees makes a deployment say ok.
LEMMA OnlyCompareSaysOk ==
    ASSUME IInv, Next, NEW p \in Proc, pc[p] = "answer", said'[p] = "ok"
    PROVE  Compare(p)
<1>1. said[p] = "" /\ said \in [Proc -> {"", "ok", "error"}]
  BY DEF IInv, Types, InStep
<1>2. PICK q \in Proc :
        \/ \E v \in Version, h \in Host : RunFromDesk(q, v, h)
        \/ \E s, h \in Host : RunInstalled(q, s, h)
        \/ Step(q)
        \/ CommandLost(q) \/ StreamLost(q) \/ CatFails(q)
        \/ OrphanStep(q)
  BY DEF Next
<1>3. ASSUME NEW what, NEW r \in Proc, said' = [said EXCEPT ![r] = what]
      PROVE  r = p /\ what = "ok"
  BY <1>1, <1>3
<1>4. said' # said
  BY <1>1
<1>5. ASSUME \/ \E v \in Version, h \in Host : RunFromDesk(q, v, h)
             \/ \E s, h \in Host : RunInstalled(q, s, h)
      PROVE  FALSE
  <2>1. /\ pc[q] = "idle"
        /\ said' = [said EXCEPT ![q] = ""] \/ said' = [said EXCEPT ![q] = "error"]
    BY <1>5 DEF RunFromDesk, RunInstalled, Begin
  <2> QED
    BY <1>3, <2>1
<1>6. ASSUME Return(q, "error")
      PROVE  FALSE
  <2>1. said' = [said EXCEPT ![q] = "error"]
    BY <1>6 DEF Return
  <2> QED
    BY <1>3, <2>1
<1>7. ASSUME CommandLost(q) \/ StreamLost(q) \/ CatFails(q) \/ OrphanStep(q)
      PROVE  FALSE
  <2>1. Return(q, "error") \/ said' = said
    BY <1>7 DEF CommandLost, StreamLost, CatFails, OrphanStep, OrphanWrites,
                OrphanEnds, CatWrites
  <2> QED
    BY <1>4, <1>6, <2>1
<1>8. CASE Step(q)
  <2>1. Compare(q)
    BY <1>4, <1>6, <1>8 DEF Step, Uname, Mkdir, Open, OpenFails, Write, PutDone,
                            Chmod, Md5Reads, Md5Ends, Goto, CatWrites
  <2>2. PICK what \in {"ok", "error"} : said' = [said EXCEPT ![q] = what]
    BY <2>1 DEF Compare, Return
  <2>3. q = p
    BY <1>3, <2>2
  <2> QED
    BY <2>1, <2>3
<1> QED
  BY <1>2, <1>5, <1>7, <1>8

\* A whole image loads: it begins with the native.
LEMMA WholeLoads ==
    ASSUME NEW h \in Host, NEW v \in Version,
           HostArch[h] \in Released(Native[v]),
           file[h] = Canon[v][HostArch[h]]
    PROVE  Whole(h) /\ Loads(h)
<1>1. v \in Targets(h)
  BY CanonDomain DEF Targets
<1>2. Whole(h)
  BY <1>1 DEF Whole
<1>3. Loads(h)
  BY CanonShape DEF Loads
<1> QED
  BY <1>2, <1>3

\* The md5 of a deployment from a build machine agrees only with the whole
\* image of a release, made for that target.  Unless somebody overwrote, cut or
\* extended behind md5sum what it had read, that is what the file holds when
\* success is reported, and it may be executed.
THEOREM OkIsWholeHolds == Spec => OkIsWhole
<1>1. ASSUME IInv, SInv, [Next]_vars, NEW p \in Proc,
             pc[p] = "answer", src[p] = Desk, said'[p] = "ok", calm[p]
      PROVE  Whole(dst[p])' /\ exec'[dst[p]] /\ Loads(dst[p])'
  <2>1. said[p] = "" /\ said \in [Proc -> {"", "ok", "error"}]
    BY <1>1 DEF IInv, Types, InStep
  <2>2. Compare(p)
    <3>1. said' # said
      BY <1>1, <2>1
    <3>2. Next
      BY <1>1, <3>1 DEF vars
    <3> QED
      BY <1>1, <3>2, OnlyCompareSaysOk
  <2>3. PICK h \in Host : h = dst[p]
    BY <1>1 DEF IInv, Types
  <2>4. UNCHANGED <<file, exec, dst>>
    BY <2>2 DEF Compare, Return, remote
  <2>5. file[h] = data[p]
    <3>1. file[h] = sum[p]
      BY <1>1, <2>3 DEF SInv, Summed
    <3>2. sum[p] = data[p]
      BY <1>1, <2>1, <2>2 DEF Compare, Return
    <3> QED
      BY <3>1, <3>2
  <2>6. exec[h] /\ Sends(p)
    BY <1>1, <2>3 DEF IInv, InStep
  <2>7. PICK v \in Version : /\ HostArch[h] \in Released(Native[v])
                             /\ file[h] = Canon[v][HostArch[h]]
    BY <1>1, <2>3, <2>5, <2>6 DEF Sends
  <2>8. Whole(h) /\ Loads(h)
    BY <2>7, WholeLoads
  <2>9. Whole(h)' /\ Loads(h)' /\ exec'[h]
    BY <2>4, <2>6, <2>8 DEF Whole, Loads, Targets
  <2> QED
    BY <2>3, <2>4, <2>9 DEF Whole, Loads, Targets
<1>2. ASSUME IInv, SInv, [Next]_vars
      PROVE  [\A p \in Proc :
                 /\ pc[p] = "answer" /\ src[p] = Desk
                 /\ said'[p] = "ok" /\ calm[p]
                 => Whole(dst[p])' /\ exec'[dst[p]] /\ Loads(dst[p])']_vars
  BY <1>1, <1>2
<1> QED
  BY <1>2, Invariance, SumInvariance, PTL DEF Spec, OkIsWhole

-----------------------------------------------------------------------------
(* Retries of one release, and deployments of it that meet on a machine.   *)

\* The commands at which a deployment has opened the file.
Opened == {"stream", "chmod", "md5", "answer"}

\* What reaches a machine comes from a build machine.
FromDesks == \A p \in Proc : pc[p] \in Opened => src[p] = Desk

\* c is a cat of the image of a release for its machine.
Brings(c) == \E v \in Targets(c.host) : c.data = Canon[v][HostArch[c.host]]

Intact(h) == Succeeded(h) => Whole(h) /\ exec[h]

\* The first k cells of f are those of d, and f is not longer than d.
Over(f, d, k) ==
    /\ Len(f) <= Len(d) /\ k <= Len(f)
    /\ \A i \in 1..k : f[i] = d[i]

\* As far as p has written, and when its cat ended this is all of it.
Reached(p) == IF pc[p] = "stream" THEN cat[p].pos ELSE Len(data[p])

\* What p wrote is there as long as no other deployment opens the file,
\* whatever else writes it.
Filled(p) ==
    pc[p] \in Opened /\ last[dst[p]] = p =>
        Over(file[dst[p]], data[p], Reached(p))

RInv ==
    /\ IInv
    /\ \A p \in Proc : orphan[p] # NoCat => Brings(orphan[p])
    /\ \A p \in Proc : Filled(p)
    /\ \A h \in Host : Intact(h)

LEMMA OverWhole ==
    ASSUME NEW f \in Seq(Cell), NEW d \in Seq(Cell)
    PROVE  Over(f, d, Len(d)) <=> f = d
<1>1. Len(f) \in Nat /\ Len(d) \in Nat
  BY LenProperties
<1>2. ASSUME Over(f, d, Len(d))
      PROVE  f = d
  <2>1. Len(f) = Len(d)
    BY <1>1, <1>2 DEF Over
  <2>2. \A i \in 1..Len(f) : f[i] = d[i]
    BY <1>2, <2>1 DEF Over
  <2> QED
    BY <2>1, <2>2, SeqEqual
<1>3. f = d => Over(f, d, Len(d))
  BY <1>1 DEF Over
<1> QED
  BY <1>2, <1>3

\* A write of another piece of d, at its place.
LEMMA WriteOver ==
    ASSUME NEW f \in Seq(Cell), NEW d \in Seq(Cell), NEW k \in Nat,
           Over(f, d, k), NEW i \in Nat, NEW j \in Nat, i <= j, j <= Len(d),
           NEW w, w = WriteAt(f, i, SubSeq(d, i + 1, j))
    PROVE  Over(w, d, k) /\ (k = i => Over(w, d, j))
<1>1. Len(d) \in Nat /\ \A n \in (i + 1)..j : d[n] \in Cell
  BY LenProperties, ElementOfSeq
<1>2. PICK s \in Seq(Cell) : /\ s = SubSeq(d, i + 1, j)
                            /\ Len(s) = j - i
                            /\ \A n \in 1..(j - i) : s[n] = d[i + n]
  <2>1. /\ SubSeq(d, i + 1, j) \in Seq(Cell)
        /\ Len(SubSeq(d, i + 1, j)) =
              IF i + 1 <= j THEN j - (i + 1) + 1 ELSE 0
        /\ \A n \in 1..(j - (i + 1) + 1) :
              SubSeq(d, i + 1, j)[n] = d[(i + 1) + n - 1]
    BY <1>1, SubSeqProperties
  <2>2. Len(SubSeq(d, i + 1, j)) = j - i
    BY <2>1
  <2>3. \A n \in 1..(j - i) : SubSeq(d, i + 1, j)[n] = d[i + n]
    BY <2>1
  <2> QED
    BY <2>1, <2>2, <2>3
<1>4. w = WriteAt(f, i, s)
  BY <1>2
<1>5. /\ Len(w) \in Nat /\ Len(f) \in Nat
      /\ Len(w) = IF Len(f) >= i + Len(s) THEN Len(f) ELSE i + Len(s)
      /\ \A n \in 1..Len(s) : w[i + n] = s[n]
      /\ \A n \in 1..Len(f) : n <= i \/ n > i + Len(s) => w[n] = f[n]
  BY <1>4, WriteCells
<1>6. Len(w) = IF Len(f) >= j THEN Len(f) ELSE j
  BY <1>2, <1>5
<1>7. /\ Len(f) <= Len(d) /\ k <= Len(f)
      /\ \A n \in 1..k : f[n] = d[n]
  BY DEF Over
<1>8. \A n \in (i + 1)..j : w[n] = d[n]
  <2>1. ASSUME NEW n \in (i + 1)..j
        PROVE  w[n] = d[n]
    <3>1. n - i \in 1..(j - i) /\ i + (n - i) = n
      OBVIOUS
    <3>2. w[i + (n - i)] = s[n - i] /\ s[n - i] = d[i + (n - i)]
      BY <1>2, <1>5, <3>1
    <3> QED
      BY <3>1, <3>2
  <2> QED
    BY <2>1
<1>9. \A n \in 1..Len(f) : n <= i \/ n > j => w[n] = f[n]
  <2>1. i + Len(s) = j
    BY <1>2
  <2> QED
    BY <1>5, <2>1
<1>10. \A n \in 1..k : w[n] = d[n]
  <2>1. ASSUME NEW n \in 1..k
        PROVE  w[n] = d[n]
    <3>1. n \in 1..Len(f) /\ f[n] = d[n]
      BY <1>5, <1>7
    <3>2. n \in (i + 1)..j \/ n <= i \/ n > j
      OBVIOUS
    <3> QED
      BY <1>8, <1>9, <3>1, <3>2
  <2> QED
    BY <2>1
<1>11. Len(w) <= Len(d) /\ k <= Len(w) /\ j <= Len(w)
  BY <1>1, <1>5, <1>6, <1>7
<1>12. k = i => \A n \in 1..j : w[n] = d[n]
  <2>1. ASSUME k = i, NEW n \in 1..j
        PROVE  w[n] = d[n]
    <3>1. n \in 1..k \/ n \in (i + 1)..j
      BY <2>1
    <3> QED
      BY <1>8, <1>10, <3>1
  <2> QED
    BY <2>1
<1> QED
  BY <1>10, <1>11, <1>12 DEF Over

LEMMA WholeExists ==
    ASSUME RemoteType, NEW h \in Host, Whole(h)
    PROVE  Exists(h)
<1>1. file[h] \in Seq(Cell)
  BY CanonDomain, CanonShape DEF Whole, Targets
<1> QED
  BY <1>1, ExistsCells

\* q has opened its file before this step, and wrote no more in it.
Stays(q) ==
    pc'[q] \in Opened =>
        /\ pc[q] \in Opened
        /\ dst'[q] = dst[q] /\ data'[q] = data[q]
        /\ Reached(q)' = Reached(q)

LEMMA FilledKept ==
    ASSUME IInv, NEW q \in Proc, Filled(q), Stays(q),
           pc[q] \in Opened /\ last'[dst[q]] = q =>
               /\ last[dst[q]] = q
               /\ file'[dst[q]] = file[dst[q]]
    PROVE  Filled(q)'
BY DEF Filled, Stays

LEMMA OpenedExists ==
    ASSUME IInv, NEW q \in Proc, pc[q] \in Opened
    PROVE  dst[q] \in Host /\ Exists(dst[q]) /\ file[dst[q]] \in Seq(Cell)
<1>1. dst[q] \in Host /\ InStep(q) /\ RemoteType
  BY TypeParts DEF IInv, Types
<1>2. Exists(dst[q])
  BY <1>1 DEF InStep, Opened
<1> QED
  BY <1>1, <1>2, ExistsCells

\* The others stay where they are.
LEMMA OthersStay ==
    ASSUME NEW q \in Proc, pc'[q] = pc[q], dst'[q] = dst[q],
           data'[q] = data[q], cat'[q] = cat[q]
    PROVE  Stays(q)
BY DEF Stays, Reached

LEMMA ReturnStays ==
    ASSUME IInv, NEW p \in Proc, NEW what \in {"ok", "error"}, Return(p, what),
           \A q \in Proc : q # p => cat'[q] = cat[q]
    PROVE  \A q \in Proc : Stays(q)
<1>1. /\ pc'[p] = "idle" /\ dst' = dst
      /\ \A q \in Proc : q # p => pc'[q] = pc[q] /\ data'[q] = data[q]
  BY TypeParts, ReturnFacts DEF IInv
<1>2. Stays(p)
  BY <1>1 DEF Stays, Opened
<1> QED
  BY <1>1, <1>2, OthersStay

LEMMA BeginStays ==
    ASSUME IInv, NEW p \in Proc, NEW s, NEW h, NEW image, Begin(p, s, h, image)
    PROVE  \A q \in Proc : Stays(q)
<1>1. /\ pc \in [Proc -> Commands] /\ dst \in [Proc -> Host]
      /\ data \in [Proc -> Seq(Cell)]
  BY TypeParts DEF IInv, ProcType
<1>2. CASE ~SplitOK(image)
  <2>1. UNCHANGED <<pc, dst, data, cat>>
    BY <1>2 DEF Begin
  <2> QED
    BY <2>1, OthersStay
<1>3. CASE SplitOK(image)
  <2>1. /\ pc' = [pc EXCEPT ![p] = "uname"] /\ dst' = [dst EXCEPT ![p] = h]
        /\ data' = [data EXCEPT ![p] = image] /\ cat' = cat
    BY <1>3 DEF Begin
  <2>2. /\ pc'[p] = "uname"
        /\ \A q \in Proc : q # p => /\ pc'[q] = pc[q] /\ dst'[q] = dst[q]
                                    /\ data'[q] = data[q] /\ cat'[q] = cat[q]
    BY <1>1, <2>1
  <2>3. Stays(p)
    BY <2>2 DEF Stays, Opened
  <2> QED
    BY <2>2, <2>3, OthersStay
<1> QED
  BY <1>2, <1>3

LEMMA GotoStays ==
    ASSUME IInv, NEW p \in Proc, NEW l \in Commands, Goto(p, l),
           \A q \in Proc : q # p => data'[q] = data[q] /\ cat'[q] = cat[q],
           \/ l \notin Opened
           \/ /\ pc[p] \in Opened /\ data'[p] = data[p]
              /\ l # "stream" /\ Reached(p) = Len(data[p])
    PROVE  \A q \in Proc : Stays(q)
<1>1. /\ pc'[p] = l /\ dst' = dst
      /\ \A q \in Proc : q # p => pc'[q] = pc[q]
  BY TypeParts, GotoFacts DEF IInv
<1>2. Stays(p)
  BY <1>1 DEF Stays, Reached
<1> QED
  BY <1>1, <1>2, OthersStay

\* No step but the last makes a success.
Tame == \A q \in Proc : said'[q] = "ok" => said[q] = "ok" /\ dst'[q] = dst[q]

LEMMA ErrorTame ==
    ASSUME IInv, NEW p \in Proc, Return(p, "error")
    PROVE  Tame
<1>1. ProcType
  BY TypeParts DEF IInv
<1>2. /\ said'[p] = "error" /\ dst' = dst
      /\ \A q \in Proc : q # p => said'[q] = said[q]
  BY <1>1, ReturnFacts
<1> QED
  BY <1>2 DEF Tame

LEMMA BeginTame ==
    ASSUME IInv, NEW p \in Proc, NEW s, NEW h, NEW image, Begin(p, s, h, image)
    PROVE  Tame
<1>1. /\ said \in [Proc -> {"", "ok", "error"}]
      /\ dst \in [Proc -> Host]
  BY DEF IInv, Types
<1>2. \/ said' = [said EXCEPT ![p] = ""] /\ dst' = [dst EXCEPT ![p] = h]
      \/ said' = [said EXCEPT ![p] = "error"] /\ dst' = dst
  BY DEF Begin
<1> QED
  BY <1>1, <1>2 DEF Tame

\* What was whole stays so when nobody writes and nobody succeeds.
LEMMA IntactKept ==
    ASSUME IInv, NEW h \in Host, Intact(h), Succeeded(h)' => Succeeded(h),
           Exists(h) => file'[h] = file[h] /\ (exec[h] => exec'[h])
    PROVE  Intact(h)'
<1>1. Whole(h) => Exists(h)
  BY WholeExists, TypeParts DEF IInv
<1>2. Whole(h) /\ file'[h] = file[h] => Whole(h)'
  BY DEF Whole, Targets
<1> QED
  BY <1>1, <1>2 DEF Intact

LEMMA TameSuccess ==
    ASSUME Tame, NEW h \in Host, last'[h] = last[h]
    PROVE  Succeeded(h)' => Succeeded(h)
BY DEF Tame, Succeeded

LEMMA OrphansKept ==
    ASSUME NEW q \in Proc, orphan[q] # NoCat => Brings(orphan[q]),
           orphan'[q] # NoCat => /\ orphan[q] # NoCat
                                 /\ orphan'[q].host = orphan[q].host
                                 /\ orphan'[q].data = orphan[q].data
    PROVE  (orphan[q] # NoCat => Brings(orphan[q]))'
BY DEF Brings, Targets

\* A step that neither opens nor writes nor leaves a cat behind.
LEMMA TameStep ==
    ASSUME RInv, Tame, last' = last, Keeps,
           \A g \in Host : Exists(g) => file'[g] = file[g],
           \A q \in Proc : orphan'[q] = orphan[q] \/ orphan'[q] = NoCat,
           \A q \in Proc : Stays(q), IInv'
    PROVE  RInv'
<1>1. ASSUME NEW h \in Host
      PROVE  Intact(h)'
  <2>1. Succeeded(h)' => Succeeded(h)
    BY TameSuccess
  <2>2. IInv /\ Intact(h)
    BY DEF RInv
  <2> QED
    BY <2>1, <2>2, IntactKept DEF Keeps
<1>2. ASSUME NEW q \in Proc
      PROVE  (orphan[q] # NoCat => Brings(orphan[q]))'
  <2>1. orphan[q] # NoCat => Brings(orphan[q])
    BY DEF RInv
  <2> QED
    BY <2>1, OrphansKept
<1>3. ASSUME NEW q \in Proc
      PROVE  Filled(q)'
  <2>1. IInv /\ Filled(q) /\ Stays(q)
    BY DEF RInv
  <2>2. pc[q] \in Opened => file'[dst[q]] = file[dst[q]]
    BY <2>1, OpenedExists
  <2> QED
    BY <2>1, <2>2, FilledKept
<1> QED
  BY <1>1, <1>2, <1>3 DEF RInv

\* What a deployment from a build machine sends, once it sends.
LEMMA DeskBrings ==
    ASSUME IInv, FromDesks, NEW p \in Proc,
           pc[p] \in Opened
    PROVE  /\ exec[dst[p]] \/ pc[p] \notin {"md5", "answer"}
           /\ dst[p] \in Host
           /\ \E v \in Targets(dst[p]) : data[p] = Canon[v][HostArch[dst[p]]]
<1>1. InStep(p) /\ src[p] = Desk /\ dst[p] \in Host
  BY DEF IInv, Types, FromDesks
<1>2. Sends(p) /\ pc[p] # "uname"
  BY <1>1 DEF InStep, Opened
<1>3. PICK v \in Version : /\ HostArch[dst[p]] \in Released(Native[v])
                           /\ data[p] = Canon[v][HostArch[dst[p]]]
  BY <1>2 DEF Sends
<1>4. v \in Targets(dst[p])
  BY <1>3, CanonDomain DEF Targets
<1> QED
  BY <1>1, <1>3, <1>4 DEF InStep

LEMMA CatBrings ==
    ASSUME IInv, FromDesks, NEW p \in Proc, cat[p] # NoCat
    PROVE  IsCat(cat[p]) /\ Exists(cat[p].host) /\ Brings(cat[p])
<1>1. InStep(p) /\ CatType
  BY TypeParts DEF IInv
<1>2. /\ pc[p] = "stream" /\ cat[p].host = dst[p] /\ cat[p].data = data[p]
      /\ IsCat(cat[p]) /\ Exists(dst[p])
  BY <1>1 DEF InStep, CatType
<1>3. \E v \in Targets(dst[p]) : data[p] = Canon[v][HostArch[dst[p]]]
  BY <1>2, DeskBrings DEF Opened
<1> QED
  BY <1>2, <1>3 DEF Brings, Exists

\* However many bring an image, each puts its own bytes in their place.
LEMMA CatOver ==
    ASSUME IInv, \A v, w \in Version : v = w, NEW c, IsCat(c),
           Exists(c.host), Brings(c), CatWrites(c),
           NEW v \in Targets(c.host), NEW k \in Nat,
           Over(file[c.host], Canon[v][HostArch[c.host]], k)
    PROVE  /\ Over(file'[c.host], Canon[v][HostArch[c.host]], k)
           /\ k = c.pos => Over(file'[c.host], c.data, Until(c))
<1>1. RemoteType /\ c.host \in Host
  BY TypeParts DEF IInv, IsCat, CatState
<1>2. c.data = Canon[v][HostArch[c.host]]
  <2>1. PICK w \in Targets(c.host) : c.data = Canon[w][HostArch[c.host]]
    BY DEF Brings
  <2>2. v = w
    BY <2>1 DEF Targets
  <2> QED
    BY <2>1, <2>2
<1>3. PICK g \in Host : g = c.host
  BY <1>1
<1>4. PICK d : d = c.data
  OBVIOUS
<1>5. PICK i : i = c.pos
  OBVIOUS
<1>6. PICK j : j = Until(c)
  OBVIOUS
<1>7. /\ d \in Seq(Cell) /\ i \in Nat /\ j \in Nat /\ i <= j /\ j <= Len(d)
  BY <1>4, <1>5, <1>6, UntilRange DEF IsCat, CatState, CatWrites
<1>8. file[g] \in Seq(Cell) /\ Over(file[g], d, k)
  BY <1>1, <1>2, <1>3, <1>4, ExistsCells
<1>9. file'[g] = WriteAt(file[g], i, SubSeq(d, i + 1, j))
  <2>1. file' = [file EXCEPT ![g] = WriteAt(file[g], i, SubSeq(d, i + 1, j))]
    BY <1>3, <1>4, <1>5, <1>6 DEF CatWrites
  <2> QED
    BY <1>1, <2>1 DEF RemoteType, FileType
<1>10. Over(file'[g], d, k) /\ (k = i => Over(file'[g], d, j))
  BY <1>7, <1>8, <1>9, WriteOver
<1> QED
  BY <1>2, <1>3, <1>4, <1>5, <1>6, <1>10

\* What a whole file and the deployments under way keep when a cat writes.
LEMMA WriteKeeps ==
    ASSUME RInv, FromDesks, \A v, w \in Version : v = w, NEW c, IsCat(c),
           Exists(c.host), Brings(c), CatWrites(c)
    PROVE  /\ \A h \in Host : Intact(h)'
           /\ \A q \in Proc : pc[q] \in Opened /\ last[dst[q]] = q =>
                 Over(file'[dst[q]], data[q], Reached(q))
<1>1. RemoteType /\ CatType /\ IInv
  BY TypeParts DEF RInv, IInv
<1>2. PICK g \in Host : g = c.host
  BY DEF IsCat, CatState
<1>3. Keeps
  BY <1>1, CatWritesStep
<1>4. \A h \in Host : h # g => file'[h] = file[h]
  <2>1. file' = [file EXCEPT ![g] = WriteAt(file[g], c.pos,
                                 SubSeq(c.data, c.pos + 1, Until(c)))]
    BY <1>2 DEF CatWrites
  <2> QED
    BY <1>1, <2>1 DEF RemoteType, FileType
<1>5. Tame /\ last' = last
  BY DEF CatWrites, Tame
<1>6. ASSUME Whole(g)
      PROVE  file'[g] = file[g]
  <2>1. PICK v \in Targets(g) : file[g] = Canon[v][HostArch[g]]
    BY <1>6 DEF Whole
  <2>2. PICK d \in Seq(Cell) : d = Canon[v][HostArch[g]]
    BY <2>1, CanonDomain, CanonShape DEF Targets
  <2>3. Len(d) \in Nat /\ Over(file[g], d, Len(d))
    BY <2>1, <2>2, OverWhole, LenProperties
  <2>4. Over(file'[g], d, Len(d))
    BY <1>1, <1>2, <2>2, <2>3, CatOver
  <2>5. file'[g] \in Seq(Cell)
    <3>1. RemoteType' /\ Exists(g)'
      BY <1>1, <1>2, CatWritesStep
    <3>2. file'[g] \in {NoDir, NoFile} \cup Seq(Cell)
      BY <3>1 DEF RemoteType, FileType
    <3> QED
      BY <3>1, <3>2 DEF Exists
  <2>6. file'[g] = d
    BY <2>4, <2>5, OverWhole
  <2> QED
    BY <2>1, <2>2, <2>6
<1>7. ASSUME NEW h \in Host
      PROVE  Intact(h)'
  <2>1. Intact(h)
    BY DEF RInv
  <2>2. Succeeded(h)' => Succeeded(h)
    BY <1>5, TameSuccess
  <2>3. CASE Succeeded(h)
    <3>1. Whole(h)
      BY <2>1, <2>3 DEF Intact
    <3>2. file'[h] = file[h]
      BY <1>4, <1>6, <3>1
    <3> QED
      BY <1>1, <1>3, <2>1, <2>2, <3>2, IntactKept DEF Keeps
  <2>4. CASE ~Succeeded(h)
    BY <2>2, <2>4 DEF Intact
  <2> QED
    BY <2>3, <2>4
<1>8. ASSUME NEW q \in Proc, pc[q] \in Opened, last[dst[q]] = q
      PROVE  Over(file'[dst[q]], data[q], Reached(q))
  <2>1. Over(file[dst[q]], data[q], Reached(q))
    BY <1>8 DEF RInv, Filled
  <2>2. PICK v \in Targets(dst[q]) : data[q] = Canon[v][HostArch[dst[q]]]
    BY <1>1, <1>8, DeskBrings
  <2>3. Reached(q) \in Nat
    <3>1. pc[q] = "stream" => cat[q].pos \in Nat
      <4>1. InStep(q) /\ (cat[q] = NoCat \/ IsCat(cat[q]))
        BY <1>1 DEF IInv, CatType
      <4> QED
        BY <4>1 DEF InStep, IsCat, CatState
    <3>2. Len(data[q]) \in Nat
      BY LenProperties DEF RInv, IInv, Types
    <3> QED
      BY <3>1, <3>2 DEF Reached
  <2>4. dst[q] \in Host
    BY <1>1, <1>8, OpenedExists
  <2>5. CASE dst[q] = g
    BY <1>1, <1>2, <2>1, <2>2, <2>3, <2>5, CatOver
  <2>6. CASE dst[q] # g
    BY <1>4, <2>1, <2>4, <2>6
  <2> QED
    BY <2>5, <2>6
<1> QED
  BY <1>7, <1>8

LEMMA WriteRetried ==
    ASSUME RInv, FromDesks, \A v, w \in Version : v = w, NEW p \in Proc,
           Write(p), IInv'
    PROVE  RInv'
<1>1. IInv /\ CatType /\ InStep(p)
  BY TypeParts DEF RInv, IInv
<1>2. PICK c : c = cat[p]
  OBVIOUS
<1>3. PICK d : d = [c EXCEPT !.pos = Until(c)]
  OBVIOUS
<1>4. /\ c # NoCat /\ CatWrites(c)
      /\ orphan' = orphan /\ cat' = [cat EXCEPT ![p] = d]
      /\ UNCHANGED <<pc, dst, data, last>>
  BY <1>2, <1>3, <1>1 DEF Write, CatWrites, CatType
<1>5. IsCat(c) /\ Exists(c.host) /\ Brings(c)
  <2>1. cat[p] # NoCat
    BY <1>2, <1>4
  <2>2. IsCat(cat[p]) /\ Exists(cat[p].host) /\ Brings(cat[p])
    BY <1>1, <2>1, CatBrings
  <2> QED
    BY <1>2, <2>2, Zenon
<1>6. /\ \A h \in Host : Intact(h)'
      /\ \A q \in Proc : pc[q] \in Opened /\ last[dst[q]] = q =>
            Over(file'[dst[q]], data[q], Reached(q))
  BY <1>4, <1>5, WriteKeeps
<1>7. ASSUME NEW q \in Proc
      PROVE  (orphan[q] # NoCat => Brings(orphan[q]))'
  <2>1. orphan[q] # NoCat => Brings(orphan[q])
    BY DEF RInv
  <2> QED
    BY <1>4, <2>1, OrphansKept
<1>8. ASSUME NEW q \in Proc
      PROVE  Filled(q)'
  <2>1. CASE q # p
    <3>1. cat'[q] = cat[q]
      BY <1>1, <1>4, <2>1 DEF CatType
    <3>2. Reached(q)' = Reached(q)
      BY <1>4, <3>1 DEF Reached
    <3> QED
      BY <1>4, <1>6, <3>2 DEF Filled
  <2>2. CASE q = p /\ last[dst[p]] = p
    <3>1. /\ pc[p] = "stream" /\ c.host = dst[p] /\ c.data = data[p]
      BY <1>1, <1>2, <1>4 DEF InStep
    <3>2. Over(file[dst[p]], data[p], c.pos)
      BY <1>2, <2>2, <3>1 DEF RInv, Filled, Reached, Opened
    <3>3. PICK v \in Targets(c.host) : c.data = Canon[v][HostArch[c.host]]
      BY <1>5 DEF Brings
    <3>4. c.pos \in Nat /\ Over(file[c.host], Canon[v][HostArch[c.host]], c.pos)
      BY <1>5, <3>1, <3>2, <3>3 DEF IsCat, CatState
    <3>5. Over(file'[c.host], c.data, Until(c))
      BY <1>1, <1>4, <1>5, <3>3, <3>4, CatOver
    <3>6. cat'[p] = d /\ d.pos = Until(c)
      <4>1. Until(c) \in Nat /\ Until(c) <= c.upto
        BY <1>4, <1>5, UntilRange DEF CatWrites
      <4>2. d = [host |-> c.host, data |-> c.data, pos |-> Until(c),
                 upto |-> c.upto]
        BY <1>3, <1>5, <4>1, CatMoves
      <4> QED
        BY <1>1, <1>4, <4>2 DEF CatType
    <3>7. Reached(p)' = Until(c)
      BY <1>4, <3>1, <3>6 DEF Reached
    <3> QED
      BY <1>4, <2>2, <3>1, <3>5, <3>7 DEF Filled
  <2>3. CASE q = p /\ last[dst[p]] # p
    BY <1>4, <2>3 DEF Filled
  <2> QED
    BY <2>1, <2>2, <2>3
<1> QED
  BY <1>6, <1>7, <1>8 DEF RInv

LEMMA OrphanRetried ==
    ASSUME RInv, FromDesks, \A v, w \in Version : v = w, NEW p \in Proc,
           OrphanWrites(p), IInv'
    PROVE  RInv'
<1>1. PICK c : c = orphan[p]
  OBVIOUS
<1>2. PICK d : d = [c EXCEPT !.pos = Until(c)]
  OBVIOUS
<1>3. CatType /\ InStep(p)
  BY TypeParts DEF RInv, IInv
<1>4. /\ c # NoCat /\ CatWrites(c) /\ cat' = cat
      /\ orphan' = [orphan EXCEPT ![p] = d]
      /\ UNCHANGED <<pc, dst, data, last>>
  BY <1>1, <1>2, <1>3 DEF OrphanWrites, CatWrites, CatType
<1>5. IsCat(c) /\ Exists(c.host) /\ Brings(c)
  BY <1>1, <1>3, <1>4 DEF CatType, InStep, RInv
<1>6. /\ \A h \in Host : Intact(h)'
      /\ \A q \in Proc : pc[q] \in Opened /\ last[dst[q]] = q =>
            Over(file'[dst[q]], data[q], Reached(q))
  BY <1>4, <1>5, WriteKeeps
<1>7. d.host = c.host /\ d.data = c.data
  <2>1. Until(c) \in Nat /\ Until(c) <= c.upto
    BY <1>4, <1>5, UntilRange DEF CatWrites
  <2>2. d = [host |-> c.host, data |-> c.data, pos |-> Until(c),
             upto |-> c.upto]
    BY <1>2, <1>5, <2>1, CatMoves
  <2> QED
    BY <2>2
<1>8. \A q \in Proc : orphan'[q] = IF q = p THEN d ELSE orphan[q]
  BY <1>3, <1>4 DEF CatType
<1>9. ASSUME NEW q \in Proc
      PROVE  (orphan[q] # NoCat => Brings(orphan[q]))'
  <2>1. orphan[q] # NoCat => Brings(orphan[q])
    BY DEF RInv
  <2>2. orphan'[q] # NoCat => /\ orphan[q] # NoCat
                              /\ orphan'[q].host = orphan[q].host
                              /\ orphan'[q].data = orphan[q].data
    BY <1>1, <1>4, <1>7, <1>8
  <2> QED
    BY <2>1, <2>2, OrphansKept
<1>10. ASSUME NEW q \in Proc
       PROVE  Filled(q)'
  <2>1. Reached(q)' = Reached(q)
    BY <1>4 DEF Reached
  <2> QED
    BY <1>4, <1>6, <2>1 DEF Filled
<1> QED
  BY <1>6, <1>9, <1>10 DEF RInv

\* The open drops the success it truncates, and takes the file over.
LEMMA OpenRetried ==
    ASSUME RInv, NEW p \in Proc, Open(p), IInv'
    PROVE  RInv'
<1>1. RemoteType /\ ProcType /\ CatType /\ InStep(p) /\ IInv
  BY TypeParts DEF RInv, IInv
<1>2. PICK g \in Host : g = dst[p]
  BY DEF RInv, IInv, Types
<1>3. PICK c : c = [host |-> g, data |-> data[p], pos |-> 0,
                    upto |-> Len(data[p])]
  OBVIOUS
<1>4. /\ pc[p] = "put" /\ pc' = [pc EXCEPT ![p] = "stream"]
      /\ file' = [file EXCEPT ![g] = <<>>]
      /\ exec' = [exec EXCEPT ![g] = Exists(g) /\ exec[g]]
      /\ last' = [last EXCEPT ![g] = p]
      /\ cat' = [cat EXCEPT ![p] = c]
      /\ UNCHANGED <<said, dst, data, orphan>>
  BY <1>2, <1>3 DEF Open, Goto
<1>5. said[p] = ""
  BY <1>1, <1>4 DEF InStep
<1>6. /\ last'[g] = p /\ file'[g] = <<>>
      /\ \A h \in Host : h # g => /\ last'[h] = last[h]
                                  /\ file'[h] = file[h]
                                  /\ exec'[h] = exec[h]
  BY <1>1, <1>4 DEF RemoteType, FileType
<1>7. ASSUME NEW h \in Host
      PROVE  Intact(h)'
  <2>1. CASE h = g
    <3>1. ~Succeeded(h)'
      BY <1>4, <1>5, <1>6, <2>1 DEF Succeeded
    <3> QED
      BY <3>1 DEF Intact
  <2>2. CASE h # g
    <3>1. Succeeded(h)' => Succeeded(h)
      BY <1>4, <1>6, <2>2 DEF Succeeded
    <3>2. Intact(h)
      BY DEF RInv
    <3> QED
      BY <1>1, <1>6, <2>2, <3>1, <3>2, IntactKept
  <2> QED
    BY <2>1, <2>2
<1>8. ASSUME NEW q \in Proc
      PROVE  (orphan[q] # NoCat => Brings(orphan[q]))'
  <2>1. orphan[q] # NoCat => Brings(orphan[q])
    BY DEF RInv
  <2> QED
    BY <1>4, <2>1, OrphansKept
<1>9. ASSUME NEW q \in Proc, q # p
      PROVE  Filled(q)'
  <2>1. pc'[q] = pc[q] /\ cat'[q] = cat[q]
    BY <1>1, <1>4, <1>9 DEF CatType, ProcType
  <2>2. Filled(q) /\ Stays(q)
    BY <1>4, <2>1, OthersStay DEF RInv
  <2>3. pc[q] \in Opened /\ last'[dst[q]] = q =>
           last[dst[q]] = q /\ file'[dst[q]] = file[dst[q]]
    BY <1>1, <1>6, <1>9, OpenedExists
  <2> QED
    BY <1>1, <2>2, <2>3, FilledKept
<1>10. Filled(p)'
  <2>1. Over(<<>>, data[p], 0)
    <3>1. PICK n \in Nat : n = Len(data[p])
      BY LenProperties DEF RInv, IInv, Types
    <3>2. Len(<<>>) = 0
      OBVIOUS
    <3> QED
      BY <3>1, <3>2 DEF Over
  <2>2. pc'[p] = "stream" /\ cat'[p] = c /\ c.pos = 0
    BY <1>1, <1>3, <1>4 DEF CatType, ProcType
  <2>3. Reached(p)' = 0
    BY <2>2 DEF Reached
  <2>4. file'[dst'[p]] = <<>> /\ data'[p] = data[p]
    BY <1>2, <1>4, <1>6
  <2> QED
    BY <2>1, <2>3, <2>4 DEF Filled
<1> QED
  BY <1>7, <1>8, <1>9, <1>10 DEF RInv

\* The cat a broken connection leaves brings what the deployment sent.
LEMMA StreamLostRetried ==
    ASSUME RInv, FromDesks, NEW p \in Proc, StreamLost(p), IInv'
    PROVE  RInv'
<1>1. PICK c : c = cat[p]
  OBVIOUS
<1>2. CatType /\ InStep(p) /\ IInv
  BY TypeParts DEF RInv, IInv
<1>3. pc[p] = "stream" /\ Return(p, "error") /\ UNCHANGED remote
  BY DEF StreamLost
<1>4. c # NoCat /\ IsCat(c) /\ Brings(c)
  <2>1. cat[p] # NoCat
    BY <1>2, <1>3 DEF InStep
  <2>2. IsCat(cat[p]) /\ Brings(cat[p])
    BY <1>2, <2>1, CatBrings
  <2> QED
    BY <1>1, <2>1, <2>2, Zenon
<1>5. PICK n \in c.pos..c.upto :
         orphan' = [orphan EXCEPT ![p] = [c EXCEPT !.upto = n]]
  BY <1>1 DEF StreamLost
<1>6. PICK d : d = [c EXCEPT !.upto = n]
  OBVIOUS
<1>7. d.host = c.host /\ d.data = c.data
  <2>1. n \in Nat /\ c.pos <= n /\ n <= c.upto
    BY <1>4 DEF IsCat, CatState
  <2>2. d = [host |-> c.host, data |-> c.data, pos |-> c.pos, upto |-> n]
    BY <1>4, <1>6, <2>1, CatMoves
  <2> QED
    BY <2>2
<1>8. \A q \in Proc : orphan'[q] = IF q = p THEN d ELSE orphan[q]
  BY <1>2, <1>5, <1>6 DEF CatType
<1>9. ASSUME NEW q \in Proc
      PROVE  (orphan[q] # NoCat => Brings(orphan[q]))'
  <2>1. CASE q = p
    <3>1. orphan'[q] = d
      BY <1>8, <2>1
    <3>2. \E v \in Targets(d.host) : d.data = Canon[v][HostArch[d.host]]
      BY <1>4, <1>7 DEF Brings
    <3> QED
      BY <3>1, <3>2 DEF Brings, Targets
  <2>2. CASE q # p
    <3>1. orphan[q] # NoCat => Brings(orphan[q])
      BY DEF RInv
    <3> QED
      BY <1>8, <2>2, <3>1, OrphansKept
  <2> QED
    BY <2>1, <2>2
<1>10. Tame /\ last' = last /\ Keeps /\ file' = file
  BY <1>2, <1>3, ErrorTame, RemoteSame DEF remote
<1>11. ASSUME NEW h \in Host
       PROVE  Intact(h)'
  <2>1. Succeeded(h)' => Succeeded(h)
    BY <1>10, TameSuccess
  <2>2. Intact(h)
    BY DEF RInv
  <2> QED
    BY <1>2, <1>10, <2>1, <2>2, IntactKept DEF Keeps
<1>12. ASSUME NEW q \in Proc
       PROVE  Filled(q)'
  <2>1. \A r \in Proc : r # p => cat'[r] = cat[r]
    BY <1>2 DEF StreamLost, CatType
  <2>2. Filled(q) /\ Stays(q)
    BY <1>2, <1>3, <2>1, ReturnStays DEF RInv
  <2> QED
    BY <1>2, <1>10, <2>2, FilledKept
<1> QED
  BY <1>9, <1>11, <1>12 DEF RInv

\* A new success is that of a file its deployment filled, or says nothing of
\* a file that another opened since.
LEMMA CompareRetried ==
    ASSUME RInv, FromDesks, NEW p \in Proc, Compare(p), IInv'
    PROVE  RInv'
<1>1. PICK g \in Host : g = dst[p]
  BY DEF RInv, IInv, Types
<1>2. PICK what \in {"ok", "error"} : Return(p, what)
  BY DEF Compare
<1>3. /\ pc[p] = "answer" /\ IInv /\ ProcType
      /\ UNCHANGED remote /\ UNCHANGED orphan /\ UNCHANGED cat
  BY TypeParts DEF Compare, RInv, IInv
<1>4. Keeps /\ last' = last /\ file' = file
  BY <1>3, RemoteSame DEF remote
<1>5. /\ dst' = dst
      /\ \A q \in Proc : q # p => said'[q] = said[q]
  BY <1>2, <1>3, ReturnFacts
<1>6. ASSUME last[g] = p
      PROVE  Whole(g) /\ exec[g]
  <2>1. Over(file[g], data[p], Len(data[p]))
    BY <1>1, <1>3, <1>6 DEF RInv, Filled, Reached, Opened
  <2>2. file[g] \in Seq(Cell) /\ data[p] \in Seq(Cell)
    BY <1>1, <1>3, OpenedExists DEF Opened, ProcType
  <2>3. file[g] = data[p]
    BY <2>1, <2>2, OverWhole
  <2>4. /\ exec[g]
        /\ \E v \in Targets(g) : data[p] = Canon[v][HostArch[g]]
    BY <1>1, <1>3, DeskBrings DEF Opened
  <2> QED
    BY <2>3, <2>4 DEF Whole
<1>7. ASSUME NEW h \in Host
      PROVE  Intact(h)'
  <2>1. CASE h = g /\ last[g] = p
    <3>1. Whole(g)' /\ exec'[g]
      BY <1>3, <1>6, <2>1 DEF Whole, Targets, remote
    <3> QED
      BY <2>1, <3>1 DEF Intact, Whole, Targets
  <2>2. CASE ~(h = g /\ last[g] = p)
    <3>1. Succeeded(h)' => Succeeded(h)
      BY <1>1, <1>4, <1>5, <2>2 DEF Succeeded
    <3>2. Intact(h)
      BY DEF RInv
    <3> QED
      BY <1>3, <1>4, <3>1, <3>2, IntactKept DEF Keeps
  <2> QED
    BY <2>1, <2>2
<1>8. ASSUME NEW q \in Proc
      PROVE  (orphan[q] # NoCat => Brings(orphan[q]))'
  <2>1. orphan[q] # NoCat => Brings(orphan[q])
    BY DEF RInv
  <2> QED
    BY <1>3, <2>1, OrphansKept
<1>9. ASSUME NEW q \in Proc
      PROVE  Filled(q)'
  <2>1. Filled(q) /\ Stays(q)
    BY <1>2, <1>3, ReturnStays DEF RInv
  <2> QED
    BY <1>3, <1>4, <2>1, FilledKept
<1> QED
  BY <1>7, <1>8, <1>9 DEF RInv


\* The other steps are tame.
LEMMA QuietRetried ==
    ASSUME RInv, IInv', NEW p \in Proc,
           \/ \E v \in Version, h \in Host : RunFromDesk(p, v, h)
           \/ \E s, h \in Host : RunInstalled(p, s, h)
           \/ Uname(p) \/ Mkdir(p) \/ OpenFails(p) \/ PutDone(p) \/ Chmod(p)
           \/ Md5Reads(p) \/ Md5Ends(p)
           \/ CommandLost(p) \/ CatFails(p) \/ OrphanEnds(p)
    PROVE  RInv'
<1>1. IInv /\ dst[p] \in Host /\ CatType /\ InStep(p)
  BY TypeParts DEF RInv, IInv, Types
<1>2. Tame
  <2>1. \/ \E s, h, image : Begin(p, s, h, image)
        \/ Return(p, "error")
        \/ UNCHANGED <<said, dst>>
    BY DEF RunFromDesk, RunInstalled, Uname, Mkdir, OpenFails, PutDone, Chmod,
           Md5Reads, Md5Ends, CommandLost, CatFails, OrphanEnds, Goto
  <2>2. UNCHANGED <<said, dst>> => Tame
    BY DEF Tame
  <2> QED
    BY <1>1, <2>1, <2>2, BeginTame, ErrorTame
<1>3. /\ last' = last /\ Keeps
      /\ \A g \in Host : Exists(g) => file'[g] = file[g]
  <2>1. \/ UNCHANGED remote \/ MkdirEffect(dst[p]) \/ ChmodEffect(dst[p])
    BY DEF RunFromDesk, RunInstalled, Begin, Uname, Mkdir, OpenFails, PutDone,
           Chmod, Md5Reads, Md5Ends, CommandLost, CatFails, OrphanEnds, remote
  <2>2. CASE UNCHANGED remote
    BY <1>1, <2>2, RemoteSame DEF remote
  <2>3. CASE MkdirEffect(dst[p])
    BY <1>1, <2>3, MkdirKeeps DEF MkdirEffect
  <2>4. CASE ChmodEffect(dst[p])
    BY <1>1, <2>4, ChmodKeeps DEF ChmodEffect
  <2> QED
    BY <2>1, <2>2, <2>3, <2>4
<1>4. \A q \in Proc : orphan'[q] = orphan[q] \/ orphan'[q] = NoCat
  <2>1. \/ orphan' = orphan
        \/ orphan' = [orphan EXCEPT ![p] = NoCat]
    BY DEF RunFromDesk, RunInstalled, Begin, Uname, Mkdir, OpenFails, PutDone,
           Chmod, Md5Reads, Md5Ends, CommandLost, CatFails, OrphanEnds
  <2> QED
    BY <1>1, <2>1 DEF CatType
<1>5. \A q \in Proc : Stays(q)
  <2>1. \A q \in Proc : q # p => cat'[q] = cat[q]
    <3>1. cat' = cat \/ cat' = [cat EXCEPT ![p] = NoCat]
      BY DEF RunFromDesk, RunInstalled, Begin, Uname, Mkdir, OpenFails,
             PutDone, Chmod, Md5Reads, Md5Ends, CommandLost, CatFails,
             OrphanEnds
    <3> QED
      BY <1>1, <3>1 DEF CatType
  <2>2. CASE \E s, h, image : Begin(p, s, h, image)
    BY <1>1, <2>2, BeginStays
  <2>3. CASE Return(p, "error")
    BY <1>1, <2>1, <2>3, ReturnStays
  <2>4. CASE UNCHANGED <<pc, dst, data, cat>>
    BY <2>4, OthersStay
  <2>5. CASE Uname(p)
    <3>1. CASE Goto(p, "mkdir")
      <4>1. \A q \in Proc : q # p => data'[q] = data[q]
        BY <1>1, <2>3, <2>5 DEF Uname, Return, IInv, Types
      <4> QED
        BY <1>1, <2>1, <3>1, <4>1, GotoStays DEF Opened, Commands
    <3> QED
      BY <2>3, <2>5, <3>1 DEF Uname
  <2>6. CASE Mkdir(p)
    <3>1. Goto(p, "put") /\ data' = data
      BY <2>6 DEF Mkdir
    <3> QED
      BY <1>1, <2>1, <3>1, GotoStays DEF Opened, Commands
  <2>7. CASE PutDone(p)
    <3>1. /\ Goto(p, "chmod") /\ data' = data /\ pc[p] = "stream"
          /\ cat[p].pos = cat[p].upto
      BY <2>7 DEF PutDone
    <3>2. Reached(p) = Len(data[p])
      BY <1>1, <3>1 DEF InStep, Reached
    <3> QED
      BY <1>1, <2>1, <3>1, <3>2, GotoStays DEF Opened, Commands
  <2>8. CASE Chmod(p)
    <3>1. Goto(p, "md5") /\ data' = data /\ pc[p] = "chmod"
      BY <2>8 DEF Chmod
    <3>2. Reached(p) = Len(data[p])
      BY <3>1 DEF Reached
    <3> QED
      BY <1>1, <2>1, <3>1, <3>2, GotoStays DEF Opened, Commands
  <2>9. CASE Md5Ends(p)
    <3>1. Goto(p, "answer") /\ data' = data /\ pc[p] = "md5"
      BY <2>9 DEF Md5Ends
    <3>2. Reached(p) = Len(data[p])
      BY <3>1 DEF Reached
    <3> QED
      BY <1>1, <2>1, <3>1, <3>2, GotoStays DEF Opened, Commands
  <2>10. \/ Md5Reads(p) \/ OrphanEnds(p)
         \/ OpenFails(p) \/ CommandLost(p) \/ CatFails(p)
         \/ \E v \in Version, h \in Host : RunFromDesk(p, v, h)
         \/ \E s, h \in Host : RunInstalled(p, s, h)
         => \/ \E s, h, image : Begin(p, s, h, image)
            \/ Return(p, "error")
            \/ UNCHANGED <<pc, dst, data, cat>>
    BY DEF Md5Reads, OrphanEnds, OpenFails, CommandLost, CatFails,
           RunFromDesk, RunInstalled
  <2> QED
    BY <2>2, <2>3, <2>4, <2>5, <2>6, <2>7, <2>8, <2>9, <2>10
<1> QED
  BY <1>2, <1>3, <1>4, <1>5, TameStep

LEMMA NextRInv ==
    ASSUME \A v, w \in Version : v = w
    PROVE  RInv /\ FromDesks /\ [Next]_vars => RInv'
<1> SUFFICES ASSUME RInv, FromDesks, [Next]_vars PROVE RInv'
  OBVIOUS
<1>1. IInv'
  BY NextIInv DEF RInv
<1>2. CASE UNCHANGED vars
  <2>1. /\ Tame /\ last' = last /\ Keeps /\ file' = file /\ orphan' = orphan
    BY <1>2 DEF vars, Tame, Keeps, Exists
  <2>2. \A q \in Proc : Stays(q)
    BY <1>2, OthersStay DEF vars
  <2> QED
    BY <1>1, <2>1, <2>2, TameStep
<1>3. ASSUME NEW p \in Proc,
             \/ \E v \in Version, h \in Host : RunFromDesk(p, v, h)
             \/ \E s, h \in Host : RunInstalled(p, s, h)
      PROVE  RInv'
  BY <1>1, <1>3, QuietRetried
<1>4. ASSUME NEW p \in Proc, Step(p)
      PROVE  RInv'
  BY <1>1, <1>4, QuietRetried, OpenRetried, WriteRetried,
     CompareRetried DEF Step
<1>5. ASSUME NEW p \in Proc, CommandLost(p) \/ StreamLost(p) \/ CatFails(p)
      PROVE  RInv'
  BY <1>1, <1>5, QuietRetried, StreamLostRetried
<1>6. ASSUME NEW p \in Proc, OrphanStep(p)
      PROVE  RInv'
  BY <1>1, <1>6, QuietRetried, OrphanRetried DEF OrphanStep
<1> QED
  BY <1>2, <1>3, <1>4, <1>5, <1>6 DEF Next

LEMMA InitRInv == Init => RInv
<1> SUFFICES ASSUME Init PROVE RInv
  OBVIOUS
<1>1. IInv
  BY InitIInv
<1>2. \A p \in Proc : orphan[p] = NoCat /\ said[p] = "" /\ pc[p] = "idle"
  BY DEF Init
<1> QED
  BY <1>1, <1>2 DEF RInv, Intact, Succeeded, Filled, Opened

\* Of one release, from build machines, any number of deployments to any
\* number of machines may meet, break and be tried again, over the cats their
\* broken connections left: after a reported success the file is the whole
\* image, may be executed and loads, and stays so until it is opened again.
THEOREM SuccessWholeHolds ==
    ASSUME \A v, w \in Version : v = w
    PROVE  Spec /\ []FromDesks => []SuccessWhole
<1>1. RInv /\ FromDesks /\ [Next]_vars => RInv'
  BY NextRInv
<1>2. RInv => SuccessWhole
  <2>1. ASSUME RInv, NEW h \in Host, Succeeded(h)
        PROVE  Whole(h) /\ exec[h] /\ Loads(h)
    <3>1. Whole(h) /\ exec[h]
      BY <2>1 DEF RInv, Intact
    <3>2. PICK v \in Version : /\ HostArch[h] \in Released(Native[v])
                               /\ file[h] = Canon[v][HostArch[h]]
      BY <3>1, CanonDomain DEF Whole, Targets
    <3> QED
      BY <3>1, <3>2, WholeLoads
  <2> QED
    BY <2>1 DEF SuccessWhole
<1> QED
  BY <1>1, <1>2, InitRInv, PTL DEF Spec

\* With a single machine nothing but a build machine can reach its file, since
\* the kernel does not open a program that runs: a hop to itself fails.
THEOREM OneMachineWhole ==
    ASSUME \A v, w \in Version : v = w, \A g, h \in Host : g = h
    PROVE  Spec => []SuccessWhole
<1>1. Init => FromDesks
  BY DEF Init, FromDesks, Opened
<1>2. IInv /\ FromDesks /\ [Next]_vars => FromDesks'
  <2> SUFFICES ASSUME IInv, FromDesks, [Next]_vars PROVE FromDesks'
    OBVIOUS
  <2>1. /\ pc \in [Proc -> Commands] /\ src \in [Proc -> Host \cup {Desk}]
        /\ dst \in [Proc -> Host]
    BY TypeParts DEF IInv, ProcType
  <2>2. CASE UNCHANGED vars
    BY <2>2 DEF vars, FromDesks
  <2>3. ASSUME NEW p \in Proc, NEW l, NEW s,
               pc' = [pc EXCEPT ![p] = l],
               \/ l \notin Opened
               \/ src[p] = Desk /\ s = Desk,
               src' \in {src, [src EXCEPT ![p] = s]}
        PROVE  FromDesks'
    BY <2>1, <2>3 DEF FromDesks
  <2>4. CASE UNCHANGED <<pc, src>>
    BY <2>4 DEF FromDesks
  <2>5. ASSUME NEW p \in Proc, NEW what, Return(p, what)
        PROVE  FromDesks'
    BY <2>3, <2>5 DEF Return, Opened
  <2>6. ASSUME NEW p \in Proc, NEW l, Goto(p, l),
               src[p] = Desk \/ l \notin Opened
        PROVE  FromDesks'
    BY <2>3, <2>6 DEF Goto
  <2>7. ASSUME NEW p \in Proc, NEW s, NEW h, NEW image, Begin(p, s, h, image)
        PROVE  FromDesks'
    BY <2>3, <2>4, <2>7 DEF Begin, Opened
  <2>8. ASSUME NEW p \in Proc, Open(p)
        PROVE  FromDesks'
    <3>1. pc[p] = "put" /\ ~Runs(dst[p]) /\ Goto(p, "stream")
      BY <2>8 DEF Open
    <3>2. src[p] = Desk
      BY <2>1, <3>1 DEF Runs
    <3> QED
      BY <2>6, <3>1, <3>2
  <2>9. ASSUME NEW p \in Proc, PutDone(p) \/ Chmod(p) \/ Md5Ends(p)
        PROVE  FromDesks'
    <3>1. src[p] = Desk
      BY <2>9 DEF PutDone, Chmod, Md5Ends, FromDesks, Opened
    <3> QED
      BY <2>6, <2>9, <3>1 DEF PutDone, Chmod, Md5Ends
  <2>10. ASSUME NEW p \in Proc,
                \/ \E v \in Version, h \in Host : RunFromDesk(p, v, h)
                \/ \E s, h \in Host : RunInstalled(p, s, h)
         PROVE  FromDesks'
    BY <2>7, <2>10 DEF RunFromDesk, RunInstalled
  <2>11. ASSUME NEW p \in Proc, Step(p)
         PROVE  FromDesks'
    <3>1. Uname(p) => FromDesks'
      BY <2>5, <2>6 DEF Uname, Opened
    <3>2. Mkdir(p) \/ OpenFails(p) \/ Compare(p) => FromDesks'
      BY <2>5, <2>6 DEF Mkdir, OpenFails, Compare, Opened
    <3>3. Write(p) \/ Md5Reads(p) => FromDesks'
      BY <2>4 DEF Write, CatWrites, Md5Reads
    <3> QED
      BY <2>8, <2>9, <2>11, <3>1, <3>2, <3>3 DEF Step
  <2>12. ASSUME NEW p \in Proc, CommandLost(p) \/ StreamLost(p) \/ CatFails(p)
         PROVE  FromDesks'
    BY <2>5, <2>12 DEF CommandLost, StreamLost, CatFails
  <2>13. ASSUME NEW p \in Proc, OrphanStep(p)
         PROVE  FromDesks'
    BY <2>4, <2>13 DEF OrphanStep, OrphanWrites, OrphanEnds, CatWrites
  <2> QED
    BY <2>2, <2>10, <2>11, <2>12, <2>13 DEF Next
<1>3. Spec /\ []FromDesks => []SuccessWhole
  BY SuccessWholeHolds
<1> QED
  BY <1>1, <1>2, <1>3, Invariance, PTL DEF Spec
=============================================================================
