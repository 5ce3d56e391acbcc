--------------------------- MODULE FatBlobProofs ---------------------------
(***************************************************************************)
(* What Encode, Decode and SplitCanonical promise one another, for every   *)
(* blob: decoding an encoded blob gives it back, a blob is found behind    *)
(* any native, and a proper prefix of an image has no blob at its end.     *)
(***************************************************************************)
EXTENDS FatBlob, SequenceTheorems, WellFoundedInduction, TLAPS

\* Induction over the naturals, in a form without an operator parameter.
Below == {p \in Nat \X Nat : p[1] < p[2]}

LEMMA BelowWF == IsWellFoundedOn(Below, Nat)
BY NatLessThanWellFounded, Zenon DEF OpToRel, Below

\* A set that holds 0 and is closed under successor holds every natural.
LEMMA SetInduction ==
    ASSUME NEW S, 0 \in S, \A n \in Nat : n \in S => n + 1 \in S
    PROVE  Nat \subseteq S
<1> DEFINE T == Nat \ S
<1>1. SUFFICES ASSUME T # {} PROVE FALSE
  OBVIOUS
<1>2. PICK x \in T : \A y \in T : ~(<<y, x>> \in Below)
  <2>1. T \subseteq Nat
    OBVIOUS
  <2> HIDE DEF T
  <2> QED
    BY <1>1, <2>1, BelowWF, WFMin
<1>3. x \in Nat /\ x # 0 /\ x \notin S
  OBVIOUS
<1>4. x - 1 \in Nat /\ x - 1 < x
  BY <1>3
<1>5. x - 1 \in S
  BY <1>2, <1>4, <1>3 DEF Below
<1> QED
  BY <1>3, <1>4, <1>5

\* Where the parts of a concatenation are found in it.
LEMMA ConcatAt ==
    ASSUME NEW S, NEW s \in Seq(S), NEW t \in Seq(S), NEW u, u = s \o t
    PROVE  /\ u \in Seq(S)
           /\ Len(s) \in Nat /\ Len(t) \in Nat
           /\ Len(u) = Len(s) + Len(t)
           /\ \A j \in 1..Len(s) : u[j] = s[j]
           /\ \A j \in 1..Len(t) : u[Len(s) + j] = t[j]
<1>1. /\ Len(s) \in Nat /\ Len(t) \in Nat
      /\ u \in Seq(S) /\ Len(u) = Len(s) + Len(t)
  BY ConcatProperties, LenProperties
<1>2. \A j \in 1..Len(s) : u[j] = s[j]
  BY <1>1, ConcatProperties
<1>3. ASSUME NEW j \in 1..Len(t)
      PROVE  u[Len(s) + j] = t[j]
  <2>1. /\ Len(s) + j \in 1..(Len(s) + Len(t))
        /\ ~(Len(s) + j <= Len(s))
        /\ (Len(s) + j) - Len(s) = j
    BY <1>1
  <2> QED
    BY <2>1, ConcatProperties
<1> QED
  BY <1>1, <1>2, <1>3

LEMMA ConcatIs ==
    ASSUME NEW S, NEW s \in Seq(S), NEW t \in Seq(S)
    PROVE  /\ s \o t \in Seq(S)
           /\ Len(s \o t) = Len(s) + Len(t)
           /\ \A j \in 1..Len(s) : (s \o t)[j] = s[j]
           /\ \A j \in 1..Len(t) : (s \o t)[Len(s) + j] = t[j]
BY ConcatAt

\* A prefix of a sequence, and the elements it holds.
LEMMA PrefixType ==
    ASSUME NEW S, NEW s \in Seq(S), NEW k \in Nat, k <= Len(s),
           NEW u, u = SubSeq(s, 1, k)
    PROVE  u \in Seq(S) /\ Len(u) = k /\ \A i \in 1..k : u[i] = s[i]
<1>1. Len(s) \in Nat /\ \A i \in 1..k : s[i] \in S
  BY LenProperties, ElementOfSeq
<1>2. u \in Seq(S)
  BY <1>1, SubSeqProperties
<1>3. Len(u) = k
  BY <1>1, SubSeqProperties
<1>4. ASSUME NEW i \in 1..k
      PROVE  u[i] = s[i]
  <2>1. 1 + i - 1 = i /\ 1 <= k + 1
    OBVIOUS
  <2> QED
    BY <1>1, <2>1, SubSeqProperties
<1> QED
  BY <1>2, <1>3, <1>4

\* A stretch of a sequence that agrees with t is t.
LEMMA SubSeqIs ==
    ASSUME NEW S, NEW s \in Seq(S), NEW t \in Seq(S), NEW m \in Nat,
           m + Len(t) <= Len(s), \A j \in 1..Len(t) : s[m + j] = t[j]
    PROVE  SubSeq(s, m + 1, m + Len(t)) = t
<1> DEFINE d == Len(t)
           u == SubSeq(s, m + 1, m + d)
<1>1. d \in Nat /\ Len(s) \in Nat
  BY LenProperties
<1>2. \A j \in (m + 1)..(m + d) : s[j] \in S
  BY <1>1, ElementOfSeq
<1> HIDE DEF d
<1>3. /\ u \in Seq(S)
      /\ Len(u) = IF m + 1 <= m + d THEN (m + d) - (m + 1) + 1 ELSE 0
      /\ \A j \in 1..((m + d) - (m + 1) + 1) : u[j] = s[(m + 1) + j - 1]
  BY <1>1, <1>2, SubSeqProperties
<1> HIDE DEF u
<1>4. Len(u) = d
  BY <1>1, <1>3
<1>5. ASSUME NEW j \in 1..d
      PROVE  u[j] = t[j]
  <2>1. j \in 1..((m + d) - (m + 1) + 1) /\ (m + 1) + j - 1 = m + j
    BY <1>1
  <2>2. s[m + j] = t[j]
    BY DEF d
  <2> QED
    BY <1>3, <2>1, <2>2
<1>6. u = t
  BY <1>3, <1>4, <1>5, SeqEqual DEF d
<1> QED
  BY <1>6 DEF u, d

-----------------------------------------------------------------------------
(* The payload region.                                                     *)

\* The slices as Encode reads them: their data are bytes, their numbers fit.
Slices == Seq(Slice)

\* The recursive definition of the payload has a solution for every blob.
LEMMA PayloadExists ==
    ASSUME NEW b, NEW n \in Nat
    PROVE  \E f : f = [i \in 0..n |-> IF i = 0 THEN <<>>
                                      ELSE f[i - 1] \o b[i].data]
<1> DEFINE S == {m \in Nat : \E f : f = [i \in 0..m |-> IF i = 0 THEN <<>>
                                             ELSE f[i - 1] \o b[i].data]}
<1>1. 0 \in S
  <2> DEFINE g == [i \in 0..0 |-> <<>>]
  <2>1. g = [i \in 0..0 |-> IF i = 0 THEN <<>> ELSE g[i - 1] \o b[i].data]
    OBVIOUS
  <2> QED
    BY <2>1
<1>2. ASSUME NEW m \in Nat, m \in S
      PROVE  m + 1 \in S
  <2>1. PICK f : f = [i \in 0..m |-> IF i = 0 THEN <<>>
                                     ELSE f[i - 1] \o b[i].data]
    BY <1>2
  <2> DEFINE g == [i \in 0..(m + 1) |-> IF i = m + 1 THEN f[m] \o b[m + 1].data
                                        ELSE f[i]]
  <2>2. ASSUME NEW i \in 0..(m + 1)
        PROVE  g[i] = IF i = 0 THEN <<>> ELSE g[i - 1] \o b[i].data
    <3>1. CASE i = m + 1
      <4>1. /\ i # 0 /\ i - 1 = m /\ m # m + 1
            /\ m \in 0..(m + 1) /\ m + 1 \in 0..(m + 1)
        BY <3>1
      <4>2. g[m + 1] = f[m] \o b[m + 1].data /\ g[m] = f[m]
        BY <4>1
      <4> HIDE DEF g
      <4> QED
        BY <3>1, <4>1, <4>2
    <3>2. CASE i # m + 1
      <4>1. i \in 0..m
        BY <3>2
      <4>2. g[i] = f[i]
        BY <3>2
      <4>3. f[i] = IF i = 0 THEN <<>> ELSE f[i - 1] \o b[i].data
        BY <2>1, <4>1
      <4>4. i # 0 => g[i - 1] = f[i - 1]
        BY <4>1
      <4> QED
        BY <4>2, <4>3, <4>4
    <3> QED
      BY <3>1, <3>2
  <2>3. g = [i \in 0..(m + 1) |-> IF i = 0 THEN <<>>
                                  ELSE g[i - 1] \o b[i].data]
    <3> HIDE DEF g
    <3>1. g = [i \in 0..(m + 1) |-> g[i]]
      BY DEF g
    <3> QED
      BY <2>2, <3>1
  <2> HIDE DEF g
  <2>4. \E h : h = [i \in 0..(m + 1) |-> IF i = 0 THEN <<>>
                                        ELSE h[i - 1] \o b[i].data]
    BY ONLY <2>3, Zenon
  <2>5. m + 1 \in Nat
    BY SMT
  <2> QED
    BY ONLY <2>4, <2>5, Zenon
<1> HIDE DEF S
<1>3. n \in S
  BY <1>1, <1>2, SetInduction
<1> QED
  BY <1>3 DEF S

\* Payload unfolds: nothing before the first slice, then slice by slice.
LEMMA PayloadDef ==
    ASSUME NEW b, Len(b) \in Nat
    PROVE  /\ Payload(b)[0] = <<>>
           /\ \A i \in 1..Len(b) :
                 Payload(b)[i] = Payload(b)[i - 1] \o b[i].data
<1> DEFINE pay == CHOOSE f : f = [i \in 0..Len(b) |-> IF i = 0 THEN <<>>
                                         ELSE f[i - 1] \o b[i].data]
<1>1. Payload(b) = pay
  BY DEF Payload
<1>2. pay = [i \in 0..Len(b) |-> IF i = 0 THEN <<>>
                                 ELSE pay[i - 1] \o b[i].data]
  BY PayloadExists
<1> HIDE DEF pay
<1>3. ASSUME NEW i \in 0..Len(b)
      PROVE  pay[i] = IF i = 0 THEN <<>> ELSE pay[i - 1] \o b[i].data
  <2>1. [k \in 0..Len(b) |-> IF k = 0 THEN <<>>
                             ELSE pay[k - 1] \o b[k].data][i] =
           IF i = 0 THEN <<>> ELSE pay[i - 1] \o b[i].data
    OBVIOUS
  <2> QED
    BY <1>2, <2>1, Zenon
<1>4. 0 \in 0..Len(b) /\ \A i \in 1..Len(b) : i \in 0..Len(b) /\ i # 0
  OBVIOUS
<1> QED
  BY <1>1, <1>3, <1>4

LEMMA SlicesType ==
    ASSUME NEW b \in Slices
    PROVE  /\ Len(b) \in Nat
           /\ \A i \in 1..Len(b) :
                 /\ b[i] \in Slice
                 /\ b[i].arch \in Name /\ b[i].status \in Byte
                 /\ b[i].codec \in Byte /\ b[i].rawLen \in U64
                 /\ b[i].data \in Seq(Cell)
<1>1. Len(b) \in Nat /\ \A i \in 1..Len(b) : b[i] \in Slice
  BY ElementOfSeq, LenProperties DEF Slices
<1>2. ASSUME NEW s \in Slice
      PROVE  /\ s.arch \in Name /\ s.status \in Byte /\ s.codec \in Byte
             /\ s.rawLen \in U64 /\ s.data \in Seq(Cell)
  BY DEF Slice
<1> QED
  BY <1>1, <1>2

\* Every prefix of the payload consists of cells of the slices.
LEMMA PayloadCells ==
    ASSUME NEW b \in Slices, NEW S, NEW k \in 0..Len(b),
           \A i \in 1..Len(b) : b[i].data \in Seq(S)
    PROVE  Payload(b)[k] \in Seq(S)
<1> DEFINE T == {i \in Nat : i <= Len(b) => Payload(b)[i] \in Seq(S)}
<1>1. Len(b) \in Nat
  BY SlicesType
<1>2. 0 \in T
  <2>1. Payload(b)[0] = <<>>
    BY <1>1, PayloadDef
  <2>2. <<>> \in Seq(S)
    OBVIOUS
  <2> QED
    BY <2>1, <2>2
<1>3. ASSUME NEW i \in Nat, i \in T
      PROVE  i + 1 \in T
  <2>1. SUFFICES ASSUME i + 1 <= Len(b)
                 PROVE  Payload(b)[i + 1] \in Seq(S)
    OBVIOUS
  <2>2. Payload(b)[i] \in Seq(S) /\ b[i + 1].data \in Seq(S)
    BY <1>1, <1>3, <2>1
  <2>3. Payload(b)[i + 1] = Payload(b)[i] \o b[i + 1].data
    <3>1. i + 1 \in 1..Len(b) /\ (i + 1) - 1 = i
      BY <1>1, <2>1
    <3>2. Payload(b)[i + 1] = Payload(b)[(i + 1) - 1] \o b[i + 1].data
      BY <1>1, <3>1, PayloadDef
    <3> QED
      BY <3>1, <3>2
  <2> QED
    BY <2>2, <2>3, ConcatProperties
<1> HIDE DEF T
<1>4. k \in T
  BY <1>2, <1>3, SetInduction
<1> QED
  BY <1>4 DEF T

LEMMA PayloadType ==
    ASSUME NEW b \in Slices, NEW k \in 0..Len(b)
    PROVE  Payload(b)[k] \in Seq(Cell)
BY SlicesType, PayloadCells

\* The length of the first i slices' data, and of the data of slice i.
Off(b, i) == Len(Payload(b)[i])
DataLen(b, i) == Len(b[i].data)

\* One more slice appends its data to the payload.
LEMMA PayloadStep ==
    ASSUME NEW b \in Slices, NEW i \in 1..Len(b)
    PROVE  /\ Off(b, i - 1) \in Nat /\ DataLen(b, i) \in Nat
           /\ Off(b, i) = Off(b, i - 1) + DataLen(b, i)
           /\ \A j \in 1..Off(b, i - 1) : Payload(b)[i][j] = Payload(b)[i - 1][j]
           /\ \A j \in 1..DataLen(b, i) :
                 Payload(b)[i][Off(b, i - 1) + j] = b[i].data[j]
<1>1. Len(b) \in Nat /\ i - 1 \in 0..Len(b)
  BY SlicesType
<1>2. Payload(b)[i] = Payload(b)[i - 1] \o b[i].data
  BY <1>1, PayloadDef
<1>3. Payload(b)[i - 1] \in Seq(Cell) /\ b[i].data \in Seq(Cell)
  BY <1>1, PayloadType, SlicesType
<1> DEFINE s == Payload(b)[i - 1]
           t == b[i].data
           u == Payload(b)[i]
<1>4. u = s \o t /\ s \in Seq(Cell) /\ t \in Seq(Cell)
  BY <1>2, <1>3
<1> HIDE DEF s, t, u
<1>5. /\ Len(s) \in Nat /\ Len(t) \in Nat /\ Len(u) = Len(s) + Len(t)
      /\ \A j \in 1..Len(s) : u[j] = s[j]
      /\ \A j \in 1..Len(t) : u[Len(s) + j] = t[j]
  BY <1>4, ConcatAt
<1> QED
  BY <1>5 DEF s, t, u, Off, DataLen

LEMMA OffType ==
    ASSUME NEW b \in Slices, NEW i \in 0..Len(b)
    PROVE  Off(b, i) \in Nat
<1>1. Payload(b)[i] \in Seq(Cell)
  BY PayloadType
<1> QED
  BY <1>1, LenProperties DEF Off

\* The payload up to a slice is a prefix of all the payload.
LEMMA PayloadPrefix ==
    ASSUME NEW b \in Slices, NEW k \in 0..Len(b)
    PROVE  /\ Off(b, k) <= Off(b, Len(b))
           /\ \A j \in 1..Off(b, k) :
                 Payload(b)[Len(b)][j] = Payload(b)[k][j]
<1> DEFINE S == {d \in Nat : k + d <= Len(b) =>
                    /\ Off(b, k) <= Off(b, k + d)
                    /\ \A j \in 1..Off(b, k) :
                          Payload(b)[k + d][j] = Payload(b)[k][j]}
<1>1. Len(b) \in Nat /\ k \in Nat
  BY SlicesType
<1>2. 0 \in S
  <2>1. k + 0 = k /\ Off(b, k) \in Nat
    BY <1>1, OffType
  <2> QED
    BY <2>1
<1>3. ASSUME NEW d \in Nat, d \in S
      PROVE  d + 1 \in S
  <2>1. SUFFICES ASSUME k + (d + 1) <= Len(b)
                 PROVE  /\ Off(b, k) <= Off(b, k + (d + 1))
                        /\ \A j \in 1..Off(b, k) :
                              Payload(b)[k + (d + 1)][j] = Payload(b)[k][j]
    OBVIOUS
  <2> DEFINE i == k + (d + 1)
  <2>2. i \in 1..Len(b) /\ i - 1 = k + d /\ k + d <= Len(b)
    BY <1>1, <2>1
  <2>3. /\ Off(b, k) <= Off(b, k + d)
        /\ \A j \in 1..Off(b, k) : Payload(b)[k + d][j] = Payload(b)[k][j]
    BY <1>3, <2>2
  <2> HIDE DEF S, i
  <2>4. /\ Off(b, i - 1) \in Nat /\ DataLen(b, i) \in Nat
        /\ Off(b, i) = Off(b, i - 1) + DataLen(b, i)
        /\ \A j \in 1..Off(b, i - 1) : Payload(b)[i][j] = Payload(b)[i - 1][j]
    BY <2>2, PayloadStep
  <2>5. Off(b, k) \in Nat
    BY OffType
  <2>6. /\ Off(b, k) <= Off(b, i)
        /\ \A j \in 1..Off(b, k) : Payload(b)[i][j] = Payload(b)[k][j]
    BY <2>2, <2>3, <2>4, <2>5
  <2> QED
    BY <2>6 DEF i
<1> HIDE DEF S
<1>4. Len(b) - k \in S
  BY <1>1, <1>2, <1>3, SetInduction
<1>5. k + (Len(b) - k) = Len(b)
  BY <1>1
<1> QED
  BY <1>1, <1>4, <1>5 DEF S

\* Each slice's data lies in the payload at the offset Encode records.
LEMMA PayloadHoldsSlices ==
    ASSUME NEW b \in Slices, NEW i \in 1..Len(b)
    PROVE  /\ Off(b, i - 1) \in Nat /\ DataLen(b, i) \in Nat
           /\ Off(b, Len(b)) \in Nat
           /\ Off(b, i - 1) + DataLen(b, i) <= Off(b, Len(b))
           /\ \A j \in 1..DataLen(b, i) :
                 Payload(b)[Len(b)][Off(b, i - 1) + j] = b[i].data[j]
<1>1. Len(b) \in Nat /\ i \in 0..Len(b) /\ Len(b) \in 0..Len(b)
  BY SlicesType
<1>2. /\ Off(b, i - 1) \in Nat /\ DataLen(b, i) \in Nat
      /\ Off(b, i) = Off(b, i - 1) + DataLen(b, i)
      /\ \A j \in 1..DataLen(b, i) :
            Payload(b)[i][Off(b, i - 1) + j] = b[i].data[j]
  BY PayloadStep
<1>3. /\ Off(b, i) <= Off(b, Len(b))
      /\ \A j \in 1..Off(b, i) : Payload(b)[Len(b)][j] = Payload(b)[i][j]
  BY <1>1, PayloadPrefix
<1>4. Off(b, Len(b)) \in Nat
  BY <1>1, OffType
<1>5. ASSUME NEW j \in 1..DataLen(b, i)
      PROVE  Payload(b)[Len(b)][Off(b, i - 1) + j] = b[i].data[j]
  <2>1. Off(b, i - 1) + j \in 1..Off(b, i)
    BY <1>2
  <2> QED
    BY <1>2, <1>3, <2>1
<1> QED
  BY <1>2, <1>3, <1>4, <1>5

-----------------------------------------------------------------------------
(* The encoded blob.                                                       *)

\* The blobs the format can hold: Encode accepts them, their size is an int.
Encodable(b) == b \in Slices /\ EncodeOK(b) /\ EncodedLen(b) <= MaxInt

LEMMA ConcatFour ==
    ASSUME NEW S, NEW p \in Seq(S), NEW q \in Seq(S),
           NEW r \in Seq(S), NEW t \in Seq(S), NEW w, w = p \o q \o r \o t
    PROVE  /\ w \in Seq(S)
           /\ Len(w) = Len(p) + Len(q) + Len(r) + Len(t)
           /\ \A j \in 1..Len(p) : w[j] = p[j]
           /\ \A j \in 1..Len(q) : w[Len(p) + j] = q[j]
           /\ \A j \in 1..Len(r) : w[Len(p) + Len(q) + j] = r[j]
           /\ \A j \in 1..Len(t) : w[Len(p) + Len(q) + Len(r) + j] = t[j]
<1> DEFINE u == p \o q
           v == u \o r
<1>0. w = v \o t /\ v = u \o r /\ u = p \o q
  OBVIOUS
<1> HIDE DEF u, v
<1>1. /\ u \in Seq(S) /\ Len(u) = Len(p) + Len(q)
      /\ Len(p) \in Nat /\ Len(q) \in Nat
      /\ \A j \in 1..Len(p) : u[j] = p[j]
      /\ \A j \in 1..Len(q) : u[Len(p) + j] = q[j]
  BY <1>0, ConcatAt
<1>2. /\ v \in Seq(S) /\ Len(v) = Len(u) + Len(r) /\ Len(r) \in Nat
      /\ \A j \in 1..Len(u) : v[j] = u[j]
      /\ \A j \in 1..Len(r) : v[Len(u) + j] = r[j]
  <2>1. u \in Seq(S)
    BY <1>1
  <2> QED
    BY <1>0, <2>1, ConcatAt
<1>3. /\ w \in Seq(S) /\ Len(w) = Len(v) + Len(t) /\ Len(t) \in Nat
      /\ \A j \in 1..Len(v) : w[j] = v[j]
      /\ \A j \in 1..Len(t) : w[Len(v) + j] = t[j]
  <2>1. v \in Seq(S)
    BY <1>2
  <2> QED
    BY <1>0, <2>1, ConcatAt
<1>4. \A j \in 1..Len(p) : j \in 1..Len(u) /\ j \in 1..Len(v)
  BY <1>1, <1>2
<1>5. \A j \in 1..Len(q) : Len(p) + j \in 1..Len(u) /\ Len(p) + j \in 1..Len(v)
  BY <1>1, <1>2
<1>6. \A j \in 1..Len(r) : Len(u) + j \in 1..Len(v)
  BY <1>1, <1>2
<1>7. /\ \A j \in 1..Len(p) : w[j] = p[j]
      /\ \A j \in 1..Len(q) : w[Len(p) + j] = q[j]
      /\ \A j \in 1..Len(r) : w[Len(u) + j] = r[j]
  BY <1>1, <1>2, <1>3, <1>4, <1>5, <1>6
<1>8. Len(w) = Len(p) + Len(q) + Len(r) + Len(t)
  BY <1>1, <1>2, <1>3
<1> QED
  BY <1>1, <1>2, <1>3, <1>7, <1>8

LEMMA SmallMod ==
    ASSUME NEW u \in Nat, NEW k \in Nat, u < k
    PROVE  u % k = u
OBVIOUS

\* A length that fits a u64 is written as it is.
LEMMA SmallUint64 == \A u \in U64 : Uint64(u) = u
<1> SUFFICES ASSUME NEW u \in U64
             PROVE  Uint64(u) = u
  OBVIOUS
<1>1. u \in Nat /\ MaxWord + 1 \in Nat /\ u < MaxWord + 1
  BY FormatAssumption DEF U64
<1> QED
  BY <1>1, SmallMod DEF Uint64

\* An entry of an encodable blob is a field of the format.
LEMMA EntryType ==
    ASSUME NEW b, Encodable(b), NEW i \in 1..Len(b)
    PROVE  /\ Entry(b, i) \in EntryField
           /\ Entry(b, i).name = b[i].arch
           /\ Entry(b, i).status = b[i].status
           /\ Entry(b, i).codec = b[i].codec
           /\ Entry(b, i).offset = Off(b, i - 1)
           /\ Entry(b, i).length = DataLen(b, i)
           /\ Entry(b, i).rawLen = b[i].rawLen
<1>1. /\ b \in Slices /\ EncodedLen(b) <= MaxInt
      /\ EncodedLen(b) = HeaderLen + Len(b) + Off(b, Len(b)) + TrailerLen
  BY DEF Encodable, EncodedLen, Off
<1>2. /\ Len(b) \in Nat /\ b[i].arch \in Name /\ b[i].status \in Byte
      /\ b[i].codec \in Byte /\ b[i].rawLen \in U64
  BY <1>1, SlicesType
<1>3. /\ Off(b, i - 1) \in Nat /\ DataLen(b, i) \in Nat
      /\ Off(b, Len(b)) \in Nat
      /\ Off(b, i - 1) + DataLen(b, i) <= Off(b, Len(b))
  BY <1>1, PayloadHoldsSlices
<1>4. Off(b, i - 1) \in U64 /\ DataLen(b, i) \in U64
  BY <1>1, <1>2, <1>3, FormatAssumption DEF U64, HeaderLen, TrailerLen
<1>5. Entry(b, i) = [name |-> b[i].arch, status |-> b[i].status,
                     codec |-> b[i].codec, offset |-> Off(b, i - 1),
                     length |-> DataLen(b, i), rawLen |-> b[i].rawLen]
  <2>1. Uint64(Off(b, i - 1)) = Off(b, i - 1) /\ Uint64(DataLen(b, i)) = DataLen(b, i)
    BY <1>4, SmallUint64
  <2> QED
    BY <2>1 DEF Entry, Off, DataLen
<1> QED
  BY <1>2, <1>4, <1>5 DEF EntryField

\* The layout: header, one entry per slice, the payload, the trailer.
LEMMA EncodeShape ==
    ASSUME NEW b, Encodable(b)
    PROVE  /\ Len(b) \in 0..MaxCount
           /\ Len(b) \in Nat
           /\ Off(b, Len(b)) \in Nat
           /\ EncodedLen(b) = 4 + Len(b) + Off(b, Len(b))
           /\ EncodedLen(b) \in U64
           /\ Encode(b) \in Seq(Cell)
           /\ Len(Encode(b)) = EncodedLen(b)
           /\ Encode(b)[1] = Magic
           /\ Encode(b)[2] = [count |-> Len(b)]
           /\ \A i \in 1..Len(b) : Encode(b)[2 + i] = Entry(b, i)
           /\ \A j \in 1..Off(b, Len(b)) :
                 Encode(b)[2 + Len(b) + j] = Payload(b)[Len(b)][j]
           /\ Encode(b)[EncodedLen(b) - 1] = [total |-> EncodedLen(b)]
           /\ Encode(b)[EncodedLen(b)] = TrailerMagic
<1> DEFINE n == Len(b)
           w == Off(b, Len(b))
           total == EncodedLen(b)
           p == Header(b)
           q == Index(b)
           r == Payload(b)[Len(b)]
           t == Trailer(b)
           E == Encode(b)
<1>1. /\ b \in Slices /\ n \in Nat /\ n <= MaxCount /\ MaxCount \in Nat
      /\ w \in Nat /\ total = 4 + n + w /\ total <= MaxInt /\ MaxInt \in Nat
      /\ MaxWord \in Nat /\ MaxWord >= 2 * MaxInt + 1
  <2>1. b \in Slices /\ n <= MaxCount /\ total <= MaxInt
    BY DEF Encodable, EncodeOK
  <2>2. n \in Nat /\ n \in 0..n
    BY <2>1, SlicesType
  <2>3. w \in Nat
    BY <2>1, <2>2, OffType
  <2>4. total = 4 + n + w
    <3>1. total = 2 + n + w + 2
      BY DEF EncodedLen, HeaderLen, TrailerLen, Off
    <3> HIDE DEF n, w, total
    <3> QED
      BY <2>2, <2>3, <3>1
  <2> QED
    BY <2>1, <2>2, <2>3, <2>4, FormatAssumption
<1>2. total \in U64 /\ n \in 0..MaxCount
  BY <1>1 DEF U64
<1>3. Magic \in Cell /\ TrailerMagic \in Cell
  BY FormatAssumption DEF Cell
<1>4. p \in Seq(Cell) /\ Len(p) = 2 /\ p[1] = Magic /\ p[2] = [count |-> n]
  <2>1. [count |-> n] \in Cell
    BY <1>2 DEF CountField, Cell
  <2> QED
    BY <1>3, <2>1 DEF Header
<1>5. q \in Seq(Cell) /\ Len(q) = n /\ \A i \in 1..n : q[i] = Entry(b, i)
  <2>1. \A i \in 1..n : Entry(b, i) \in Cell
    BY EntryType DEF Cell
  <2>2. q = [i \in 1..n |-> Entry(b, i)]
    BY DEF Index
  <2> HIDE DEF q, n
  <2> QED
    BY <1>1, <2>1, <2>2
<1>6. r \in Seq(Cell) /\ Len(r) = w
  <2>1. r \in Seq(Cell)
    BY <1>1, PayloadType
  <2> QED
    BY <2>1 DEF Off
<1>7. t \in Seq(Cell) /\ Len(t) = 2 /\ t[1] = [total |-> total]
                      /\ t[2] = TrailerMagic
  <2>1. [total |-> total] \in Cell
    BY <1>2 DEF TotalField, Cell
  <2>2. Uint64(total) = total
    BY <1>2, SmallUint64 DEF U64
  <2> QED
    BY <1>3, <2>1, <2>2 DEF Trailer
<1>8. E = p \o q \o r \o t
  BY DEF Encode
<1> HIDE DEF n, w, total, p, q, r, t, E
<1>7a. p \in Seq(Cell) /\ q \in Seq(Cell) /\ r \in Seq(Cell) /\ t \in Seq(Cell)
  BY <1>4, <1>5, <1>6, <1>7
<1>9. /\ E \in Seq(Cell)
      /\ Len(E) = Len(p) + Len(q) + Len(r) + Len(t)
      /\ \A j \in 1..Len(p) : E[j] = p[j]
      /\ \A j \in 1..Len(q) : E[Len(p) + j] = q[j]
      /\ \A j \in 1..Len(r) : E[Len(p) + Len(q) + j] = r[j]
      /\ \A j \in 1..Len(t) : E[Len(p) + Len(q) + Len(r) + j] = t[j]
  BY <1>7a, <1>8, ConcatFour
<1>10. Len(E) = total
  BY <1>1, <1>4, <1>5, <1>6, <1>7, <1>9
<1>11. E[1] = Magic /\ E[2] = [count |-> n]
  BY <1>4, <1>9
<1>12. \A i \in 1..n : E[2 + i] = Entry(b, i)
  BY <1>4, <1>5, <1>9
<1>13. \A j \in 1..w : E[2 + n + j] = r[j]
  BY <1>4, <1>5, <1>6, <1>9
<1>14. E[total - 1] = [total |-> total] /\ E[total] = TrailerMagic
  <2>1. Len(p) + Len(q) + Len(r) + 1 = total - 1
    BY <1>1, <1>4, <1>5, <1>6
  <2>2. Len(p) + Len(q) + Len(r) + 2 = total
    BY <1>1, <1>4, <1>5, <1>6
  <2>3. /\ E[Len(p) + Len(q) + Len(r) + 1] = t[1]
        /\ E[Len(p) + Len(q) + Len(r) + 2] = t[2]
    BY <1>7, <1>9
  <2> QED
    BY <1>7, <2>1, <2>2, <2>3
<1> QED
  BY <1>1, <1>2, <1>9, <1>10, <1>11, <1>12, <1>13, <1>14
     DEF n, w, total, r, E

-----------------------------------------------------------------------------
(* Decode undoes Encode.                                                   *)

\* Sums that fit an int neither truncate nor wrap.
LEMMA IntExact ==
    ASSUME NEW x \in Nat, x <= MaxInt
    PROVE  IntOf(x) = x /\ Wrap(x) = x
BY FormatAssumption DEF IntOf, Wrap

\* Decode finds the data of slice i where Encode put it.
LEMMA EntryLocates ==
    ASSUME NEW b, Encodable(b), NEW i \in 1..Len(b)
    PROVE  LET E == Encode(b)
               e == Entry(b, i)
           IN  /\ PayloadStart(E) = 2 + Len(b)
               /\ Start(E, e) = 2 + Len(b) + Off(b, i - 1)
               /\ End(E, e) = 2 + Len(b) + Off(b, i - 1) + DataLen(b, i)
               /\ EntryOK(E, e)
               /\ SliceAt(E, e) = b[i]
<1> DEFINE E == Encode(b)
           e == Entry(b, i)
           n == Len(b)
           o == Off(b, i - 1)
           d == DataLen(b, i)
           w == Off(b, Len(b))
<1>1. /\ b \in Slices /\ n \in Nat /\ b[i] \in Slice /\ b[i].data \in Seq(Cell)
  BY SlicesType DEF Encodable
<1>2. /\ o \in Nat /\ d \in Nat /\ w \in Nat /\ o + d <= w
      /\ \A j \in 1..d : Payload(b)[n][o + j] = b[i].data[j]
  BY <1>1, PayloadHoldsSlices
<1>3. /\ Len(E) = 4 + n + w /\ E[2] = [count |-> n] /\ E \in Seq(Cell)
      /\ \A j \in 1..w : E[2 + n + j] = Payload(b)[n][j]
  BY EncodeShape
<1>4. 4 + n + w <= MaxInt
  BY EncodeShape DEF Encodable
<1>5. /\ e \in EntryField /\ e.offset = o /\ e.length = d
      /\ e.name = b[i].arch /\ e.status = b[i].status
      /\ e.codec = b[i].codec /\ e.rawLen = b[i].rawLen
  BY EntryType
<1> HIDE DEF E, e, n, o, d, w
<1>6. PayloadStart(E) = 2 + n /\ PayloadEnd(E) = 2 + n + w
  BY <1>1, <1>2, <1>3 DEF PayloadStart, PayloadEnd, HeaderLen, TrailerLen
<1>7. Start(E, e) = 2 + n + o
  <2>1. IntOf(o) = o /\ Wrap(2 + n + o) = 2 + n + o
    BY <1>1, <1>2, <1>4, IntExact, FormatAssumption
  <2> QED
    BY <1>5, <1>6, <2>1 DEF Start
<1>8. End(E, e) = 2 + n + o + d
  <2>1. IntOf(d) = d /\ Wrap(2 + n + o + d) = 2 + n + o + d
    BY <1>1, <1>2, <1>4, IntExact, FormatAssumption
  <2> QED
    BY <1>5, <1>7, <2>1 DEF End
<1>9. EntryOK(E, e)
  BY <1>1, <1>2, <1>5, <1>6, <1>7, <1>8 DEF EntryOK
<1>10. SubSeq(E, 2 + n + o + 1, 2 + n + o + d) = b[i].data
  <2> DEFINE m == 2 + n + o
             t == b[i].data
  <2>1. m \in Nat /\ m + d <= Len(E) /\ Len(t) = d
    <3>1. Len(t) = d
      BY DEF d, DataLen
    <3>2. m \in Nat /\ m + d <= Len(E)
      BY <1>1, <1>2, <1>3, SMTT(30)
    <3> QED
      BY <3>1, <3>2
  <2>2. \A j \in 1..d : E[m + j] = t[j]
    <3>1. ASSUME NEW j \in 1..d
          PROVE  E[m + j] = t[j]
      <4>1. o + j \in 1..w /\ 2 + n + (o + j) = m + j
        BY <1>1, <1>2
      <4>2. E[2 + n + (o + j)] = Payload(b)[n][o + j]
        BY <1>3, <4>1
      <4> QED
        BY <1>2, <4>1, <4>2
    <3> QED
      BY <3>1
  <2>3. t \in Seq(Cell)
    BY <1>1
  <2> HIDE DEF m, t
  <2>4. SubSeq(E, m + 1, m + Len(t)) = t
    BY <1>3, <2>1, <2>2, <2>3, SubSeqIs
  <2> QED
    BY <2>1, <2>4 DEF m, t
<1>11. SliceAt(E, e) = b[i]
  <2>1. SliceAt(E, e) = [arch |-> b[i].arch, status |-> b[i].status,
                         codec |-> b[i].codec, rawLen |-> b[i].rawLen,
                         data |-> b[i].data]
    BY <1>5, <1>7, <1>8, <1>10 DEF SliceAt
  <2> QED
    BY <1>1, <2>1 DEF Slice
<1> QED
  BY <1>6, <1>7, <1>8, <1>9, <1>11 DEF E, e, n, o, d

\* Round trip: Decode accepts every encoded blob and returns the blob.
THEOREM RoundTrip ==
    ASSUME NEW b, Encodable(b)
    PROVE  DecodeOK(Encode(b)) /\ Decode(Encode(b)) = b
<1> DEFINE E == Encode(b)
           n == Len(b)
           w == Off(b, Len(b))
<1>1. /\ n \in 0..MaxCount /\ w \in Nat /\ Len(E) = 4 + n + w
      /\ Len(E) \in U64
      /\ E[1] = Magic /\ E[2] = [count |-> n]
      /\ \A i \in 1..n : E[2 + i] = Entry(b, i)
      /\ E[Len(E) - 1] = [total |-> Len(E)] /\ E[Len(E)] = TrailerMagic
  BY EncodeShape
<1>2. \A i \in 1..n : EntryOK(E, E[2 + i]) /\ SliceAt(E, E[2 + i]) = b[i]
  BY <1>1, EntryLocates
<1>3. b \in Seq(Slice) /\ n \in Nat
  BY SlicesType DEF Encodable, Slices
<1>4. b = [i \in 1..n |-> b[i]]
  BY <1>3
<1> HIDE DEF E, n, w
<1>5. DecodeOK(E)
  <2>1. E[2] \in CountField /\ E[2].count = n
    BY <1>1 DEF CountField
  <2>2. PayloadStart(E) = 2 + n /\ PayloadEnd(E) = 2 + n + w
    BY <1>1, <1>3, <2>1 DEF PayloadStart, PayloadEnd, HeaderLen, TrailerLen
  <2> QED
    BY <1>1, <1>2, <1>3, <2>1, <2>2 DEF DecodeOK, HeaderLen, TrailerLen
<1>6. Decode(E) = [i \in 1..n |-> b[i]]
  BY <1>1, <1>2 DEF Decode, HeaderLen
<1> QED
  BY <1>4, <1>5, <1>6 DEF E

-----------------------------------------------------------------------------
(* The blob at the end of an image.                                        *)

\* SplitCanonical finds the blob behind any head, and gives both back.
LEMMA SplitAny ==
    ASSUME NEW b, Encodable(b), NEW h \in Seq(Cell),
           NEW image, image = BuildCanonical(h, b)
    PROVE  /\ SplitOK(image)
           /\ HeadOf(image) = h
           /\ TailOf(image) = Encode(b)
           /\ BlobOf(image) = b
<1> DEFINE E == Encode(b)
           L == Len(h)
           T == Len(Encode(b))
<1>1. /\ T \in Nat /\ T >= 4 /\ T \in U64 /\ E \in Seq(Cell)
      /\ E[T - 1] = [total |-> T] /\ E[T] = TrailerMagic
  <2>1. /\ Len(b) \in Nat /\ Off(b, Len(b)) \in Nat
        /\ T = 4 + Len(b) + Off(b, Len(b)) /\ T \in U64 /\ E \in Seq(Cell)
        /\ E[T - 1] = [total |-> T] /\ E[T] = TrailerMagic
    <3>1. T = EncodedLen(b) /\ MaxCount \in Nat
      BY EncodeShape, FormatAssumption
    <3> HIDE DEF E, T
    <3> QED
      BY <3>1, EncodeShape DEF E
  <2> HIDE DEF E, T
  <2> QED
    BY <2>1
<1>3. image = h \o E
  BY DEF BuildCanonical
<1>t. T = Len(E)
  OBVIOUS
<1> HIDE DEF E, T, L
<1>4. /\ image \in Seq(Cell) /\ L \in Nat /\ Len(image) = L + T
      /\ \A j \in 1..L : image[j] = h[j]
      /\ \A j \in 1..T : image[L + j] = E[j]
  <2>1. /\ image \in Seq(Cell) /\ Len(h) \in Nat
        /\ Len(image) = Len(h) + Len(E)
        /\ \A j \in 1..Len(h) : image[j] = h[j]
        /\ \A j \in 1..Len(E) : image[Len(h) + j] = E[j]
    BY <1>1, <1>3, ConcatAt
  <2> QED
    BY <1>t, <2>1 DEF L
<1>5. /\ image[Len(image)] = TrailerMagic
      /\ image[Len(image) - 1] = [total |-> T]
  <2>1. T \in 1..T /\ T - 1 \in 1..T /\ Len(image) - 1 = L + (T - 1)
    BY <1>1, <1>4
  <2> QED
    BY <1>1, <1>4, <2>1
<1>6. BlobLen(image) = T
  BY <1>5 DEF BlobLen
<1>7. TailOf(image) = E
  <2>1. SubSeq(image, L + 1, L + Len(E)) = E
    <3>1. /\ L + Len(E) <= Len(image)
          /\ \A j \in 1..Len(E) : image[L + j] = E[j]
      BY <1>1, <1>4, <1>t
    <3> QED
      BY <1>1, <1>4, <3>1, SubSeqIs
  <2>2. Len(image) - T + 1 = L + 1
    BY <1>1, <1>4
  <2> QED
    BY <1>4, <1>6, <1>t, <2>1, <2>2 DEF TailOf
<1>8. HeadOf(image) = h
  <2>1. SubSeq(image, 0 + 1, 0 + Len(h)) = h
    <3>1. /\ 0 \in Nat /\ 0 + Len(h) <= Len(image)
          /\ \A j \in 1..Len(h) : image[0 + j] = h[j]
      BY <1>1, <1>4 DEF L
    <3> QED
      BY <1>4, <3>1, SubSeqIs
  <2>2. Len(image) - T = L /\ 0 + Len(h) = L /\ 0 + 1 = 1
    BY <1>1, <1>4 DEF L
  <2> QED
    BY <1>6, <2>1, <2>2 DEF HeadOf
<1>9. SplitOK(image)
  <2>1. DecodeOK(TailOf(image))
    BY <1>7, RoundTrip DEF E
  <2>2. [total |-> T] \in TotalField
    BY <1>1 DEF TotalField
  <2> QED
    BY <1>1, <1>4, <1>5, <1>6, <2>1, <2>2 DEF SplitOK, TrailerLen
<1> QED
  BY <1>7, <1>8, <1>9, RoundTrip DEF BlobOf, E

\* The same behind a native.
THEOREM SplitLaw ==
    ASSUME NEW b, Encodable(b), NEW h \in Bytes,
           NEW image, image = BuildCanonical(h, b)
    PROVE  /\ SplitOK(image)
           /\ HeadOf(image) = h
           /\ TailOf(image) = Encode(b)
           /\ BlobOf(image) = b
<1>1. h \in Seq(Cell)
  BY SeqMonotonic DEF Bytes, Cell
<1> QED
  BY <1>1, SplitAny

\* Only the trailer holds a total length.
LEMMA OneTotal ==
    ASSUME NEW b, Encodable(b), \A i \in 1..Len(b) : b[i].data \in Bytes,
           NEW j \in 1..(EncodedLen(b) - 2)
    PROVE  Encode(b)[j] \notin TotalField
<1> DEFINE E == Encode(b)
           n == Len(b)
           w == Off(b, Len(b))
<1>1. /\ n \in Nat /\ w \in Nat /\ EncodedLen(b) = 4 + n + w
      /\ E[1] = Magic /\ E[2] = [count |-> n]
      /\ \A i \in 1..n : E[2 + i] = Entry(b, i)
      /\ \A i \in 1..w : E[2 + n + i] = Payload(b)[n][i]
  BY EncodeShape, Zenon
<1>2. \A x \in Word : x \notin TotalField
  BY FormatAssumption
<1>3. CASE j = 1
  BY <1>1, <1>2, <1>3, FormatAssumption
<1>4. CASE j = 2
  BY <1>1, <1>4 DEF TotalField
<1>5. CASE j \in 3..(2 + n)
  <2>1. j - 2 \in 1..n /\ 2 + (j - 2) = j
    BY <1>1, <1>5
  <2>2. E[j] = Entry(b, j - 2)
    BY <1>1, <2>1
  <2> QED
    BY <2>2 DEF Entry, TotalField
<1>6. CASE j \in (3 + n)..(2 + n + w)
  <2>1. j - 2 - n \in 1..w /\ 2 + n + (j - 2 - n) = j
    BY <1>1, <1>6
  <2>2. E[j] = Payload(b)[n][j - 2 - n]
    BY <1>1, <2>1
  <2>3. Payload(b)[n] \in Seq(Word) /\ w = Len(Payload(b)[n])
    <3>1. /\ b \in Slices /\ n \in 0..n
          /\ \A i \in 1..n : b[i].data \in Seq(Word)
      BY <1>1 DEF Encodable, Bytes
    <3> QED
      BY <3>1, PayloadCells DEF Off
  <2>4. Payload(b)[n][j - 2 - n] \in Word
    BY <2>1, <2>3, ElementOfSeq
  <2> QED
    BY <1>2, <2>2, <2>4
<1> HIDE DEF n, w
<1>7. j = 1 \/ j = 2 \/ j \in 3..(2 + n) \/ j \in (3 + n)..(2 + n + w)
  BY <1>1
<1> QED
  BY <1>3, <1>4, <1>5, <1>6, <1>7

\* A torn image has no blob: whatever its native holds, the trailer's magic
\* included, a proper prefix of an image cannot be split.
THEOREM TornLaw ==
    ASSUME NEW b, Encodable(b), \A i \in 1..Len(b) : b[i].data \in Bytes,
           NEW h \in Bytes, NEW full, full = BuildCanonical(h, b),
           NEW k \in Nat, k < Len(full)
    PROVE  ~SplitOK(SubSeq(full, 1, k))
<1> DEFINE E == Encode(b)
           L == Len(h)
           T == EncodedLen(b)
           image == SubSeq(full, 1, k)
<1>1. E \in Seq(Cell) /\ Len(E) = T
  BY EncodeShape
<1>2. h \in Seq(Cell)
  BY SeqMonotonic DEF Bytes, Cell
<1>h. h \in Seq(Word)
  BY DEF Bytes
<1>3. full = h \o E
  BY DEF BuildCanonical
<1>w. \A x \in Word : x \notin TotalField
  BY FormatAssumption
<1>o. \A j \in 1..(T - 2) : E[j] \notin TotalField
  BY OneTotal
<1>k. k < Len(full)
  OBVIOUS
<1>l. L = Len(h)
  OBVIOUS
<1> HIDE DEF E, T, L
<1>4. /\ full \in Seq(Cell) /\ L \in Nat /\ T \in Nat /\ Len(full) = L + T
      /\ \A j \in 1..L : full[j] = h[j]
      /\ \A j \in 1..T : full[L + j] = E[j]
  <2>1. /\ full \in Seq(Cell) /\ Len(h) \in Nat /\ Len(E) \in Nat
        /\ Len(full) = Len(h) + Len(E)
        /\ \A j \in 1..Len(h) : full[j] = h[j]
        /\ \A j \in 1..Len(E) : full[Len(h) + j] = E[j]
    <3>1. E \in Seq(Cell)
      BY <1>1
    <3> QED
      BY <1>2, <1>3, <3>1, ConcatAt
  <2> QED
    BY <1>1, <1>l, <2>1
<1>5. SUFFICES ASSUME SplitOK(image)
               PROVE  FALSE
  OBVIOUS
<1>6. Len(image) = k /\ \A j \in 1..k : image[j] = full[j]
  <2>1. \A j \in 1..k : full[j] \in Cell
    BY <1>4, <1>k, ElementOfSeq
  <2>2. /\ Len(SubSeq(full, 1, k)) = IF 1 <= k THEN k - 1 + 1 ELSE 0
        /\ \A j \in 1..(k - 1 + 1) : SubSeq(full, 1, k)[j] = full[1 + j - 1]
    BY <2>1, SubSeqProperties
  <2>3. k - 1 + 1 = k /\ \A j \in 1..k : 1 + j - 1 = j
    OBVIOUS
  <2> QED
    BY <2>2, <2>3
<1> HIDE DEF image
<1>7. k >= 2 /\ full[k - 1] \in TotalField
  <2>1. k >= 2 /\ image[k - 1] \in TotalField
    BY <1>5, <1>6 DEF SplitOK, TrailerLen
  <2> QED
    BY <1>6, <2>1
<1>8. CASE k - 1 <= L
  <2>1. k - 1 \in 1..L /\ full[k - 1] = h[k - 1]
    BY <1>4, <1>7, <1>8
  <2>2. h[k - 1] \in Word
    BY <1>h, <1>l, <2>1, ElementOfSeq
  <2> QED
    BY <1>7, <1>w, <2>1, <2>2
<1>9. CASE k - 1 > L
  <2>1. k - 1 - L \in 1..(T - 2) /\ k - 1 - L \in 1..T /\ L + (k - 1 - L) = k - 1
    BY <1>4, <1>k, <1>9
  <2>2. full[k - 1] = E[k - 1 - L]
    BY <1>4, <2>1
  <2> QED
    BY <1>7, <1>o, <2>1, <2>2
<1> QED
  BY <1>4, <1>8, <1>9

-----------------------------------------------------------------------------
(* Damaged images: whatever the checks let through is well formed.         *)

LEMMA ModType ==
    ASSUME NEW i \in Nat, NEW k \in Nat, k > 0
    PROVE  i % k \in 0..(k - 1)
OBVIOUS

LEMMA IntTypes ==
    /\ \A i \in Nat : Uint64(i) \in U64
    /\ \A u \in U64 : IntOf(u) \in Int
    /\ \A i \in Int : Wrap(i) \in Int
<1>1. MaxInt \in Nat /\ MaxWord \in Nat
  BY FormatAssumption
<1>2. ASSUME NEW i \in Nat
      PROVE  Uint64(i) \in U64
  <2>1. i % (MaxWord + 1) \in 0..((MaxWord + 1) - 1)
    BY <1>1, ModType
  <2>2. (MaxWord + 1) - 1 = MaxWord
    BY <1>1
  <2> QED
    BY <1>1, <2>1, <2>2 DEF Uint64, U64
<1>3. ASSUME NEW u \in U64
      PROVE  IntOf(u) \in Int
  <2>1. u \in Nat /\ 2 * (MaxInt + 1) \in Nat /\ 2 * (MaxInt + 1) > 0
    BY <1>1 DEF U64
  <2>2. u % (2 * (MaxInt + 1)) \in 0..(2 * (MaxInt + 1) - 1)
    BY <2>1, ModType
  <2>3. u % (2 * (MaxInt + 1)) \in Int
    BY <2>1, <2>2
  <2> DEFINE low == u % (2 * (MaxInt + 1))
  <2> HIDE DEF low
  <2>4. IntOf(u) = IF u <= MaxInt THEN u
                   ELSE IF low <= MaxInt THEN low ELSE low - 2 * (MaxInt + 1)
    BY DEF IntOf, low
  <2>5. low \in Int
    BY <2>3 DEF low
  <2> QED
    BY <1>1, <2>1, <2>4, <2>5
<1>4. \A i \in Int : Wrap(i) \in Int
  BY <1>1 DEF Wrap
<1> QED
  BY <1>2, <1>3, <1>4

\* Every slice an accepted blob decodes to has data within the blob.
LEMMA DecodeType ==
    ASSUME NEW data \in Seq(Cell), DecodeOK(data)
    PROVE  Decode(data) \in Slices
<1> DEFINE n == data[2].count
<1>1. n \in Nat /\ Len(data) \in Nat
  <2>1. data[2] \in CountField
    BY DEF DecodeOK
  <2>2. n \in 0..MaxCount
    BY <2>1 DEF CountField
  <2> QED
    BY <2>2, LenProperties, FormatAssumption
<1>2. PayloadStart(data) \in Nat /\ PayloadEnd(data) \in Int
      /\ PayloadEnd(data) <= Len(data)
  BY <1>1 DEF PayloadStart, PayloadEnd, HeaderLen, TrailerLen
<1>3. ASSUME NEW i \in 1..n
      PROVE  SliceAt(data, data[HeaderLen + i]) \in Slice
  <2> DEFINE e == data[HeaderLen + i]
             x == Start(data, e)
             y == End(data, e)
  <2>1. EntryOK(data, e)
    BY DEF DecodeOK
  <2>2. e \in EntryField
    BY <2>1 DEF EntryOK
  <2> HIDE DEF e
  <2>3. /\ e.name \in Name /\ e.status \in Byte /\ e.codec \in Byte
        /\ e.offset \in U64 /\ e.length \in U64 /\ e.rawLen \in U64
    BY <2>2 DEF EntryField
  <2>4. x \in Int /\ y \in Int
    <3> DEFINE p == PayloadStart(data)
               f == IntOf(e.offset)
               g == IntOf(e.length)
    <3>1. p \in Int /\ f \in Int /\ g \in Int
      <4>1. f \in Int /\ g \in Int
        BY ONLY <2>3, IntTypes
      <4> QED
        BY <1>2, <4>1
    <3>2. x = Wrap(p + f) /\ y = Wrap(x + g)
      BY DEF Start, End
    <3> HIDE DEF p, f, g, x, y
    <3>3. x \in Int
      <4>1. p + f \in Int
        BY <3>1
      <4> QED
        BY <3>2, <4>1, IntTypes
    <3>4. x + g \in Int
      BY <3>1, <3>3
    <3> QED
      BY <3>2, <3>3, <3>4, IntTypes
  <2>5. x >= 0 /\ y <= Len(data)
    BY <1>1, <1>2, <2>1, <2>4 DEF EntryOK
  <2> HIDE DEF x, y
  <2>6. \A j \in (x + 1)..y : data[j] \in Cell
    BY <1>1, <2>4, <2>5, ElementOfSeq
  <2>7. SubSeq(data, x + 1, y) \in Seq(Cell)
    BY <2>4, <2>6, SubSeqProperties
  <2>8. SliceAt(data, e) =
            [arch |-> e.name, status |-> e.status, codec |-> e.codec,
             rawLen |-> e.rawLen, data |-> SubSeq(data, x + 1, y)]
    BY DEF SliceAt, x, y
  <2>9. SliceAt(data, e) \in Slice
    BY <2>3, <2>7, <2>8 DEF Slice
  <2> QED
    BY <2>9 DEF e
<1>4. Decode(data) = [i \in 1..n |-> SliceAt(data, data[HeaderLen + i])]
  BY DEF Decode
<1> HIDE DEF n
<1>5. Decode(data) \in [1..n -> Slice]
  BY <1>3, <1>4
<1> QED
  BY <1>1, <1>5 DEF Slices

\* Encode writes cells of the format, whatever the size of the blob.
LEMMA EncodeType ==
    ASSUME NEW b \in Slices, EncodeOK(b)
    PROVE  Encode(b) \in Seq(Cell)
<1> DEFINE n == Len(b)
           q == Index(b)
           r == Payload(b)[Len(b)]
<1>1. n \in Nat /\ n \in 0..n /\ n \in 0..MaxCount /\ Off(b, n) \in Nat
  BY SlicesType, OffType, FormatAssumption DEF EncodeOK
<1>2. Magic \in Cell /\ TrailerMagic \in Cell
  BY FormatAssumption DEF Cell
<1>3. Header(b) \in Seq(Cell)
  <2>1. [count |-> n] \in Cell
    BY <1>1 DEF CountField, Cell
  <2> QED
    BY <1>2, <2>1 DEF Header
<1>4. q \in Seq(Cell)
  <2>1. \A i \in 1..n : Entry(b, i) \in Cell
    <3>1. ASSUME NEW i \in 1..n
          PROVE  Entry(b, i) \in EntryField
      <4>1. Off(b, i - 1) \in Nat /\ DataLen(b, i) \in Nat
        BY PayloadStep
      <4>2. Uint64(Off(b, i - 1)) \in U64 /\ Uint64(DataLen(b, i)) \in U64
        BY <4>1, IntTypes
      <4>3. /\ b[i].arch \in Name /\ b[i].status \in Byte
            /\ b[i].codec \in Byte /\ b[i].rawLen \in U64
        BY SlicesType
      <4>4. Entry(b, i) = [name |-> b[i].arch, status |-> b[i].status,
                           codec |-> b[i].codec,
                           offset |-> Uint64(Off(b, i - 1)),
                           length |-> Uint64(DataLen(b, i)),
                           rawLen |-> b[i].rawLen]
        BY DEF Entry, Off, DataLen
      <4> QED
        BY <4>2, <4>3, <4>4 DEF EntryField
    <3> QED
      BY <3>1 DEF Cell
  <2>2. q = [i \in 1..n |-> Entry(b, i)]
    BY DEF Index
  <2> HIDE DEF q, n
  <2> QED
    BY <1>1, <2>1, <2>2
<1>5. r \in Seq(Cell)
  BY <1>1, PayloadType
<1>6. Trailer(b) \in Seq(Cell)
  <2>1. EncodedLen(b) \in Nat
    <3>1. EncodedLen(b) = 2 + n + Off(b, n) + 2
      BY DEF EncodedLen, Off, HeaderLen, TrailerLen
    <3> HIDE DEF n
    <3> QED
      BY <1>1, <3>1
  <2>2. [total |-> Uint64(EncodedLen(b))] \in Cell
    BY <2>1, IntTypes DEF TotalField, Cell
  <2> QED
    BY <1>2, <2>2 DEF Trailer
<1>7. Encode(b) = Header(b) \o q \o r \o Trailer(b)
  BY DEF Encode
<1> HIDE DEF q, r
<1> QED
  BY <1>3, <1>4, <1>5, <1>6, <1>7, ConcatFour

\* The parts of an image that was split.
LEMMA SplitType ==
    ASSUME NEW image \in Seq(Cell), SplitOK(image)
    PROVE  TailOf(image) \in Seq(Cell) /\ BlobOf(image) \in Slices
<1> DEFINE n == BlobLen(image)
           m == Len(image) - n + 1
<1>1. n \in Nat /\ n > 0 /\ n <= Len(image) /\ Len(image) \in Nat
  <2>1. image[Len(image) - 1] \in TotalField /\ n > 0 /\ n <= Len(image)
    BY DEF SplitOK
  <2>2. n \in 0..MaxWord
    BY <2>1 DEF TotalField, BlobLen, U64
  <2> QED
    BY <2>1, <2>2, LenProperties, FormatAssumption
<1>2. m \in Int /\ m >= 1
  BY <1>1
<1>3. TailOf(image) = SubSeq(image, m, Len(image))
  BY DEF TailOf
<1> HIDE DEF m
<1>4. \A j \in m..Len(image) : image[j] \in Cell
  BY <1>1, <1>2, ElementOfSeq
<1>5. TailOf(image) \in Seq(Cell)
  BY <1>1, <1>2, <1>3, <1>4, SubSeqProperties
<1>6. DecodeOK(TailOf(image))
  BY DEF SplitOK
<1> QED
  BY <1>5, <1>6, DecodeType DEF BlobOf

\* What Reconstruct writes is the chosen slice, an ELF file, then the blob it
\* came from.
LEMMA ReconstructShape ==
    ASSUME NEW image \in Seq(Cell), NEW t, ReconstructOK(image, t)
    PROVE  /\ BlobOf(image) \in Slices /\ EncodeOK(BlobOf(image))
           /\ \E h \in Seq(Cell) :
                 /\ HasPrefix(h, ElfMagic)
                 /\ Reconstruct(image, t) = BuildCanonical(h, BlobOf(image))
<1> DEFINE b == BlobOf(image)
           k == CHOOSE i \in 1..Len(b) : FirstSlice(b, t, i)
<1>1. b \in Slices /\ EncodeOK(b)
  BY SplitType DEF ReconstructOK
<1>2. PICK i \in 1..Len(b) : /\ FirstSlice(b, t, i) /\ DecompressOK(b[i])
                            /\ HasPrefix(Decompress(b[i]), ElfMagic)
  BY DEF ReconstructOK
<1>3. k \in 1..Len(b) /\ FirstSlice(b, t, k)
  BY <1>2
<1>4. Reconstruct(image, t) = BuildCanonical(Decompress(b[k]), b)
  BY DEF Reconstruct
<1> HIDE DEF b, k
<1>5. i = k
  <2>1. Len(b) \in Nat
    BY <1>1, SlicesType
  <2>2. ~(i < k) /\ ~(k < i)
    BY <1>2, <1>3, <2>1 DEF FirstSlice
  <2> QED
    BY <1>3, <2>1, <2>2
<1>6. Decompress(b[k]) \in Seq(Cell)
  <2>1. CASE b[k].codec = CodecNone
    BY <1>1, <1>3, <2>1, SlicesType DEF Decompress
  <2>2. CASE b[k].codec # CodecNone
    <3>1. \E n \in Natives : StreamOf(b[k].data, n)
      BY <1>2, <1>5, <2>2 DEF DecompressOK
    <3>2. Decompress(b[k]) \in Natives
      BY <2>2, <3>1 DEF Decompress
    <3>3. Decompress(b[k]) \in Seq(Word)
      BY <3>2, XzAssumption DEF Bytes
    <3> QED
      BY <3>3, SeqMonotonic DEF Cell
  <2> QED
    BY <2>1, <2>2
<1> QED
  BY <1>1, <1>2, <1>4, <1>5, <1>6 DEF b

\* It is an image again.
LEMMA ReconstructType ==
    ASSUME NEW image \in Seq(Cell), NEW t, ReconstructOK(image, t)
    PROVE  /\ Reconstruct(image, t) \in Seq(Cell)
           /\ HasPrefix(Reconstruct(image, t), ElfMagic)
<1>1. PICK b \in Slices : b = BlobOf(image) /\ EncodeOK(b)
  BY ReconstructShape
<1>2. PICK h \in Seq(Cell) : /\ HasPrefix(h, ElfMagic)
                             /\ Reconstruct(image, t) = h \o Encode(b)
  BY <1>1, ReconstructShape DEF BuildCanonical
<1>3. Encode(b) \in Seq(Cell)
  BY <1>1, EncodeType
<1>4. Len(h) \in Nat /\ Len(h) > 0 /\ h[1] = ElfMagic
  BY <1>2, LenProperties, EmptySeq DEF HasPrefix
<1>5. /\ h \o Encode(b) \in Seq(Cell) /\ Len(h \o Encode(b)) > 0
      /\ (h \o Encode(b))[1] = h[1]
  BY <1>3, <1>4, ConcatProperties, LenProperties
<1> QED
  BY <1>2, <1>4, <1>5 DEF HasPrefix

\* It carries the very blob it was made from, a damaged one too, as long as
\* that fits an int: Encode allocates it as one slice.
THEOREM ReencodeLaw ==
    ASSUME NEW image \in Seq(Cell), NEW t, ReconstructOK(image, t),
           EncodedLen(BlobOf(image)) <= MaxInt
    PROVE  /\ SplitOK(Reconstruct(image, t))
           /\ BlobOf(Reconstruct(image, t)) = BlobOf(image)
<1>1. PICK b : b = BlobOf(image)
  OBVIOUS
<1>2. Encodable(b)
  BY <1>1, ReconstructShape DEF Encodable
<1>3. PICK h \in Seq(Cell) : Reconstruct(image, t) = BuildCanonical(h, b)
  BY <1>1, ReconstructShape
<1> QED
  BY <1>1, <1>2, <1>3, SplitAny

\* int is as wide as a u64: a 64-bit machine.
Wide == MaxWord = 2 * MaxInt + 1

\* On such a machine every int has one u64, and int(u) of a large one is
\* negative.
LEMMA IntOfWide ==
    ASSUME Wide, NEW u \in U64
    PROVE  IntOf(u) = IF u <= MaxInt THEN u ELSE u - 2 * (MaxInt + 1)
<1>1. u \in Nat /\ MaxInt \in Nat /\ u <= 2 * MaxInt + 1
  BY FormatAssumption DEF U64, Wide
<1>2. CASE u <= MaxInt
  BY <1>2 DEF IntOf
<1>3. CASE ~(u <= MaxInt)
  <2>1. u % (2 * (MaxInt + 1)) = u
    <3>1. 2 * (MaxInt + 1) \in Nat /\ u < 2 * (MaxInt + 1)
      BY <1>1
    <3> QED
      BY <1>1, <3>1, SmallMod
  <2>2. IntOf(u) = IF u % (2 * (MaxInt + 1)) <= MaxInt
                   THEN u % (2 * (MaxInt + 1))
                   ELSE (u % (2 * (MaxInt + 1))) - 2 * (MaxInt + 1)
    BY <1>3 DEF IntOf
  <2> QED
    BY <1>3, <2>1, <2>2
<1> QED
  BY <1>2, <1>3

\* int + int that wraps is no larger than the first operand: a sum that is as
\* large as a non-negative operand is exact.
LEMMA WrapUp ==
    ASSUME Wide, NEW p \in Nat, NEW u \in U64, Wrap(p + IntOf(u)) >= p
    PROVE  /\ Wrap(p + IntOf(u)) = p + u
           /\ p + u <= MaxInt
<1>1. MaxInt \in Nat /\ u \in Nat /\ u <= 2 * MaxInt + 1
  BY FormatAssumption DEF U64, Wide
<1>2. IntOf(u) = IF u <= MaxInt THEN u ELSE u - 2 * (MaxInt + 1)
  BY IntOfWide
<1> QED
  BY <1>1, <1>2 DEF Wrap

\* Decode's three comparisons are enough: however large the numbers of an
\* accepted index are, no sum wraps into the range, and every slice lies
\* between the index and the trailer.
THEOREM BoundsLaw ==
    ASSUME Wide, NEW data \in Seq(Cell), DecodeOK(data),
           NEW i \in 1..data[2].count
    PROVE  LET e == data[HeaderLen + i]
           IN  PayloadStart(data) + e.offset + e.length <= PayloadEnd(data)
<1> DEFINE e == data[HeaderLen + i]
           p == PayloadStart(data)
           x == Start(data, e)
           y == End(data, e)
<1>1. EntryOK(data, e)
  BY DEF DecodeOK
<1>2. p \in Nat /\ PayloadEnd(data) \in Int
  <2>1. data[2] \in CountField /\ Len(data) \in Nat
    BY LenProperties DEF DecodeOK
  <2>2. data[2].count \in 0..MaxCount
    BY <2>1 DEF CountField
  <2> QED
    BY <2>1, <2>2, FormatAssumption
       DEF PayloadStart, PayloadEnd, HeaderLen, TrailerLen
<1>3. e.offset \in U64 /\ e.length \in U64
  BY <1>1 DEF EntryOK, EntryField
<1>4. x = Wrap(p + IntOf(e.offset)) /\ y = Wrap(x + IntOf(e.length))
  BY DEF Start, End
<1>5. x >= p /\ y >= x /\ y <= PayloadEnd(data)
  BY <1>1 DEF EntryOK
<1> HIDE DEF e, p, x, y
<1>6. x = p + e.offset
  BY <1>2, <1>3, <1>4, <1>5, WrapUp
<1>7. x \in Nat
  BY <1>2, <1>3, <1>6, FormatAssumption DEF U64
<1>8. y = x + e.length
  BY <1>3, <1>4, <1>5, <1>7, WrapUp
<1>9. p + e.offset + e.length <= PayloadEnd(data)
  BY <1>5, <1>6, <1>8
<1> QED
  BY <1>9 DEF e, p

=============================================================================
