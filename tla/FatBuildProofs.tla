--------------------------- MODULE FatBuildProofs ---------------------------
(***************************************************************************)
(* What a dist/ is worth, for any natives, versions and encoders and after *)
(* any commands, finished, failed or killed: every artifact is an image    *)
(* or the beginning of one, and a command that succeeds leaves what its    *)
(* manifest lists.                                                         *)
(***************************************************************************)
EXTENDS FatBuild, ReleaseProofs

-----------------------------------------------------------------------------
(* The loop over FixedArchOrder.                                           *)

\* Its recursive definition has a solution.
LEMMA KeptExists ==
    ASSUME NEW S, NEW n \in Nat
    PROVE  \E f : f = [i \in 0..n |-> IF i = 0 THEN <<>>
                                      ELSE AppendIf(S, f[i - 1], ArchOrder[i])]
<1> DEFINE T == {m \in Nat : \E f :
                    f = [i \in 0..m |->
                           IF i = 0 THEN <<>>
                           ELSE AppendIf(S, f[i - 1], ArchOrder[i])]}
<1>1. 0 \in T
  <2> DEFINE g == [i \in 0..0 |-> <<>>]
  <2>1. g = [i \in 0..0 |-> IF i = 0 THEN <<>>
                            ELSE AppendIf(S, g[i - 1], ArchOrder[i])]
    OBVIOUS
  <2> QED
    BY <2>1
<1>2. ASSUME NEW m \in Nat, m \in T
      PROVE  m + 1 \in T
  <2>1. PICK f : f = [i \in 0..m |-> IF i = 0 THEN <<>>
                                     ELSE AppendIf(S, f[i - 1], ArchOrder[i])]
    BY <1>2
  <2> DEFINE g == [i \in 0..(m + 1) |->
                     IF i = m + 1 THEN AppendIf(S, f[m], ArchOrder[m + 1])
                     ELSE f[i]]
  <2>2. ASSUME NEW i \in 0..(m + 1)
        PROVE  g[i] = IF i = 0 THEN <<>>
                      ELSE AppendIf(S, g[i - 1], ArchOrder[i])
    <3>1. CASE i = m + 1
      <4>1. /\ i # 0 /\ i - 1 = m /\ m # m + 1
            /\ m \in 0..(m + 1) /\ m + 1 \in 0..(m + 1)
        BY <3>1
      <4>2. /\ g[m + 1] = AppendIf(S, f[m], ArchOrder[m + 1])
            /\ g[m] = f[m]
        BY <4>1
      <4> HIDE DEF g
      <4> QED
        BY <3>1, <4>1, <4>2
    <3>2. CASE i # m + 1
      <4>1. i \in 0..m
        BY <3>2
      <4>2. g[i] = f[i]
        BY <3>2
      <4>3. f[i] = IF i = 0 THEN <<>>
                   ELSE AppendIf(S, f[i - 1], ArchOrder[i])
        BY <2>1, <4>1
      <4>4. i # 0 => g[i - 1] = f[i - 1]
        BY <4>1
      <4> QED
        BY <4>2, <4>3, <4>4
    <3> QED
      BY <3>1, <3>2
  <2>3. g = [i \in 0..(m + 1) |-> IF i = 0 THEN <<>>
                                  ELSE AppendIf(S, g[i - 1], ArchOrder[i])]
    <3> HIDE DEF g
    <3>1. g = [i \in 0..(m + 1) |-> g[i]]
      BY DEF g
    <3> QED
      BY <2>2, <3>1
  <2> HIDE DEF g
  <2>4. \E h : h = [i \in 0..(m + 1) |->
                      IF i = 0 THEN <<>>
                      ELSE AppendIf(S, h[i - 1], ArchOrder[i])]
    BY ONLY <2>3, Zenon
  <2>5. m + 1 \in Nat
    BY SMT
  <2> QED
    BY ONLY <2>4, <2>5, Zenon
<1> HIDE DEF T
<1>3. n \in T
  BY <1>1, <1>2, SetInduction
<1> QED
  BY <1>3 DEF T

\* The loop, step by step.
LEMMA InOrderDef ==
    ASSUME NEW S
    PROVE  \E k : /\ InOrder(S) = k[Len(ArchOrder)]
                  /\ k[0] = <<>>
                  /\ \A i \in 1..Len(ArchOrder) :
                        k[i] = AppendIf(S, k[i - 1], ArchOrder[i])
<1> DEFINE k == CHOOSE f : f = [i \in 0..Len(ArchOrder) |->
                                  IF i = 0 THEN <<>>
                                  ELSE AppendIf(S, f[i - 1], ArchOrder[i])]
<1>1. Len(ArchOrder) \in Nat
  BY ReleaseAssumption, LenProperties
<1>2. InOrder(S) = k[Len(ArchOrder)]
  BY DEF InOrder
<1>3. k = [i \in 0..Len(ArchOrder) |->
             IF i = 0 THEN <<>> ELSE AppendIf(S, k[i - 1], ArchOrder[i])]
  BY <1>1, KeptExists
<1> HIDE DEF k
<1>4. ASSUME NEW i \in 0..Len(ArchOrder)
      PROVE  k[i] = IF i = 0 THEN <<>>
                    ELSE AppendIf(S, k[i - 1], ArchOrder[i])
  <2>1. [j \in 0..Len(ArchOrder) |->
           IF j = 0 THEN <<>> ELSE AppendIf(S, k[j - 1], ArchOrder[j])][i] =
              IF i = 0 THEN <<>> ELSE AppendIf(S, k[i - 1], ArchOrder[i])
    OBVIOUS
  <2> QED
    BY <1>3, <2>1, Zenon
<1>5. /\ 0 \in 0..Len(ArchOrder)
      /\ \A i \in 1..Len(ArchOrder) : i \in 0..Len(ArchOrder) /\ i # 0
  BY <1>1
<1>6. k[0] = <<>>
  BY <1>4, <1>5
<1>7. \A i \in 1..Len(ArchOrder) : k[i] = AppendIf(S, k[i - 1], ArchOrder[i])
  BY <1>4, <1>5
<1> QED
  BY <1>2, <1>6, <1>7, Zenon

\* The slots of S: its architectures, each once.
LEMMA InOrderLaw ==
    ASSUME NEW S
    PROVE  /\ InOrder(S) \in Seq(Arch)
           /\ Len(InOrder(S)) \in Nat
           /\ Len(InOrder(S)) <= Len(ArchOrder)
           /\ \A i, j \in 1..Len(InOrder(S)) :
                 InOrder(S)[i] = InOrder(S)[j] => i = j
           /\ \A i \in 1..Len(InOrder(S)) : InOrder(S)[i] \in S \cap Arch
           /\ \A a \in S \cap Arch :
                 \E i \in 1..Len(InOrder(S)) : InOrder(S)[i] = a
<1> DEFINE n == Len(ArchOrder)
<1>1. n \in Nat
  BY ReleaseAssumption, LenProperties
<1>2. PICK k : /\ InOrder(S) = k[n]
               /\ k[0] = <<>>
               /\ \A i \in 1..n : k[i] = AppendIf(S, k[i - 1], ArchOrder[i])
  BY InOrderDef
<1>3. \A i \in 1..n : ArchOrder[i] \in Arch
  BY DEF Arch
<1>4. \A i, j \in 1..n : ArchOrder[i] = ArchOrder[j] => i = j
  BY ReleaseAssumption
<1>5. \A a \in Arch : \E i \in 1..n : a = ArchOrder[i]
  BY DEF Arch
<1> HIDE DEF n
<1> DEFINE Good(i) ==
              /\ k[i] \in Seq(Arch)
              /\ Len(k[i]) <= i
              /\ \A p, q \in 1..Len(k[i]) : k[i][p] = k[i][q] => p = q
              /\ \A p \in 1..Len(k[i]) :
                    /\ k[i][p] \in S
                    /\ \E j \in 1..i : k[i][p] = ArchOrder[j]
              /\ \A j \in 1..i : ArchOrder[j] \in S =>
                    \E p \in 1..Len(k[i]) : k[i][p] = ArchOrder[j]
           T == {i \in Nat : i <= n => Good(i)}
<1>6. 0 \in T
  <2>1. k[0] \in Seq(Arch) /\ Len(k[0]) = 0
    BY <1>2
  <2> QED
    BY <2>1
<1>7. ASSUME NEW i \in Nat, i \in T
      PROVE  i + 1 \in T
  <2>1. SUFFICES ASSUME i + 1 <= n PROVE Good(i + 1)
    OBVIOUS
  <2>2. Good(i) /\ i + 1 \in 1..n /\ i \in 0..n /\ (i + 1) - 1 = i
    BY <1>1, <1>7, <2>1
  <2> DEFINE s == k[i]
             u == k[i + 1]
             x == ArchOrder[i + 1]
             m == Len(s)
  <2>3. u = IF x \in S THEN Append(s, x) ELSE s
    BY <1>2, <2>2 DEF AppendIf
  <2>4. /\ s \in Seq(Arch) /\ m \in Nat /\ m <= i
        /\ \A p, q \in 1..m : s[p] = s[q] => p = q
        /\ \A p \in 1..m : s[p] \in S /\ \E j \in 1..i : s[p] = ArchOrder[j]
        /\ \A j \in 1..i : ArchOrder[j] \in S =>
              \E p \in 1..m : s[p] = ArchOrder[j]
    BY <2>2, LenProperties
  <2>5. x \in Arch /\ \A j \in 1..i : j \in 1..n /\ ArchOrder[j] # x
    BY <1>1, <1>3, <1>4, <2>2
  <2>6. \A j \in 1..(i + 1) : j \in 1..i \/ j = i + 1
    OBVIOUS
  <2> HIDE DEF Good
  <2>7. CASE x \in S
    <3>1. u = Append(s, x)
      BY <2>3, <2>7
    <3>2. /\ u \in Seq(Arch) /\ Len(u) = m + 1 /\ u[m + 1] = x
          /\ \A p \in 1..m : u[p] = s[p]
      <4> HIDE DEF s, u, x
      <4> QED
        BY <2>4, <2>5, <3>1, AppendProperties DEF m
    <3> HIDE DEF s, u, m
    <3>3. \A p \in 1..(m + 1) : p \in 1..m \/ p = m + 1
      BY <2>4
    <3>4. \A p \in 1..m : s[p] # x
      BY <2>4, <2>5
    <3>5. \A p, q \in 1..(m + 1) : u[p] = u[q] => p = q
      BY <2>4, <3>2, <3>3, <3>4
    <3>6. ASSUME NEW p \in 1..(m + 1)
          PROVE  u[p] \in S /\ \E j \in 1..(i + 1) : u[p] = ArchOrder[j]
      <4>1. CASE p \in 1..m
        <5>1. u[p] = s[p] /\ s[p] \in S
          BY <2>4, <3>2, <4>1
        <5>2. PICK j \in 1..i : s[p] = ArchOrder[j]
          BY <2>4, <4>1
        <5>3. j \in 1..(i + 1)
          OBVIOUS
        <5> QED
          BY <5>1, <5>2, <5>3
      <4>2. CASE p = m + 1
        BY <2>7, <3>2, <4>2
      <4> QED
        BY <3>3, <4>1, <4>2
    <3>7. ASSUME NEW j \in 1..(i + 1), ArchOrder[j] \in S
          PROVE  \E p \in 1..(m + 1) : u[p] = ArchOrder[j]
      <4>1. CASE j \in 1..i
        <5>1. PICK p \in 1..m : s[p] = ArchOrder[j]
          BY <2>4, <3>7, <4>1
        <5>2. p \in 1..(m + 1) /\ u[p] = s[p]
          BY <2>4, <3>2
        <5> QED
          BY <5>1, <5>2
      <4>2. CASE j = i + 1
        BY <2>4, <3>2, <4>2
      <4> QED
        BY <2>6, <4>1, <4>2
    <3>8. m + 1 <= i + 1
      BY <2>4
    <3> QED
      BY <3>2, <3>5, <3>6, <3>7, <3>8 DEF Good, u
  <2>8. CASE x \notin S
    <3>1. u = s
      BY <2>3, <2>8
    <3>2. \A j \in 1..i : j \in 1..(i + 1)
      OBVIOUS
    <3>3. m <= i + 1
      BY <2>4
    <3>4. \A p \in 1..m : s[p] \in S /\ \E j \in 1..(i + 1) : s[p] = ArchOrder[j]
      BY <2>4, <3>2
    <3>5. \A j \in 1..(i + 1) : ArchOrder[j] \in S =>
             \E p \in 1..m : s[p] = ArchOrder[j]
      BY <2>4, <2>6, <2>8
    <3> HIDE DEF s, m
    <3>6. /\ u \in Seq(Arch) /\ Len(u) = m
          /\ \A p, q \in 1..m : u[p] = u[q] => p = q
      BY <2>4, <3>1 DEF m
    <3> HIDE DEF u
    <3> QED
      BY <3>1, <3>3, <3>4, <3>5, <3>6 DEF Good, u
  <2> QED
    BY <2>7, <2>8
<1>8. Good(n)
  <2> HIDE DEF Good
  <2>1. T \subseteq Nat
    OBVIOUS
  <2> HIDE DEF T
  <2>2. n \in T
    BY <1>1, <1>6, <1>7, SetInduction
  <2> QED
    BY <1>1, <2>2 DEF T
<1> DEFINE s == k[n]
<1>9. Len(s) \in Nat
  BY <1>8, LenProperties
<1>10. \A p \in 1..Len(s) : s[p] \in S \cap Arch
  BY <1>3, <1>8
<1>11. \A a \in S \cap Arch : \E p \in 1..Len(s) : s[p] = a
  BY <1>5, <1>8
<1> QED
  BY <1>2, <1>8, <1>9, <1>10, <1>11 DEF n

\* A loop that skips nothing.
LEMMA InOrderAll ==
    ASSUME NEW S, Arch \subseteq S
    PROVE  InOrder(S) = ArchOrder
<1> DEFINE n == Len(ArchOrder)
<1>1. n \in Nat
  BY ReleaseAssumption, LenProperties
<1>2. PICK k : /\ InOrder(S) = k[n]
               /\ k[0] = <<>>
               /\ \A i \in 1..n : k[i] = AppendIf(S, k[i - 1], ArchOrder[i])
  BY InOrderDef
<1>3. \A i \in 1..n : ArchOrder[i] \in S /\ ArchOrder[i] \in Name
  BY ReleaseAssumption, ElementOfSeq DEF Arch
<1> HIDE DEF n
<1> DEFINE Good(i) == /\ k[i] \in Seq(Name) /\ Len(k[i]) = i
                      /\ \A j \in 1..i : k[i][j] = ArchOrder[j]
           T == {i \in Nat : i <= n => Good(i)}
<1>4. 0 \in T
  <2>1. k[0] \in Seq(Name) /\ Len(k[0]) = 0
    BY <1>2
  <2> QED
    BY <2>1
<1>5. ASSUME NEW i \in Nat, i \in T
      PROVE  i + 1 \in T
  <2>1. SUFFICES ASSUME i + 1 <= n PROVE Good(i + 1)
    OBVIOUS
  <2>2. Good(i) /\ i + 1 \in 1..n /\ (i + 1) - 1 = i
    BY <1>1, <1>5, <2>1
  <2> DEFINE s == k[i]
             u == k[i + 1]
             x == ArchOrder[i + 1]
  <2>3. u = Append(s, x) /\ x \in Name
    BY <1>2, <1>3, <2>2 DEF AppendIf
  <2>4. s \in Seq(Name) /\ Len(s) = i /\ \A j \in 1..i : s[j] = ArchOrder[j]
    BY <2>2
  <2>5. u \in Seq(Name) /\ Len(u) = i + 1 /\ u[i + 1] = x
        /\ \A j \in 1..i : u[j] = s[j]
    <3> HIDE DEF s, u, x
    <3> QED
      BY <2>3, <2>4, AppendProperties
  <2>6. \A j \in 1..(i + 1) : j \in 1..i \/ j = i + 1
    OBVIOUS
  <2> QED
    BY <2>4, <2>5, <2>6
<1>6. Good(n)
  <2> HIDE DEF Good
  <2> HIDE DEF T
  <2>1. n \in T
    BY <1>1, <1>4, <1>5, SetInduction
  <2> QED
    BY <1>1, <2>1 DEF T
<1>7. k[n] = ArchOrder
  BY <1>6, ReleaseAssumption, SeqEqual DEF n
<1> QED
  BY <1>2, <1>7

-----------------------------------------------------------------------------
(* What Assemble packs.                                                    *)

\* A native, whole or cut, is opaque bytes; an empty one is always possible.
LEMMA LeftType ==
    ASSUME NEW a \in Supported
    PROVE  /\ Left(a) \subseteq Bytes
           /\ <<>> \in Left(a)
           /\ \A v \in Version : Source[v][a] \in Left(a)
<1>1. ASSUME NEW v \in Version
      PROVE  /\ Source[v][a] \in Bytes /\ Len(Source[v][a]) \in Nat
             /\ Source[v][a] # <<>> /\ Len(Source[v][a]) > 0
  <2>1. Source[v][a] \in Bytes
    BY FatBuildAssumption
  <2>2. Source[v][a] # <<>>
    <3>1. Released(Source[v]) = Supported
      BY FatBuildAssumption
    <3> QED
      BY <3>1 DEF Released
  <2>3. Len(Source[v][a]) \in Nat
    BY <2>1, LenProperties DEF Bytes
  <2>4. Len(Source[v][a]) # 0
    BY <2>1, <2>2, EmptySeq DEF Bytes
  <2> QED
    BY <2>1, <2>2, <2>3, <2>4
<1>2. ASSUME NEW v \in Version, NEW s \in Beginnings(Source[v][a])
      PROVE  s \in Bytes
  <2> DEFINE full == Source[v][a]
  <2>1. PICK n \in 0..(Len(full) - 1) : s = SubSeq(full, 1, n)
    BY DEF Beginnings
  <2>2. full \in Seq(Word) /\ n \in Nat /\ n <= Len(full)
    BY <1>1 DEF Bytes
  <2> HIDE DEF full
  <2> QED
    BY <2>1, <2>2, PrefixType DEF Bytes
<1>3. Left(a) \subseteq Bytes
  BY <1>1, <1>2 DEF Left
<1>4. \A v \in Version : Source[v][a] \in Left(a)
  BY DEF Left
<1>5. <<>> \in Left(a)
  <2>1. PICK v \in Version : TRUE
    BY FatBuildAssumption
  <2>2. 0 \in 0..(Len(Source[v][a]) - 1)
    BY <1>1
  <2>3. SubSeq(Source[v][a], 1, 0) = <<>>
    <3>1. Source[v][a] \in Seq(Word) /\ 0 \in Nat /\ 0 <= Len(Source[v][a])
      BY <1>1 DEF Bytes
    <3>2. /\ SubSeq(Source[v][a], 1, 0) \in Seq(Word)
          /\ Len(SubSeq(Source[v][a], 1, 0)) = 0
      BY <3>1, PrefixType
    <3> QED
      BY <3>2, EmptySeq
  <2>4. <<>> \in Beginnings(Source[v][a])
    BY <2>2, <2>3 DEF Beginnings
  <2> QED
    BY <2>4 DEF Left
<1> QED
  BY <1>3, <1>4, <1>5

\* What a failed go build leaves of a native is a native dist/ may hold.
LEMMA BeginningLeft ==
    ASSUME NEW a \in Supported, NEW v \in Version,
           NEW s \in Beginnings(Source[v][a])
    PROVE  s \in Left(a)
BY DEF Left

LEMMA StockType ==
    ASSUME NEW nat \in Stock, NEW a \in Supported
    PROVE  nat[a] \in {NoFile} \cup Left(a)
BY DEF Stock

LEMMA StockIs ==
    ASSUME NEW nat, nat = [a \in Supported |-> nat[a]],
           \A a \in Supported : nat[a] \in {NoFile} \cup Left(a)
    PROVE  nat \in Stock
<1>1. nat \in [Supported -> {NoFile} \cup UNION {Left(a) : a \in Supported}]
  OBVIOUS
<1> QED
  BY <1>1 DEF Stock

LEMMA SourceStock ==
    ASSUME NEW v \in Version
    PROVE  Source[v] \in Stock
<1>1. Source[v] = [a \in Supported |-> Source[v][a]]
  BY FatBuildAssumption
<1>2. \A a \in Supported : Source[v][a] \in {NoFile} \cup Left(a)
  BY LeftType
<1> QED
  BY <1>1, <1>2, StockIs

\* NoFile is no native, the empty one included.
LEMMA NoFileApart ==
    ASSUME NEW a \in Supported
    PROVE  NoFile \notin Left(a) /\ NoFile \notin Bytes /\ NoFile # <<>>
<1>1. Bytes \subseteq Seq(Cell)
  BY SeqMonotonic DEF Bytes, Cell
<1>2. <<>> \in Bytes
  BY DEF Bytes
<1> QED
  BY <1>1, <1>2, LeftType, FatBuildAssumption

\* The natives with an empty one where there is none: the same slots differ
\* in nothing, and these natives a build could have been made of.
Filled(nat) == [a \in Supported |-> IF nat[a] = NoFile THEN <<>> ELSE nat[a]]

LEMMA FilledBuilds ==
    ASSUME NEW nat \in Stock, NEW e \in Encoder
    PROVE  /\ Builds(Filled(nat), e)
           /\ Released(Filled(nat)) =
                 {a \in Supported : nat[a] \notin {NoFile, <<>>}}
<1> DEFINE f == Filled(nat)
<1>1. \A a \in Supported : f[a] = IF nat[a] = NoFile THEN <<>> ELSE nat[a]
  BY DEF Filled
<1>2. f = [a \in Supported |-> f[a]]
  BY DEF Filled
<1>3. \A a \in Supported : f[a] \in Left(a)
  BY <1>1, LeftType, StockType
<1> HIDE DEF f
<1>4. f \in Stock
  BY <1>2, <1>3, StockIs
<1>5. \A a \in Supported : f[a] # NoFile
  BY <1>3, NoFileApart
<1>6. Builds(f, e)
  BY <1>4, <1>5, SizeAssumption
<1>7. Released(f) = {a \in Supported : nat[a] \notin {NoFile, <<>>}}
  BY <1>1 DEF Released
<1> QED
  BY <1>6, <1>7 DEF f

\* The blob of a dist/ with the natives nat.
Packed(nat, e) == CompressBlob(RawSlices(nat), e)

\* It has a slot for each architecture but the supported ones without a native.
LEMMA SlotsAre ==
    ASSUME NEW nat
    PROVE  /\ Slots(nat) \in Seq(Arch)
           /\ Len(Slots(nat)) \in Nat
           /\ Len(Slots(nat)) <= Len(ArchOrder)
           /\ \A i, j \in 1..Len(Slots(nat)) :
                 Slots(nat)[i] = Slots(nat)[j] => i = j
           /\ \A i \in 1..Len(Slots(nat)) :
                 /\ Slots(nat)[i] \in Arch
                 /\ Slots(nat)[i] \in Supported => nat[Slots(nat)[i]] # NoFile
           /\ \A a \in Arch : (a \in Supported => nat[a] # NoFile) =>
                 \E i \in 1..Len(Slots(nat)) : Slots(nat)[i] = a
<1> DEFINE S == {a \in Arch : a \notin Supported \/ nat[a] # NoFile}
           o == InOrder(S)
<1>1. Slots(nat) = o
  BY DEF Slots
<1>2. /\ o \in Seq(Arch) /\ Len(o) \in Nat /\ Len(o) <= Len(ArchOrder)
      /\ \A i, j \in 1..Len(o) : o[i] = o[j] => i = j
      /\ \A i \in 1..Len(o) : o[i] \in S \cap Arch
      /\ \A a \in S \cap Arch : \E i \in 1..Len(o) : o[i] = a
  <2> HIDE DEF S
  <2> QED
    BY InOrderLaw
<1> HIDE DEF o
<1>3. \A i \in 1..Len(o) : o[i] \in Arch /\ (o[i] \in Supported => nat[o[i]] # NoFile)
  BY <1>2
<1>4. \A a \in Arch : (a \in Supported => nat[a] # NoFile) => a \in S \cap Arch
  OBVIOUS
<1>5. \A a \in Arch : (a \in Supported => nat[a] # NoFile) =>
         \E i \in 1..Len(o) : o[i] = a
  <2> HIDE DEF S
  <2> QED
    BY <1>2, <1>4
<1> QED
  BY <1>1, <1>2, <1>3, <1>5

\* The slots packed are those of a complete build with empty natives in it.
LEMMA PackedIs ==
    ASSUME NEW nat \in Stock, NEW e \in Encoder
    PROVE  /\ Len(RawSlices(nat)) = Len(Slots(nat))
           /\ \A i \in 1..Len(Slots(nat)) :
                 RawSlices(nat)[i] = RawSlice(Filled(nat), Slots(nat)[i])
           /\ Packed(nat, e) = PartBlob(Filled(nat), e, Slots(nat))
           /\ Len(Slots(nat)) <= MaxCount
           /\ EncodedLen(PartBlob(Filled(nat), e, Slots(nat))) <= MaxInt
<1> DEFINE o == Slots(nat)
           r == RawSlices(nat)
<1>1. /\ Len(o) \in Nat /\ Len(o) <= Len(ArchOrder)
      /\ \A i \in 1..Len(o) : /\ o[i] \in Arch
                              /\ o[i] \in Supported => nat[o[i]] # NoFile
  BY SlotsAre
<1>2. Len(r) = Len(o) /\ \A i \in 1..Len(o) : r[i] = RawSlice(nat, o[i])
  BY <1>1 DEF RawSlices
<1> HIDE DEF o, r
<1>3. ASSUME NEW i \in 1..Len(o)
      PROVE  r[i] = RawSlice(Filled(nat), o[i])
  <2>1. o[i] \in Supported => Filled(nat)[o[i]] = nat[o[i]]
    BY <1>1 DEF Filled
  <2> QED
    BY <1>2, <2>1 DEF RawSlice
<1>4. Packed(nat, e) = PartBlob(Filled(nat), e, o)
  BY <1>1, <1>2, <1>3 DEF Packed, PartBlob, CompressBlob, r
<1>5. Len(o) <= MaxCount
  <2>1. Len(ArchOrder) <= MaxCount /\ Len(ArchOrder) \in Nat
    BY FilledBuilds, ReleaseAssumption, LenProperties DEF Builds
  <2> QED
    BY <1>1, <2>1, FormatAssumption
<1>6. EncodedLen(Packed(nat, e)) <= MaxInt
  BY SizeAssumption DEF Packed
<1> QED
  BY <1>2, <1>3, <1>4, <1>5, <1>6 DEF o, r

\* A slice of it, as it is read from the directory.
LEMMA PackedSlice ==
    ASSUME NEW nat \in Stock, NEW i \in 1..Len(RawSlices(nat))
    PROVE  LET s == RawSlices(nat)[i]
           IN  /\ s.arch \in Arch /\ s.arch = Slots(nat)[i]
               /\ Occupied(s) <=> /\ s.arch \in Supported
                                  /\ nat[s.arch] \notin {NoFile, <<>>}
               /\ Occupied(s) => s.data = nat[s.arch]
<1> DEFINE s == RawSlices(nat)[i]
           a == Slots(nat)[i]
<1>1. Len(RawSlices(nat)) = Len(Slots(nat)) /\ s = RawSlice(nat, a)
  <2>1. Len(Slots(nat)) \in Nat
    BY SlotsAre
  <2>2. Len(RawSlices(nat)) = Len(Slots(nat))
    BY <2>1 DEF RawSlices
  <2> QED
    BY <2>2 DEF RawSlices
<1>2. a \in Arch /\ (a \in Supported => nat[a] # NoFile)
  BY <1>1, SlotsAre
<1> HIDE DEF s, a
<1>3. s.arch = a
  BY <1>1 DEF RawSlice
<1>4. a \in Supported => s.status = StatusPresent /\ s.data = nat[a]
  BY <1>1 DEF RawSlice
<1>5. a \notin Supported => s.status = StatusReserved
  BY <1>1 DEF RawSlice
<1>6. StatusPresent # StatusReserved
  BY DEF StatusPresent, StatusReserved
<1>7. Occupied(s) <=> a \in Supported /\ nat[a] # <<>>
  BY <1>4, <1>5, <1>6 DEF Occupied
<1> QED
  BY <1>2, <1>3, <1>4, <1>7 DEF s, a

\* Which architectures the blob of a dist/ serves.
Served(nat) == {a \in Supported : nat[a] \notin {NoFile, <<>>}}

\* An image made from a dist/, whatever natives are missing, cut or of
\* different versions: it carries the blob, a proper beginning of it carries
\* none, and it rebuilds the image of each architecture that has a native, and
\* of no other.
THEOREM PackedLaw ==
    ASSUME NEW nat \in Stock, NEW e \in Encoder, NEW a \in Served(nat),
           NEW full, full = BuildCanonical(nat[a], Packed(nat, e))
    PROVE  /\ full \in Seq(Cell) /\ Len(full) \in Nat
           /\ SplitOK(full) /\ TailOf(full) = Encode(Packed(nat, e))
           /\ \A k \in Nat : k < Len(full) => ~SplitOK(SubSeq(full, 1, k))
           /\ \A t : /\ ReconstructOK(full, t) <=> t \in Served(nat)
                     /\ t \in Served(nat) =>
                           Reconstruct(full, t) =
                              BuildCanonical(nat[t], Packed(nat, e))
<1> DEFINE f == Filled(nat)
           o == Slots(nat)
           b == PartBlob(f, e, o)
<1>1. /\ Builds(f, e) /\ Released(f) = Served(nat)
      /\ \A t \in Served(nat) : f[t] = nat[t] /\ nat[t] \in Bytes
  <2>1. \A t \in Served(nat) : f[t] = nat[t] /\ nat[t] \in Bytes
    BY StockType, LeftType DEF Served, Filled
  <2> QED
    BY <2>1, FilledBuilds DEF Served
<1>2. /\ o \in Seq(Arch) /\ Len(o) <= MaxCount
      /\ \A i, j \in 1..Len(o) : o[i] = o[j] => i = j
      /\ \A t \in Served(nat) : \E i \in 1..Len(o) : o[i] = t
  <2>1. \A t \in Served(nat) : t \in Arch /\ nat[t] # NoFile
    BY ReleaseAssumption DEF Served
  <2> QED
    BY <2>1, SlotsAre, PackedIs
<1>3. EncodedLen(b) <= MaxInt /\ Packed(nat, e) = b
  BY PackedIs
<1>4. full = BuildCanonical(nat[a], b) /\ nat[a] \in Bytes
  BY <1>1, <1>3
<1> HIDE DEF f, o
<1>5. Encodable(b) /\ \A i \in 1..Len(b) : b[i].data \in Bytes
  BY <1>1, <1>2, <1>3, PartEncodable
<1>6. /\ \A t : /\ ReconstructOK(full, t) <=>
                      t \in Released(f) /\ \E i \in 1..Len(o) : o[i] = t
                /\ t \in Released(f) /\ (\E i \in 1..Len(o) : o[i] = t) =>
                      Reconstruct(full, t) = BuildCanonical(f[t], b)
  BY <1>1, <1>2, <1>3, <1>4, PartLaw
<1> HIDE DEF b
<1>7. SplitOK(full) /\ TailOf(full) = Encode(b)
  BY <1>4, <1>5, SplitLaw
<1>8. \A k \in Nat : k < Len(full) => ~SplitOK(SubSeq(full, 1, k))
  BY <1>4, <1>5, TornLaw
<1>9. full \in Seq(Cell) /\ Len(full) \in Nat
  <2>1. nat[a] \in Seq(Cell)
    BY <1>4, SeqMonotonic DEF Bytes, Cell
  <2>2. Encode(b) \in Seq(Cell)
    BY <1>5, EncodeShape
  <2>3. full = nat[a] \o Encode(b)
    BY <1>4 DEF BuildCanonical
  <2>4. full \in Seq(Cell)
    BY <2>1, <2>2, <2>3, ConcatProperties
  <2> QED
    BY <2>4, LenProperties
<1>10. ASSUME NEW t
       PROVE  /\ ReconstructOK(full, t) <=> t \in Served(nat)
              /\ t \in Served(nat) =>
                    Reconstruct(full, t) = BuildCanonical(nat[t], b)
  BY <1>1, <1>2, <1>6
<1> QED
  BY <1>3, <1>7, <1>8, <1>9, <1>10

\* The blob of the natives of one version is the blob of its release.
LEMMA PackedSource ==
    ASSUME NEW v \in Version, NEW e
    PROVE  /\ RawSlices(Source[v]) = RawBlob(Source[v])
           /\ Packed(Source[v], e) = SharedBlob(Source[v], e)
           /\ Slots(Source[v]) = ArchOrder
           /\ Served(Source[v]) = Supported
<1>1. \A a \in Supported : Source[v][a] # NoFile
  BY LeftType, NoFileApart
<1>2. Slots(Source[v]) = ArchOrder
  <2> DEFINE S == {a \in Arch : a \notin Supported \/ Source[v][a] # NoFile}
  <2>1. Arch \subseteq S
    BY <1>1
  <2>2. Slots(Source[v]) = InOrder(S)
    BY DEF Slots
  <2> HIDE DEF S
  <2> QED
    BY <2>1, <2>2, InOrderAll
<1>3. RawSlices(Source[v]) = RawBlob(Source[v])
  BY <1>2 DEF RawSlices, RawBlob
<1>4. Packed(Source[v], e) = SharedBlob(Source[v], e)
  BY <1>3 DEF Packed, SharedBlob
<1>5. Served(Source[v]) = Supported
  <2>1. Released(Source[v]) = Supported
    BY FatBuildAssumption
  <2> QED
    BY <1>1, <2>1 DEF Served, Released
<1> QED
  BY <1>2, <1>3, <1>4, <1>5

-----------------------------------------------------------------------------
(* The inductive invariant.                                                *)

\* What the manifest says of a slice, and of the first n.
ListedIn(s, b) == [arch |-> s.arch, present |-> Occupied(s),
                   image |-> IF Occupied(s) THEN BuildCanonical(s.data, b)
                             ELSE <<>>]

Lists(r, b, n) == [i \in 1..n |-> ListedIn(r[i], b)]

\* The images of the first n slices lie in the directory.
Lie(files, r, b, n) ==
    \A i \in 1..n : Occupied(r[i]) =>
       files[r[i].arch] = BuildCanonical(r[i].data, b)

\* An artifact of a: an image made from some dist/, or the beginning of one.
Piece(file, a) ==
    \/ file = NoFile
    \/ \E nat \in Stock, e \in Encoder :
          /\ a \in Served(nat)
          /\ \E n \in Nat :
                LET full == BuildCanonical(nat[a], Packed(nat, e))
                IN  n <= Len(full) /\ file = SubSeq(full, 1, n)

\* fatbuild builds what it was asked for, and packs what it has built.
Progress ==
    /\ last.version = ver
    /\ pc \in {"idle", "pack"} => next = 1
    /\ pc = "native" =>
          /\ next \in 1..(Len(Targets) + 1)
          /\ \A i \in 1..(next - 1) :
                native[Targets[i]] = Source[ver][Targets[i]]
    /\ pc \in {"pack", "write"} /\ last.cmd = "fatbuild" =>
          native = Source[ver]

\* Assemble half-way: what it has read is still there, what it has listed lies
\* in the directory.
Writing ==
    pc = "write" =>
       /\ slices = RawSlices(native)
       /\ blob = Packed(native, encoder)
       /\ arts = Lists(slices, blob, next - 1)
       /\ Lie(artifact, slices, blob, next - 1)

\* After a success the directory is that of some natives, of the version asked
\* for if fatbuild succeeded.
Finished ==
    said = "ok" =>
       /\ pc = "idle"
       /\ \E nat \in Stock, e \in Encoder :
             LET r == RawSlices(nat)
                 b == Packed(nat, e)
             IN  /\ manifest = [blob |-> Encode(b),
                                arts |-> Lists(r, b, Len(r))]
                 /\ Lie(artifact, r, b, Len(r))
                 /\ last.cmd = "fatbuild" => nat = Source[last.version]

Pieces == \A a \in Supported : Piece(artifact[a], a)

IInv == /\ TypeOK
        /\ native \in Stock
        /\ Progress
        /\ Writing
        /\ Finished
        /\ Pieces

\* The targets are the supported architectures.
LEMMA TargetsAre ==
    /\ Len(Targets) \in Nat
    /\ \A i \in 1..Len(Targets) : Targets[i] \in Supported
    /\ \A a \in Supported : \E i \in 1..Len(Targets) : Targets[i] = a
    /\ \A i, j \in 1..Len(Targets) : Targets[i] = Targets[j] => i = j
<1>1. Supported \subseteq Arch
  BY ReleaseAssumption
<1> QED
  BY <1>1, InOrderLaw DEF Targets

\* An image of a slice that Assemble holds, whole or cut, is a piece.
LEMMA SlicePiece ==
    ASSUME NEW nat \in Stock, NEW e \in Encoder,
           NEW i \in 1..Len(RawSlices(nat)), NEW s, s = RawSlices(nat)[i],
           Occupied(s), NEW full, full = BuildCanonical(s.data, Packed(nat, e))
    PROVE  /\ s.arch \in Supported
           /\ full \in Seq(Cell)
           /\ Piece(full, s.arch)
           /\ \A f \in Beginnings(full) : f \in Seq(Cell) /\ Piece(f, s.arch)
<1>1. s.arch \in Served(nat) /\ s.arch \in Supported /\ s.data = nat[s.arch]
  BY PackedSlice DEF Served
<1>2. full = BuildCanonical(nat[s.arch], Packed(nat, e))
  BY <1>1
<1>3. full \in Seq(Cell) /\ Len(full) \in Nat
  BY <1>1, <1>2, PackedLaw
<1>4. ASSUME NEW n \in Nat, n <= Len(full)
      PROVE  Piece(SubSeq(full, 1, n), s.arch)
  BY <1>1, <1>2, <1>4 DEF Piece
<1>5. SubSeq(full, 1, Len(full)) = full
  BY <1>3, SubSeqFull
<1>6. Piece(full, s.arch)
  <2>1. Len(full) <= Len(full)
    BY <1>3
  <2>2. Piece(SubSeq(full, 1, Len(full)), s.arch)
    BY <1>3, <1>4, <2>1
  <2> QED
    BY <1>5, <2>2
<1>7. ASSUME NEW f \in Beginnings(full)
      PROVE  f \in Seq(Cell) /\ Piece(f, s.arch)
  <2>1. PICK n \in 0..(Len(full) - 1) : f = SubSeq(full, 1, n)
    BY DEF Beginnings
  <2>2. n \in Nat /\ n <= Len(full)
    BY <1>3
  <2>3. f \in Seq(Cell)
    BY <1>3, <2>1, <2>2, PrefixType
  <2> QED
    BY <1>4, <2>1, <2>2, <2>3
<1> QED
  BY <1>1, <1>3, <1>6, <1>7

\* A file of dist/native that changes for one that may lie there.
LEMMA StockExcept ==
    ASSUME NEW nat \in Stock, NEW a \in Supported,
           NEW x \in {NoFile} \cup Left(a)
    PROVE  /\ [nat EXCEPT ![a] = x] \in Stock
           /\ [nat EXCEPT ![a] = x][a] = x
           /\ \A b \in Supported \ {a} : [nat EXCEPT ![a] = x][b] = nat[b]
<1> DEFINE m == [nat EXCEPT ![a] = x]
<1>1. nat = [b \in Supported |-> nat[b]]
  BY DEF Stock
<1>2. m = [b \in Supported |-> IF b = a THEN x ELSE nat[b]]
  BY <1>1
<1> HIDE DEF m
<1>3. m = [b \in Supported |-> m[b]] /\ m[a] = x
      /\ \A b \in Supported \ {a} : m[b] = nat[b]
  BY <1>2
<1>4. \A b \in Supported : m[b] \in {NoFile} \cup Left(b)
  BY <1>3, StockType
<1>5. m \in Stock
  BY <1>3, <1>4, StockIs
<1> QED
  BY <1>3, <1>5 DEF m

LEMMA StockBytes ==
    ASSUME NEW nat \in Stock
    PROVE  nat \in [Supported -> {NoFile} \cup Bytes]
<1>1. nat = [a \in Supported |-> nat[a]]
  BY DEF Stock
<1>2. \A a \in Supported : nat[a] \in {NoFile} \cup Bytes
  BY StockType, LeftType
<1> QED
  BY <1>1, <1>2

LEMMA Initially == Init => IInv
<1> SUFFICES ASSUME Init PROVE IInv
  OBVIOUS
<1>1. native \in Stock
  <2>1. /\ native = [a \in Supported |-> native[a]]
        /\ \A a \in Supported : native[a] \in {NoFile} \cup Left(a)
    BY DEF Init
  <2> QED
    BY <2>1, StockIs
<1>2. TypeOK
  <2>1. native \in [Supported -> {NoFile} \cup Bytes]
    BY <1>1, StockBytes
  <2>2. artifact \in [Supported -> {NoFile} \cup Seq(Cell)]
    BY DEF Init
  <2>3. runs \in 0..MaxRuns
    <3>1. MaxRuns \in Nat
      BY FatBuildAssumption
    <3>2. runs = 0
      BY DEF Init
    <3> QED
      BY <3>1, <3>2
  <2> QED
    BY <2>1, <2>2, <2>3 DEF Init, TypeOK
<1>3. Progress /\ Writing /\ Finished
  BY DEF Init, Progress, Writing, Finished
<1>4. Pieces
  BY DEF Init, Pieces, Piece
<1> QED
  BY <1>1, <1>2, <1>3, <1>4 DEF IInv

\* A command that ends without a success leaves nothing to promise but pieces.
LEMMA Failing ==
    ASSUME IInv, Exit("error"), UNCHANGED <<encoder, runs>>,
           native' \in Stock,
           artifact' \in [Supported -> {NoFile} \cup Seq(Cell)],
           \A a \in Supported : Piece(artifact'[a], a)
    PROVE  IInv'
<1>1. TypeOK'
  <2>1. native' \in [Supported -> {NoFile} \cup Bytes]
    BY StockBytes
  <2>2. pc' = "idle" /\ said' = "error" /\ slices' = <<>> /\ blob' = <<>>
        /\ arts' = <<>> /\ ver' = ver
    BY DEF Exit
  <2>3. encoder' = encoder /\ runs' = runs
    OBVIOUS
  <2>4. encoder \in Encoder /\ ver \in Version /\ runs \in 0..MaxRuns
    BY DEF IInv, TypeOK
  <2> QED
    BY <2>1, <2>2, <2>3, <2>4 DEF TypeOK
<1>2. Progress'
  BY DEF IInv, Progress, Exit
<1>3. Writing' /\ Finished'
  BY DEF Writing, Finished, Exit
<1>4. Pieces'
  BY DEF Pieces
<1> QED
  BY <1>1, <1>2, <1>3, <1>4 DEF IInv

LEMMA FilesKept ==
    ASSUME IInv
    PROVE  /\ native \in Stock
           /\ artifact \in [Supported -> {NoFile} \cup Seq(Cell)]
           /\ \A a \in Supported : Piece(artifact[a], a)
BY DEF IInv, TypeOK, Pieces

\* A command starts.
LEMMA RunKeeps ==
    ASSUME IInv, RunFatbuild \/ RunFatpack
    PROVE  IInv'
<1>1. /\ pc = "idle" /\ pc' \in {"native", "pack"} /\ said' = ""
      /\ UNCHANGED <<dist, encoder, next, slices, blob, arts, source>>
      /\ runs' = runs + 1 /\ runs < MaxRuns
  BY DEF RunFatbuild, RunFatpack, Begin
<1>2. ver' \in Version /\ last'.version = ver'
  <2>1. CASE RunFatpack
    BY <2>1 DEF RunFatpack, IInv, TypeOK
  <2>2. CASE RunFatbuild
    <3>1. PICK flag \in Version \cup {Unset}, env \in Version \cup {Unset},
               git \in Version : ver' = Injected(flag, env, git)
      BY <2>2 DEF RunFatbuild
    <3>2. ver' \in Version
      BY <3>1 DEF Injected
    <3>3. last' = [cmd |-> "fatbuild", version |-> ver']
      BY <2>2 DEF RunFatbuild
    <3> QED
      BY <3>2, <3>3
  <2> QED
    BY <2>1, <2>2
<1>3. pc' = "pack" => last'.cmd = "fatpack"
  <2>1. CASE RunFatbuild
    BY <2>1 DEF RunFatbuild, Begin
  <2>2. CASE RunFatpack
    BY <2>2 DEF RunFatpack
  <2> QED
    BY <2>1, <2>2
<1>4. /\ UNCHANGED <<native, artifact>> /\ encoder' = encoder /\ next' = next
      /\ slices' = slices /\ blob' = blob /\ arts' = arts
  BY <1>1 DEF dist
<1>5. /\ encoder \in Encoder /\ runs \in 0..MaxRuns /\ next = 1
      /\ slices = <<>> /\ blob = <<>> /\ arts = <<>>
      /\ native \in [Supported -> {NoFile} \cup Bytes]
      /\ artifact \in [Supported -> {NoFile} \cup Seq(Cell)]
      /\ native \in Stock
  BY <1>1 DEF IInv, TypeOK, Progress
<1>6. TypeOK'
  <2>1. runs' \in 0..MaxRuns
    <3>1. MaxRuns \in Nat
      BY FatBuildAssumption
    <3>2. runs \in 0..MaxRuns /\ runs < MaxRuns /\ runs' = runs + 1
      BY <1>1, <1>5
    <3> QED
      BY <3>1, <3>2
  <2>2. pc' \in {"idle", "native", "pack", "write"} /\ pc' # "write"
    BY <1>1
  <2> QED
    BY <1>1, <1>2, <1>4, <1>5, <2>1, <2>2 DEF TypeOK
<1>7. Progress'
  <2>1. next' = 1 /\ 1 \in 1..(Len(Targets) + 1) /\ 1..(next' - 1) = {}
    BY <1>4, <1>5, TargetsAre
  <2>2. next' \in 1..(Len(Targets') + 1)
    BY <2>1
  <2> QED
    BY <1>1, <1>2, <1>3, <2>1, <2>2 DEF Progress
<1>8. Writing' /\ Finished'
  BY <1>1 DEF Writing, Finished
<1>9. Pieces'
  BY <1>4 DEF IInv, Pieces
<1> QED
  BY <1>4, <1>5, <1>6, <1>7, <1>8, <1>9 DEF IInv

\* go build replaces one native by that of the version injected.
LEMMA BuildNativeKeeps ==
    ASSUME IInv, BuildNative
    PROVE  IInv'
<1> PICK t : t = Targets
  OBVIOUS
<1> PICK a : a = t[next]
  OBVIOUS
<1> PICK x : x = Source[ver][a]
  OBVIOUS
<1>1. /\ pc = "native" /\ next <= Len(t) /\ next' = next + 1
      /\ native' = [native EXCEPT ![a] = x]
      /\ pc' = pc /\ artifact' = artifact /\ encoder' = encoder /\ ver' = ver
      /\ slices' = slices /\ blob' = blob /\ arts' = arts /\ said' = said
      /\ last' = last /\ runs' = runs /\ manifest' = manifest
  BY DEF BuildNative, Compiled
<1>2. /\ next \in 1..(Len(t) + 1) /\ Len(t) \in Nat
      /\ \A i \in 1..(next - 1) : native[t[i]] = Source[ver][t[i]]
      /\ \A i \in 1..Len(t) : t[i] \in Supported
      /\ \A i, j \in 1..Len(t) : t[i] = t[j] => i = j
      /\ ver \in Version /\ native \in Stock
  BY <1>1, TargetsAre DEF IInv, Progress, TypeOK
<1>3. next \in 1..Len(t) /\ a \in Supported
  BY <1>1, <1>2
<1>4. x \in {NoFile} \cup Left(a)
  BY <1>2, <1>3, LeftType
<1>5. /\ native' \in Stock /\ native'[a] = x
      /\ \A b \in Supported \ {a} : native'[b] = native[b]
  <2>1. native \in Stock /\ a \in Supported
    BY <1>2, <1>3
  <2>2. /\ [native EXCEPT ![a] = x] \in Stock
        /\ [native EXCEPT ![a] = x][a] = x
        /\ \A b \in Supported \ {a} : [native EXCEPT ![a] = x][b] = native[b]
    BY <1>4, <2>1, StockExcept
  <2> QED
    BY <1>1, <2>2
<1>6. TypeOK'
  <2>1. native' \in [Supported -> {NoFile} \cup Bytes]
    BY <1>5, StockBytes
  <2> QED
    BY <1>1, <2>1 DEF IInv, TypeOK
<1>7. Progress'
  <2>1. next' \in 1..(Len(t) + 1)
    BY <1>1, <1>2, <1>3
  <2>2. ASSUME NEW i \in 1..(next' - 1)
        PROVE  native'[t[i]] = Source[ver'][t[i]]
    <3>1. i \in 1..Len(t) /\ (i \in 1..(next - 1) \/ i = next)
      BY <1>1, <1>2, <1>3
    <3>2. CASE i = next
      BY <1>1, <1>5, <3>2
    <3>3. CASE i # next
      <4>1. t[i] \in Supported \ {a}
        BY <1>2, <1>3, <3>1, <3>3
      <4> QED
        BY <1>1, <1>2, <1>5, <3>1, <3>3, <4>1
    <3> QED
      BY <3>2, <3>3
  <2>3. pc' = "native" /\ last'.version = ver'
    BY <1>1 DEF IInv, Progress
  <2>4. Targets' = t
    OBVIOUS
  <2> QED
    BY <2>1, <2>2, <2>3, <2>4 DEF Progress
<1>8. Writing' /\ Finished'
  BY <1>1 DEF IInv, Writing, Finished
<1>9. Pieces'
  BY <1>1 DEF IInv, Pieces
<1> QED
  BY <1>5, <1>6, <1>7, <1>8, <1>9 DEF IInv

LEMMA BuildNativeFailsKeeps ==
    ASSUME IInv, BuildNativeFails
    PROVE  IInv'
<1> PICK a : a = Targets[next]
  OBVIOUS
<1>1. PICK left \in {native[a]} \cup Beginnings(Source[ver][a]) :
         native' = [native EXCEPT ![a] = left]
  BY DEF BuildNativeFails, Compiled
<1>2. a \in Supported
  <2>1. next \in 1..Len(Targets)
    BY TargetsAre DEF BuildNativeFails, IInv, Progress
  <2> QED
    BY <2>1, TargetsAre
<1>3. native \in Stock /\ ver \in Version
  BY DEF IInv, TypeOK
<1>4. left \in {NoFile} \cup Left(a)
  BY <1>2, <1>3, BeginningLeft, StockType
<1>5. native' \in Stock
  BY <1>1, <1>2, <1>3, <1>4, StockExcept
<1>6. /\ Exit("error") /\ UNCHANGED <<encoder, runs>>
      /\ artifact' = artifact
  BY DEF BuildNativeFails
<1> QED
  BY <1>5, <1>6, FilesKept, Failing

LEMMA NativesBuiltKeeps ==
    ASSUME IInv, NativesBuilt
    PROVE  IInv'
<1>1. /\ pc = "native" /\ pc' = "pack" /\ next' = 1 /\ next > Len(Targets)
      /\ native' = native /\ artifact' = artifact /\ manifest' = manifest
      /\ encoder' = encoder /\ ver' = ver /\ slices' = slices /\ blob' = blob
      /\ arts' = arts /\ said' = said /\ last' = last /\ runs' = runs
  BY DEF NativesBuilt, dist
<1>2. native = Source[ver]
  <2>1. next \in 1..(Len(Targets) + 1)
        /\ \A i \in 1..(next - 1) :
              native[Targets[i]] = Source[ver][Targets[i]]
    BY <1>1 DEF IInv, Progress
  <2>2. \A i \in 1..Len(Targets) : i \in 1..(next - 1)
    BY <1>1, <2>1, TargetsAre
  <2>3. \A a \in Supported : native[a] = Source[ver][a]
    BY <2>1, <2>2, TargetsAre
  <2>4. native = [a \in Supported |-> native[a]]
        /\ Source[ver] = [a \in Supported |-> Source[ver][a]]
    BY FatBuildAssumption DEF IInv, TypeOK
  <2> QED
    BY <2>3, <2>4
<1>3. TypeOK'
  BY <1>1 DEF IInv, TypeOK
<1>4. Progress'
  BY <1>1, <1>2 DEF IInv, Progress
<1>5. Writing' /\ Finished' /\ Pieces' /\ native' \in Stock
  BY <1>1 DEF IInv, Writing, Finished, Pieces
<1> QED
  BY <1>3, <1>4, <1>5 DEF IInv

\* Assemble reads the natives and compresses them.
LEMMA PackKeeps ==
    ASSUME IInv, Pack
    PROVE  IInv'
<1>1. /\ pc = "pack" /\ pc' = "write"
      /\ slices' = RawSlices(native) /\ blob' = CompressBlob(slices', encoder)
      /\ native' = native /\ artifact' = artifact /\ manifest' = manifest
      /\ encoder' = encoder /\ ver' = ver /\ next' = next /\ arts' = arts
      /\ said' = said /\ last' = last /\ runs' = runs
  BY DEF Pack, dist
<1>2. next = 1 /\ arts = <<>> /\ said # "ok" /\ native \in Stock
  BY <1>1 DEF IInv, TypeOK, Progress, Finished
<1>3. Len(slices') \in Nat
  BY <1>1, <1>2, SlotsAre DEF RawSlices
<1>4. TypeOK'
  <2>1. next' \in 1..(Len(slices') + 1) /\ Len(arts') = next' - 1
        /\ \A i \in 1..Len(arts') : arts'[i].arch = slices'[i].arch
    BY <1>1, <1>2, <1>3
  <2> QED
    BY <1>1, <2>1 DEF IInv, TypeOK
<1>5. Progress'
  BY <1>1 DEF IInv, Progress
<1>6. Writing'
  <2>1. slices' = RawSlices(native') /\ blob' = Packed(native', encoder')
    BY <1>1 DEF Packed
  <2>2. next' - 1 = 0 /\ 1..0 = {}
    BY <1>1, <1>2
  <2>3. arts' = Lists(slices', blob', next' - 1)
    BY <1>1, <1>2, <2>2 DEF Lists
  <2>4. Lie(artifact', slices', blob', next' - 1)
    BY <2>2 DEF Lie
  <2> QED
    BY <2>1, <2>3, <2>4 DEF Writing
<1>7. Finished' /\ Pieces' /\ native' \in Stock
  BY <1>1, <1>2 DEF IInv, Finished, Pieces
<1> QED
  BY <1>4, <1>5, <1>6, <1>7 DEF IInv

LEMMA PackFailsKeeps ==
    ASSUME IInv, PackFails
    PROVE  IInv'
<1>1. /\ Exit("error") /\ UNCHANGED <<encoder, runs>>
      /\ native' = native /\ artifact' = artifact
  BY DEF PackFails, dist
<1> QED
  BY <1>1, FilesKept, Failing

\* One more slice is listed.
LEMMA ListsNext ==
    ASSUME NEW r, NEW b, NEW n \in Nat, n >= 1
    PROVE  /\ Append(Lists(r, b, n - 1), ListedIn(r[n], b)) = Lists(r, b, n)
           /\ Len(Lists(r, b, n)) = n
           /\ \A i \in 1..n : Lists(r, b, n)[i] = ListedIn(r[i], b)
<1> DEFINE S == {ListedIn(r[i], b) : i \in 1..n}
           s == Lists(r, b, n - 1)
           x == ListedIn(r[n], b)
           t == Lists(r, b, n)
<1>1. n - 1 \in Nat /\ n \in 1..n /\ \A i \in 1..(n - 1) : i \in 1..n
  OBVIOUS
<1>2. s \in Seq(S) /\ Len(s) = n - 1 /\ \A i \in 1..(n - 1) : s[i] = ListedIn(r[i], b)
  <2>1. s \in [1..(n - 1) -> S]
    BY <1>1 DEF Lists
  <2>2. \A i \in 1..(n - 1) : s[i] = ListedIn(r[i], b)
    BY DEF Lists
  <2> HIDE DEF s, S
  <2> QED
    BY <1>1, <2>1, <2>2
<1>3. t \in Seq(S) /\ Len(t) = n /\ \A i \in 1..n : t[i] = ListedIn(r[i], b)
  <2>1. t \in [1..n -> S]
    BY DEF Lists
  <2>2. \A i \in 1..n : t[i] = ListedIn(r[i], b)
    BY DEF Lists
  <2> HIDE DEF t, S
  <2> QED
    BY <2>1, <2>2
<1>4. x \in S
  BY <1>1
<1>x. x = ListedIn(r[n], b)
  OBVIOUS
<1> HIDE DEF s, t, S, x
<1>5. /\ Append(s, x) \in Seq(S) /\ Len(Append(s, x)) = n
      /\ Append(s, x)[n] = x /\ \A i \in 1..(n - 1) : Append(s, x)[i] = s[i]
  BY <1>2, <1>4, AppendProperties
<1>6. \A i \in 1..n : Append(s, x)[i] = t[i]
  <2>1. \A i \in 1..n : i \in 1..(n - 1) \/ i = n
    OBVIOUS
  <2> QED
    BY <1>2, <1>3, <1>5, <1>x, <2>1
<1>7. Append(s, x) = t
  BY <1>3, <1>5, <1>6, SeqEqual
<1> QED
  BY <1>3, <1>7 DEF s, t, x

\* What Assemble holds while it writes.
LEMMA WritingFacts ==
    ASSUME IInv, pc = "write"
    PROVE  /\ native \in Stock /\ encoder \in Encoder
           /\ slices = RawSlices(native) /\ blob = Packed(native, encoder)
           /\ Len(slices) \in Nat /\ next \in 1..(Len(slices) + 1)
           /\ arts = Lists(slices, blob, next - 1)
           /\ Lie(artifact, slices, blob, next - 1)
           /\ said # "ok"
           /\ \A i \in 1..Len(slices) : slices[i].arch \in Arch
           /\ \A i, j \in 1..Len(slices) :
                 slices[i].arch = slices[j].arch => i = j
<1>1. /\ native \in Stock /\ encoder \in Encoder
      /\ slices = RawSlices(native) /\ blob = Packed(native, encoder)
      /\ next \in 1..(Len(slices) + 1)
      /\ arts = Lists(slices, blob, next - 1)
      /\ Lie(artifact, slices, blob, next - 1) /\ said # "ok"
  BY DEF IInv, TypeOK, Writing, Finished
<1>2. Len(RawSlices(native)) = Len(Slots(native)) /\ Len(Slots(native)) \in Nat
      /\ \A i, j \in 1..Len(Slots(native)) :
            Slots(native)[i] = Slots(native)[j] => i = j
  BY <1>1, PackedIs, SlotsAre
<1>3. \A i \in 1..Len(slices) :
         slices[i].arch \in Arch /\ slices[i].arch = Slots(native)[i]
  BY <1>1, PackedSlice
<1> QED
  BY <1>1, <1>2, <1>3

\* One artifact is written, or an architecture without a binary is listed.
LEMMA WriteArtifactKeeps ==
    ASSUME IInv, WriteArtifact
    PROVE  IInv'
<1> PICK r : r = slices
  OBVIOUS
<1> PICK b : b = blob
  OBVIOUS
<1> PICK n : n = next
  OBVIOUS
<1> PICK s : s = r[n]
  OBVIOUS
<1> PICK full : full = BuildCanonical(s.data, b)
  OBVIOUS
<1>1. /\ pc = "write" /\ n <= Len(r) /\ next' = n + 1
      /\ artifact' = IF Occupied(s) THEN [artifact EXCEPT ![s.arch] = full]
                     ELSE artifact
      /\ arts' = Append(arts, ListedIn(s, b))
      /\ native' = native /\ manifest' = manifest /\ encoder' = encoder
      /\ pc' = pc /\ ver' = ver /\ slices' = r /\ blob' = b /\ said' = said
      /\ last' = last /\ runs' = runs
  BY DEF WriteArtifact, Image, Listed, ListedIn
<1>2. /\ native \in Stock /\ encoder \in Encoder
      /\ r = RawSlices(native) /\ b = Packed(native, encoder)
      /\ Len(r) \in Nat /\ n \in 1..(Len(r) + 1)
      /\ arts = Lists(r, b, n - 1)
      /\ Lie(artifact, r, b, n - 1)
      /\ said # "ok"
      /\ \A i, j \in 1..Len(r) : r[i].arch = r[j].arch => i = j
  BY <1>1, WritingFacts
<1>3. n \in 1..Len(r) /\ n \in Nat /\ n >= 1 /\ (n + 1) - 1 = n
  BY <1>1, <1>2
<1>4. Occupied(s) => /\ s.arch \in Supported /\ full \in Seq(Cell)
                     /\ Piece(full, s.arch)
  BY <1>2, <1>3, SlicePiece
<1>5. /\ artifact \in [Supported -> {NoFile} \cup Seq(Cell)]
      /\ \A a \in Supported : Piece(artifact[a], a)
  BY FilesKept
<1>6. /\ artifact' \in [Supported -> {NoFile} \cup Seq(Cell)]
      /\ \A a \in Supported :
            artifact'[a] = IF Occupied(s) /\ a = s.arch THEN full
                           ELSE artifact[a]
  <2>1. CASE Occupied(s)
    BY <1>1, <1>4, <1>5, <2>1
  <2>2. CASE ~Occupied(s)
    BY <1>1, <1>5, <2>2
  <2> QED
    BY <2>1, <2>2
<1>7. /\ arts' = Lists(r, b, n) /\ Len(Lists(r, b, n)) = n
      /\ \A i \in 1..n : Lists(r, b, n)[i] = ListedIn(r[i], b)
  <2>1. arts' = Append(Lists(r, b, n - 1), ListedIn(r[n], b))
    <3>1. s = r[n] /\ arts = Lists(r, b, n - 1)
      BY <1>2
    <3> QED
      BY <1>1, <3>1
  <2>2. n \in Nat /\ n >= 1
    BY <1>3
  <2> QED
    BY <2>1, <2>2, ListsNext
<1>8. TypeOK'
  <2>1. next' \in 1..(Len(r) + 1) /\ Len(arts') = next' - 1
    BY <1>1, <1>2, <1>3, <1>7
  <2>2. \A i \in 1..Len(arts') : arts'[i].arch = r[i].arch
    BY <1>7 DEF ListedIn
  <2>3. pc' = "write" /\ slices' = r
    BY <1>1
  <2>4. native' \in [Supported -> {NoFile} \cup Bytes]
    BY <1>1, <1>2, StockBytes
  <2>5. /\ encoder' \in Encoder /\ ver' \in Version
        /\ said' \in {"", "ok", "error"} /\ runs' \in 0..MaxRuns
    BY <1>1 DEF IInv, TypeOK
  <2> QED
    BY <1>6, <2>1, <2>2, <2>3, <2>4, <2>5 DEF TypeOK
<1>9. Progress'
  BY <1>1 DEF IInv, Progress
<1>10. Writing'
  <2>1. slices' = RawSlices(native') /\ blob' = Packed(native', encoder')
        /\ next' - 1 = n
    BY <1>1, <1>2, <1>3
  <2>2. Lie(artifact', r, b, n)
    <3>1. SUFFICES ASSUME NEW i \in 1..n, Occupied(r[i])
                   PROVE  artifact'[r[i].arch] = BuildCanonical(r[i].data, b)
      BY DEF Lie
    <3>2. i \in 1..Len(r) /\ (i = n \/ i \in 1..(n - 1))
      BY <1>3
    <3>3. r[i].arch \in Supported
      BY <1>2, <3>1, <3>2, SlicePiece
    <3>4. CASE i = n
      BY <1>6, <3>1, <3>3, <3>4
    <3>5. CASE i # n
      <4>1. r[i].arch # s.arch
        BY <1>2, <1>3, <3>2, <3>5
      <4>2. artifact[r[i].arch] = BuildCanonical(r[i].data, b)
        BY <1>2, <3>1, <3>2, <3>5 DEF Lie
      <4> QED
        BY <1>6, <3>3, <4>1, <4>2
    <3> QED
      BY <3>4, <3>5
  <2> QED
    BY <1>1, <1>7, <2>1, <2>2 DEF Writing
<1>11. Finished'
  BY <1>1, <1>2 DEF Finished
<1>12. Pieces'
  <2>1. \A a \in Supported : Piece(artifact'[a], a)
    BY <1>4, <1>5, <1>6
  <2> QED
    BY <2>1 DEF Pieces
<1> QED
  BY <1>1, <1>2, <1>8, <1>9, <1>10, <1>11, <1>12 DEF IInv

LEMMA WriteArtifactFailsKeeps ==
    ASSUME IInv, WriteArtifactFails
    PROVE  IInv'
<1> PICK s : s = slices[next]
  OBVIOUS
<1> PICK full : full = BuildCanonical(s.data, blob)
  OBVIOUS
<1>1. /\ pc = "write" /\ next <= Len(slices) /\ Occupied(s)
      /\ Exit("error") /\ UNCHANGED <<encoder, runs>> /\ native' = native
  BY DEF WriteArtifactFails
<1>2. PICK left \in {artifact[s.arch]} \cup Beginnings(full) :
         artifact' = [artifact EXCEPT ![s.arch] = left]
  BY DEF WriteArtifactFails, Image, Overwritten
<1>3. /\ native \in Stock /\ encoder \in Encoder
      /\ slices = RawSlices(native) /\ blob = Packed(native, encoder)
      /\ Len(slices) \in Nat /\ next \in 1..(Len(slices) + 1)
  BY <1>1, WritingFacts
<1>4. next \in 1..Len(slices)
  BY <1>1, <1>3
<1>5. /\ s.arch \in Supported
      /\ \A f \in Beginnings(full) : f \in Seq(Cell) /\ Piece(f, s.arch)
  BY <1>1, <1>3, <1>4, SlicePiece
<1>6. /\ artifact \in [Supported -> {NoFile} \cup Seq(Cell)]
      /\ \A a \in Supported : Piece(artifact[a], a)
  BY FilesKept
<1>7. left \in {NoFile} \cup Seq(Cell) /\ Piece(left, s.arch)
  BY <1>2, <1>5, <1>6
<1>8. /\ artifact' \in [Supported -> {NoFile} \cup Seq(Cell)]
      /\ \A a \in Supported : Piece(artifact'[a], a)
  BY <1>2, <1>5, <1>6, <1>7
<1>9. native' \in Stock
  BY <1>1, <1>3
<1> QED
  BY <1>1, <1>8, <1>9, Failing

\* The manifest is written last, and of what then lies in the directory.
LEMMA WriteManifestKeeps ==
    ASSUME IInv, WriteManifest
    PROVE  IInv'
<1> PICK r : r = slices
  OBVIOUS
<1> PICK b : b = blob
  OBVIOUS
<1>1. /\ pc = "write" /\ next > Len(r)
      /\ manifest' = [blob |-> Encode(b), arts |-> arts]
      /\ pc' = "idle" /\ said' = "ok" /\ next' = 1 /\ slices' = <<>>
      /\ blob' = <<>> /\ arts' = <<>> /\ ver' = ver /\ last' = last
      /\ native' = native /\ artifact' = artifact /\ encoder' = encoder
      /\ runs' = runs
  BY DEF WriteManifest, Exit
<1>2. /\ native \in Stock /\ encoder \in Encoder
      /\ r = RawSlices(native) /\ b = Packed(native, encoder)
      /\ Len(r) \in Nat /\ next \in 1..(Len(r) + 1)
      /\ arts = Lists(r, b, next - 1)
      /\ Lie(artifact, r, b, next - 1)
  BY <1>1, WritingFacts
<1>3. next - 1 = Len(r)
  BY <1>1, <1>2
<1>4. TypeOK'
  BY <1>1 DEF IInv, TypeOK
<1>5. Progress'
  BY <1>1 DEF IInv, Progress
<1>6. Writing' /\ Pieces' /\ native' \in Stock
  BY <1>1, <1>2 DEF IInv, Writing, Pieces
<1>7. Finished'
  <2>1. manifest' = [blob |-> Encode(b), arts |-> Lists(r, b, Len(r))]
    BY <1>1, <1>2, <1>3
  <2>2. Lie(artifact', r, b, Len(r))
    BY <1>1, <1>2, <1>3
  <2>3. last'.cmd = "fatbuild" => native = Source[last'.version]
    BY <1>1 DEF IInv, Progress
  <2>4. \E nat \in Stock, e \in Encoder :
           /\ manifest' = [blob |-> Encode(Packed(nat, e)),
                           arts |-> Lists(RawSlices(nat), Packed(nat, e),
                                          Len(RawSlices(nat)))]
           /\ Lie(artifact', RawSlices(nat), Packed(nat, e),
                  Len(RawSlices(nat)))
           /\ last'.cmd = "fatbuild" => nat = Source[last'.version]
    BY <1>2, <2>1, <2>2, <2>3
  <2> QED
    BY <1>1, <2>4 DEF Finished
<1> QED
  BY <1>4, <1>5, <1>6, <1>7 DEF IInv

LEMMA WriteManifestFailsKeeps ==
    ASSUME IInv, WriteManifestFails
    PROVE  IInv'
<1>1. /\ Exit("error") /\ UNCHANGED <<encoder, runs>>
      /\ native' = native /\ artifact' = artifact
  BY DEF WriteManifestFails
<1> QED
  BY <1>1, FilesKept, Failing

\* A native is deleted between two commands.
LEMMA RemoveNativeKeeps ==
    ASSUME IInv, NEW a \in Supported, RemoveNative(a)
    PROVE  IInv'
<1>1. /\ pc = "idle" /\ native' = [native EXCEPT ![a] = NoFile]
      /\ artifact' = artifact /\ manifest' = manifest /\ encoder' = encoder
      /\ pc' = pc /\ ver' = ver /\ next' = next /\ slices' = slices
      /\ blob' = blob /\ arts' = arts /\ said' = said /\ last' = last
      /\ runs' = runs
  BY DEF RemoveNative, process
<1>2. native' \in Stock
  <2>1. native \in Stock /\ NoFile \in {NoFile} \cup Left(a)
    BY DEF IInv
  <2>2. [native EXCEPT ![a] = NoFile] \in Stock
    BY <2>1, StockExcept
  <2> QED
    BY <1>1, <2>2
<1>3. TypeOK'
  <2>1. native' \in [Supported -> {NoFile} \cup Bytes]
    BY <1>2, StockBytes
  <2> QED
    BY <1>1, <2>1 DEF IInv, TypeOK
<1>4. Progress'
  BY <1>1 DEF IInv, Progress
<1>5. Writing' /\ Finished' /\ Pieces'
  BY <1>1 DEF IInv, Writing, Finished, Pieces
<1> QED
  BY <1>2, <1>3, <1>4, <1>5 DEF IInv

\* xz is installed or removed between two commands.
LEMMA ChangeEncoderKeeps ==
    ASSUME IInv, ChangeEncoder
    PROVE  IInv'
<1>1. /\ pc = "idle" /\ encoder' \in Encoder /\ native' = native
      /\ artifact' = artifact /\ manifest' = manifest
      /\ pc' = pc /\ ver' = ver /\ next' = next /\ slices' = slices
      /\ blob' = blob /\ arts' = arts /\ said' = said /\ last' = last
      /\ runs' = runs
  BY DEF ChangeEncoder, dist, process
<1>2. TypeOK'
  BY <1>1 DEF IInv, TypeOK
<1>3. Progress'
  BY <1>1 DEF IInv, Progress
<1>4. Writing' /\ Finished' /\ Pieces' /\ native' \in Stock
  BY <1>1 DEF IInv, Writing, Finished, Pieces
<1> QED
  BY <1>2, <1>3, <1>4 DEF IInv

LEMMA Idling ==
    ASSUME IInv, UNCHANGED vars
    PROVE  IInv'
<1>1. /\ native' = native /\ artifact' = artifact /\ manifest' = manifest
      /\ encoder' = encoder /\ pc' = pc /\ ver' = ver /\ next' = next
      /\ slices' = slices /\ blob' = blob /\ arts' = arts /\ said' = said
      /\ last' = last /\ runs' = runs
  BY DEF vars, dist, process
<1>2. TypeOK' /\ Progress'
  BY <1>1 DEF IInv, TypeOK, Progress
<1>3. Writing' /\ Finished' /\ Pieces' /\ native' \in Stock
  BY <1>1 DEF IInv, Writing, Finished, Pieces
<1> QED
  BY <1>2, <1>3 DEF IInv

\* The inductive invariant of the directory: what each file of it may hold at
\* any step of any command, whatever failed before.
THEOREM Invariance == Spec => []IInv
<1>1. ASSUME IInv, [Next]_vars
      PROVE  IInv'
  <2>1. CASE RunFatbuild \/ RunFatpack
    BY <1>1, <2>1, RunKeeps
  <2>2. CASE BuildNative
    BY <1>1, <2>2, BuildNativeKeeps
  <2>3. CASE BuildNativeFails
    BY <1>1, <2>3, BuildNativeFailsKeeps
  <2>4. CASE NativesBuilt
    BY <1>1, <2>4, NativesBuiltKeeps
  <2>5. CASE Pack
    BY <1>1, <2>5, PackKeeps
  <2>6. CASE PackFails
    BY <1>1, <2>6, PackFailsKeeps
  <2>7. CASE WriteArtifact
    BY <1>1, <2>7, WriteArtifactKeeps
  <2>8. CASE WriteArtifactFails
    BY <1>1, <2>8, WriteArtifactFailsKeeps
  <2>9. CASE WriteManifest
    BY <1>1, <2>9, WriteManifestKeeps
  <2>10. CASE WriteManifestFails
    BY <1>1, <2>10, WriteManifestFailsKeeps
  <2>11. CASE \E a \in Supported : RemoveNative(a)
    BY <1>1, <2>11, RemoveNativeKeeps
  <2>12. CASE ChangeEncoder
    BY <1>1, <2>12, ChangeEncoderKeeps
  <2>13. CASE UNCHANGED vars
    BY <1>1, <2>13, Idling
  <2> QED
    BY <1>1, <2>1, <2>2, <2>3, <2>4, <2>5, <2>6, <2>7, <2>8, <2>9, <2>10,
       <2>11, <2>12, <2>13 DEF Next
<1> QED
  BY <1>1, Initially, PTL DEF Spec

-----------------------------------------------------------------------------
(* What it is worth.                                                       *)

\* Type correctness; Assemble has listed each slot it is past, in order.
THEOREM TypeCorrect == Spec => []TypeOK
<1>1. IInv => TypeOK
  BY DEF IInv
<1> QED
  BY <1>1, Invariance, PTL

\* In the middle of a build and after one that was killed, whatever natives it
\* packed: an artifact that carries a blob is the image that blob holds for it.
THEOREM ArtifactsSound == Spec => []ArtifactSound
<1>1. IInv => ArtifactSound
  <2> SUFFICES ASSUME IInv, NEW a \in Supported,
                      artifact[a] # NoFile, SplitOK(artifact[a])
               PROVE  /\ ReconstructOK(artifact[a], a)
                      /\ Reconstruct(artifact[a], a) = artifact[a]
    BY DEF ArtifactSound
  <2>1. Piece(artifact[a], a)
    BY DEF IInv, Pieces
  <2>2. PICK nat \in Stock, e \in Encoder :
           /\ a \in Served(nat)
           /\ \E n \in Nat :
                 /\ n <= Len(BuildCanonical(nat[a], Packed(nat, e)))
                 /\ artifact[a] =
                       SubSeq(BuildCanonical(nat[a], Packed(nat, e)), 1, n)
    BY <2>1 DEF Piece
  <2>3. PICK full : full = BuildCanonical(nat[a], Packed(nat, e))
    OBVIOUS
  <2>4. PICK n \in Nat : n <= Len(full) /\ artifact[a] = SubSeq(full, 1, n)
    BY <2>2, <2>3
  <2>5. /\ full \in Seq(Cell) /\ Len(full) \in Nat
        /\ \A k \in Nat : k < Len(full) => ~SplitOK(SubSeq(full, 1, k))
        /\ ReconstructOK(full, a)
        /\ Reconstruct(full, a) = full
    BY <2>2, <2>3, PackedLaw
  <2>6. n = Len(full)
    BY <2>4, <2>5
  <2>7. artifact[a] = full
    BY <2>4, <2>5, <2>6, SubSeqFull
  <2> QED
    BY <2>5, <2>7
<1> QED
  BY <1>1, Invariance, PTL

\* What a success means: of which natives and encoder the directory is made.
LEMMA FinishedFacts ==
    ASSUME NEW nat \in Stock, NEW files, NEW e \in Encoder,
           Lie(files, RawSlices(nat), Packed(nat, e), Len(RawSlices(nat)))
    PROVE  \A a \in Served(nat) :
              /\ files[a] = BuildCanonical(nat[a], Packed(nat, e))
              /\ \E i \in 1..Len(RawSlices(nat)) :
                    RawSlices(nat)[i].arch = a /\ Occupied(RawSlices(nat)[i])
<1> SUFFICES ASSUME NEW a \in Served(nat)
             PROVE  /\ files[a] = BuildCanonical(nat[a], Packed(nat, e))
                    /\ \E i \in 1..Len(RawSlices(nat)) :
                          /\ RawSlices(nat)[i].arch = a
                          /\ Occupied(RawSlices(nat)[i])
  OBVIOUS
<1>1. a \in Arch /\ a \in Supported /\ nat[a] \notin {NoFile, <<>>}
  BY ReleaseAssumption DEF Served
<1>2. PICK i \in 1..Len(Slots(nat)) : Slots(nat)[i] = a
  BY <1>1, SlotsAre
<1>3. i \in 1..Len(RawSlices(nat))
  BY PackedIs
<1>4. /\ RawSlices(nat)[i].arch = a /\ Occupied(RawSlices(nat)[i])
      /\ RawSlices(nat)[i].data = nat[a]
  BY <1>1, <1>2, <1>3, PackedSlice
<1>5. files[a] = BuildCanonical(nat[a], Packed(nat, e))
  BY <1>3, <1>4 DEF Lie
<1> QED
  BY <1>3, <1>4, <1>5

\* The entries of a manifest that was written.
LEMMA ManifestFacts ==
    ASSUME NEW nat \in Stock, NEW e \in Encoder, NEW m,
           m = [blob |-> Encode(Packed(nat, e)),
                arts |-> Lists(RawSlices(nat), Packed(nat, e),
                               Len(RawSlices(nat)))]
    PROVE  /\ m.blob = Encode(Packed(nat, e))
           /\ Len(m.arts) = Len(RawSlices(nat))
           /\ Len(m.arts) = Len(Slots(nat))
           /\ \A i \in 1..Len(m.arts) :
                 /\ m.arts[i].arch = Slots(nat)[i]
                 /\ m.arts[i].present <=> m.arts[i].arch \in Served(nat)
                 /\ m.arts[i].present =>
                       m.arts[i].image =
                          BuildCanonical(nat[m.arts[i].arch], Packed(nat, e))
<1> DEFINE r == RawSlices(nat)
           b == Packed(nat, e)
           l == Lists(r, b, Len(r))
<1>1. Len(r) \in Nat /\ Len(r) = Len(Slots(nat))
  BY SlotsAre, PackedIs
<1>2. m.blob = Encode(b) /\ m.arts = l
  OBVIOUS
<1>3. Len(l) = Len(r) /\ \A i \in 1..Len(r) : l[i] = ListedIn(r[i], b)
  <2> HIDE DEF r, b
  <2> QED
    BY <1>1 DEF Lists
<1>4. ASSUME NEW i \in 1..Len(r)
      PROVE  /\ l[i].arch = Slots(nat)[i]
             /\ l[i].present <=> l[i].arch \in Served(nat)
             /\ l[i].present => l[i].image = BuildCanonical(nat[l[i].arch], b)
  <2>1. /\ r[i].arch = Slots(nat)[i]
        /\ Occupied(r[i]) <=> r[i].arch \in Served(nat)
        /\ Occupied(r[i]) => r[i].data = nat[r[i].arch]
    BY PackedSlice DEF Served
  <2>2. /\ l[i].arch = r[i].arch /\ l[i].present = Occupied(r[i])
        /\ Occupied(r[i]) => l[i].image = BuildCanonical(r[i].data, b)
    <3> HIDE DEF r, b, l
    <3>1. l[i] = ListedIn(r[i], b)
      BY <1>3
    <3>2. /\ ListedIn(r[i], b).arch = r[i].arch
          /\ Occupied(r[i]) =>
                ListedIn(r[i], b).image = BuildCanonical(r[i].data, b)
      BY DEF ListedIn
    <3>3. ListedIn(r[i], b).present = Occupied(r[i])
      BY Zenon DEF ListedIn
    <3> QED
      BY <3>1, <3>2, <3>3
  <2> HIDE DEF r, b, l
  <2> QED
    BY <2>1, <2>2
<1> QED
  BY <1>1, <1>2, <1>3, <1>4

\* A fatbuild that succeeds leaves the artifacts of one complete release, of
\* the version it was asked for, and a manifest of just these, whatever lay in
\* the directory before.
THEOREM BuildsWhole == Spec => []BuildWhole
<1>1. IInv => BuildWhole
  <2> SUFFICES ASSUME IInv, said = "ok", last.cmd = "fatbuild"
               PROVE  BuildWhole
    BY DEF BuildWhole
  <2>1. PICK v : v = last.version
    OBVIOUS
  <2>2. v \in Version
    BY <2>1 DEF IInv, Progress, TypeOK
  <2>3. PICK e \in Encoder :
           /\ Source[v] \in Stock
           /\ manifest = [blob |-> Encode(Packed(Source[v], e)),
                          arts |-> Lists(RawSlices(Source[v]),
                                         Packed(Source[v], e),
                                         Len(RawSlices(Source[v])))]
           /\ Lie(artifact, RawSlices(Source[v]), Packed(Source[v], e),
                  Len(RawSlices(Source[v])))
    BY <2>1 DEF IInv, Finished
  <2>4. PICK nat : nat = Source[v]
    OBVIOUS
  <2>5. /\ nat \in Stock /\ Served(nat) = Supported
        /\ Slots(nat) = ArchOrder
        /\ Packed(nat, e) = SharedBlob(nat, e)
    BY <2>2, <2>3, <2>4, PackedSource
  <2>6. \A a \in Supported :
           artifact[a] = BuildCanonical(nat[a], Packed(nat, e))
    BY <2>3, <2>4, <2>5, FinishedFacts
  <2>7. /\ manifest.blob = Encode(Packed(nat, e))
        /\ Len(manifest.arts) = Len(ArchOrder)
        /\ \A i \in 1..Len(ArchOrder) :
              /\ manifest.arts[i].arch = ArchOrder[i]
              /\ manifest.arts[i].present <=>
                    manifest.arts[i].arch \in Supported
              /\ manifest.arts[i].present =>
                    manifest.arts[i].image =
                       BuildCanonical(nat[manifest.arts[i].arch],
                                      Packed(nat, e))
    BY <2>3, <2>4, <2>5, ManifestFacts
  <2>8. \A a \in Supported : artifact[a] = Canonical(nat, e, a)
    BY <2>5, <2>6 DEF Canonical
  <2>9. \A i \in 1..Len(ArchOrder) :
           /\ manifest.arts[i].arch = ArchOrder[i]
           /\ manifest.arts[i].present <=> manifest.arts[i].arch \in Supported
           /\ manifest.arts[i].present =>
                 manifest.arts[i].image = artifact[manifest.arts[i].arch]
    BY <2>6, <2>7
  <2>10. nat = Source[last.version]
    BY <2>1, <2>4
  <2> QED
    BY <2>5, <2>7, <2>8, <2>9, <2>10 DEF BuildWhole
<1> QED
  BY <1>1, Invariance, PTL

\* After any command that succeeds, on natives that are missing, cut or of
\* several versions too: what the manifest lists lies there as listed, carries
\* the listed blob, and any listed artifact rebuilds any other, and nothing
\* that is not listed.
THEOREM ListedHolds == Spec => []ListedLaw
<1>1. IInv => ListedLaw
  <2> SUFFICES ASSUME IInv, said = "ok" PROVE ListedLaw
    BY DEF ListedLaw
  <2>1. PICK nat \in Stock, e \in Encoder :
           /\ manifest = [blob |-> Encode(Packed(nat, e)),
                          arts |-> Lists(RawSlices(nat), Packed(nat, e),
                                         Len(RawSlices(nat)))]
           /\ Lie(artifact, RawSlices(nat), Packed(nat, e),
                  Len(RawSlices(nat)))
    BY DEF IInv, Finished
  <2>2. \A a \in Served(nat) :
           /\ artifact[a] = BuildCanonical(nat[a], Packed(nat, e))
           /\ \E i \in 1..Len(RawSlices(nat)) :
                 RawSlices(nat)[i].arch = a /\ Occupied(RawSlices(nat)[i])
    BY <2>1, FinishedFacts
  <2>3. /\ manifest.blob = Encode(Packed(nat, e))
        /\ Len(manifest.arts) = Len(Slots(nat))
        /\ \A i \in 1..Len(manifest.arts) :
              /\ manifest.arts[i].arch = Slots(nat)[i]
              /\ manifest.arts[i].present <=>
                    manifest.arts[i].arch \in Served(nat)
              /\ manifest.arts[i].present =>
                    manifest.arts[i].image =
                       BuildCanonical(nat[manifest.arts[i].arch],
                                      Packed(nat, e))
    BY <2>1, ManifestFacts
  <2>4. ASSUME NEW i \in 1..Len(manifest.arts), manifest.arts[i].present
        PROVE  artifact[manifest.arts[i].arch] = manifest.arts[i].image
    BY <2>2, <2>3, <2>4
  <2>5. ListedArch = Served(nat)
    <3>1. ASSUME NEW a \in Served(nat)
          PROVE  \E i \in 1..Len(manifest.arts) :
                    manifest.arts[i].present /\ manifest.arts[i].arch = a
      <4>1. a \in Arch /\ nat[a] # NoFile
        BY ReleaseAssumption DEF Served
      <4>2. PICK i \in 1..Len(Slots(nat)) : Slots(nat)[i] = a
        BY <4>1, SlotsAre
      <4>3. i \in 1..Len(manifest.arts)
        BY <2>3, <4>2
      <4>4. manifest.arts[i].arch = a
        BY <2>3, <4>2, <4>3
      <4>5. manifest.arts[i].present
        BY <2>3, <4>3, <4>4
      <4> QED
        BY <4>3, <4>4, <4>5
    <3>2. \A i \in 1..Len(manifest.arts) :
             manifest.arts[i].present => manifest.arts[i].arch \in Served(nat)
      BY <2>3
    <3>3. \A a : a \in ListedArch <=>
                    \E i \in 1..Len(manifest.arts) :
                       manifest.arts[i].present /\ manifest.arts[i].arch = a
      BY DEF ListedArch
    <3> QED
      BY <3>1, <3>2, <3>3
  <2>6. ASSUME NEW a \in Served(nat)
        PROVE  /\ TailOf(artifact[a]) = manifest.blob
               /\ \A t : /\ ReconstructOK(artifact[a], t) <=> t \in Served(nat)
                         /\ t \in Served(nat) =>
                               Reconstruct(artifact[a], t) = artifact[t]
    <3>1. artifact[a] = BuildCanonical(nat[a], Packed(nat, e))
      BY <2>2
    <3>2. /\ TailOf(artifact[a]) = Encode(Packed(nat, e))
          /\ \A t : /\ ReconstructOK(artifact[a], t) <=> t \in Served(nat)
                    /\ t \in Served(nat) =>
                          Reconstruct(artifact[a], t) =
                             BuildCanonical(nat[t], Packed(nat, e))
      BY <3>1, PackedLaw
    <3> QED
      BY <2>2, <2>3, <3>2
  <2> QED
    BY <2>4, <2>5, <2>6 DEF ListedLaw
<1> QED
  BY <1>1, Invariance, PTL

-----------------------------------------------------------------------------
(* A manifest, and so an artifact, is a function of natives and encoder.   *)

\* What Assemble writes of raw slices r with encoder e, whoever does it when.
Assembled(r, e) ==
    [blob |-> Encode(CompressBlob(r, e)),
     arts |-> Lists(r, CompressBlob(r, e), Len(r))]

\* A manifest that can be read is that of the natives it was made from.
Recorded ==
    Readable(manifest) =>
        \E e \in Encoder : manifest = Assembled(source, e)

LEMMA WriteManifestRecords ==
    ASSUME IInv, WriteManifest
    PROVE  \E e \in Encoder : manifest' = Assembled(source', e)
<1>1. PICK r : r = slices
  OBVIOUS
<1>2. PICK b : b = blob
  OBVIOUS
<1>3. PICK e \in Encoder : e = encoder
  BY DEF IInv, TypeOK
<1>4. /\ pc = "write" /\ next > Len(r)
      /\ manifest' = [blob |-> Encode(b), arts |-> arts]
      /\ source' = r
  BY <1>1, <1>2 DEF WriteManifest
<1>5. /\ r = RawSlices(native) /\ b = Packed(native, e)
      /\ Len(r) \in Nat /\ next \in 1..(Len(r) + 1)
      /\ arts = Lists(r, b, next - 1)
  BY <1>1, <1>2, <1>3, <1>4, WritingFacts
<1>6. next - 1 = Len(r)
  BY <1>4, <1>5
<1>7. b = CompressBlob(r, e)
  BY <1>5 DEF Packed
<1>8. manifest' = Assembled(r, e)
  BY <1>4, <1>5, <1>6, <1>7 DEF Assembled
<1> QED
  BY <1>4, <1>8

LEMMA NextRecorded == IInv /\ Recorded /\ [Next]_vars => Recorded'
<1> SUFFICES ASSUME IInv, Recorded, [Next]_vars PROVE Recorded'
  OBVIOUS
<1>1. CASE WriteManifest
  BY <1>1, WriteManifestRecords DEF Recorded
<1>2. CASE manifest' = Torn /\ source' = <<>>
  BY <1>2 DEF Recorded, Readable
<1>3. CASE UNCHANGED <<manifest, source>>
  BY <1>3 DEF Recorded, Readable
<1>4. \/ WriteManifest
      \/ manifest' = Torn /\ source' = <<>>
      \/ UNCHANGED <<manifest, source>>
  BY DEF Next, vars, dist, process, RunFatbuild, BuildNative,
     BuildNativeFails, NativesBuilt, RunFatpack, Pack, PackFails,
     WriteArtifact, WriteArtifactFails, WriteManifestFails, RemoveNative,
     ChangeEncoder, Begin, Exit
<1> QED
  BY <1>1, <1>2, <1>3, <1>4

LEMMA RecordedAlways == Spec => []Recorded
<1>1. Init => Recorded
  BY DEF Init, Recorded, Readable
<1> QED
  BY <1>1, NextRecorded, Invariance, PTL DEF Spec

\* The comment of Assemble is true of build machines with one encoder: then two
\* manifests made from the same natives are the same, whatever commands failed
\* or were killed over the directory in between.
THEOREM OneEncoderDeterministic ==
    ASSUME \A d, e \in Encoder : d = e
    PROVE  Spec => Deterministic
<1>1. ASSUME Recorded, Recorded'
      PROVE  [Readable(manifest) /\ Readable(manifest') /\ source' = source
                 => manifest' = manifest]_<<manifest, source>>
  <2> SUFFICES ASSUME Readable(manifest), Readable(manifest'),
                      source' = source
               PROVE  manifest' = manifest
    OBVIOUS
  <2>1. PICK d \in Encoder : manifest = Assembled(source, d)
    BY <1>1 DEF Recorded
  <2>2. PICK e \in Encoder : manifest' = Assembled(source, e)
    BY <1>1 DEF Recorded, Readable
  <2>3. d = e
    OBVIOUS
  <2> QED
    BY <2>1, <2>2, <2>3
<1> QED
  BY <1>1, RecordedAlways, PTL DEF Deterministic
=============================================================================
