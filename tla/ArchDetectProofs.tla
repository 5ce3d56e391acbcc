-------------------------- MODULE ArchDetectProofs --------------------------
(***************************************************************************)
(* The table of architectures is unambiguous, and agrees with the order of *)
(* the slots of a blob.                                                    *)
(***************************************************************************)
EXTENDS ArchDetect, TLAPS

Row == 1..6

\* The rows, one by one.
LEMMA Rows ==
    /\ Len(Table) = 6
    /\ \A i \in Row : i = 1 \/ i = 2 \/ i = 3 \/ i = 4 \/ i = 5 \/ i = 6
    /\ Table[1].id = "386" /\ Table[2].id = "amd64" /\ Table[3].id = "arm"
    /\ Table[4].id = "arm64" /\ Table[5].id = "riscv64"
    /\ Table[6].id = "riscv32"
  <1>1. Len(Table) = 6
    BY DEF Table
  <1>2. \A i \in Row : i = 1 \/ i = 2 \/ i = 3 \/ i = 4 \/ i = 5 \/ i = 6
    BY DEF Row
  <1>3. Table[1].id = "386" /\ Table[2].id = "amd64" /\ Table[3].id = "arm"
    BY DEF Table
  <1>4. Table[4].id = "arm64" /\ Table[5].id = "riscv64"
        /\ Table[6].id = "riscv32"
    BY DEF Table
  <1>5. QED
    BY <1>1, <1>2, <1>3, <1>4

LEMMA Aliases ==
    /\ Table[1].aliases = {"i386", "i486", "i586", "i686", "x86", "ia32"}
    /\ Table[2].aliases = {"x86_64", "amd64", "x64"}
    /\ Table[3].aliases
         = {"arm", "armv6l", "armv7l", "armhf", "armel", "armv5l"}
    /\ Table[4].aliases = {"aarch64", "arm64", "armv8l"}
    /\ Table[5].aliases = {"riscv64"}
    /\ Table[6].aliases = {"riscv32", "riscv", "riscv32gc"}
  BY DEF Table

\* The table and the blob list the same architectures in the same order, each
\* once: the loops of BuildAll (over the table) and of Assemble (over
\* FixedArchOrder) agree.
THEOREM TableOrder ==
    /\ Len(Table) = Len(FixedArchOrder)
    /\ \A i \in 1..Len(Table) : Table[i].id = FixedArchOrder[i]
    /\ \A i, j \in 1..Len(Table) : Table[i].id = Table[j].id => i = j
  <1>1. Len(FixedArchOrder) = 6
    BY DEF FixedArchOrder
  <1>2. /\ FixedArchOrder[1] = "386" /\ FixedArchOrder[2] = "amd64"
        /\ FixedArchOrder[3] = "arm" /\ FixedArchOrder[4] = "arm64"
        /\ FixedArchOrder[5] = "riscv64" /\ FixedArchOrder[6] = "riscv32"
    BY DEF FixedArchOrder
  <1>3. \A i \in Row : Table[i].id = FixedArchOrder[i]
    BY <1>2, Rows
  <1>4. \A i, j \in Row : Table[i].id = Table[j].id => i = j
    BY Rows
  <1>5. QED
    BY <1>1, <1>3, <1>4, Rows DEF Row

\* The row whose id or alias a name is.
LEMMA RowOf ==
    ASSUME NEW m, NEW i \in Row, Matches(i, m)
    PROVE  \/ i = 1 /\ m \in {"386", "i386", "i486", "i586", "i686", "x86",
                              "ia32"}
           \/ i = 2 /\ m \in {"x86_64", "amd64", "x64"}
           \/ i = 3 /\ m \in {"arm", "armv6l", "armv7l", "armhf", "armel",
                              "armv5l"}
           \/ i = 4 /\ m \in {"aarch64", "arm64", "armv8l"}
           \/ i = 5 /\ m \in {"riscv64"}
           \/ i = 6 /\ m \in {"riscv32", "riscv", "riscv32gc"}
  BY Rows, Aliases DEF Matches

\* Each name uname -m may print belongs to one row: no alias of an
\* architecture is the id or an alias of another one.
THEOREM Unambiguous ==
    ASSUME NEW m, NEW i \in 1..Len(Table), NEW j \in 1..Len(Table),
           Matches(i, m), Matches(j, m)
    PROVE  i = j
  <1>1. i \in Row /\ j \in Row
    BY Rows DEF Row
  <1>2. QED
    BY <1>1, RowOf

\* So the order of the table does not matter: FromUname, which takes the first
\* row that matches, gives the id of any row that does.
THEOREM FromUnameExact ==
    ASSUME NEW m, NEW i \in 1..Len(Table), Matches(i, m)
    PROVE  FromUnameOK(m) /\ FromUname(m) = Table[i].id
  <1> DEFINE First(k) == /\ Matches(k, m)
                         /\ \A j \in 1..(k - 1) : ~Matches(j, m)
  <1>1. \A j \in 1..(i - 1) : j \in 1..Len(Table)
    BY Rows
  <1>2. First(i)
    BY <1>1, Unambiguous
  <1>3. \A k \in 1..Len(Table) : First(k) => k = i
    BY Unambiguous
  <1>4. (CHOOSE k \in 1..Len(Table) : First(k)) = i
    BY <1>2, <1>3
  <1>5. FromUname(m) = Table[CHOOSE k \in 1..Len(Table) : First(k)].id
    BY DEF FromUname, FirstRow
  <1>6. QED
    BY <1>4, <1>5 DEF FromUnameOK

\* Lookup finds the row of each id in the table: Assemble's question whether a
\* slot is supported, whose answer ok it ignores, is answered by that slot's row.
THEOREM LookupExact ==
    ASSUME NEW i \in 1..Len(Table)
    PROVE  LookupOK(Table[i].id) /\ Lookup(Table[i].id) = Table[i]
  <1> DEFINE id == Table[i].id
             First(k) == /\ Table[k].id = id
                         /\ \A j \in 1..(k - 1) : ~(Table[j].id = id)
  <1>1. \A j \in 1..(i - 1) : j \in 1..Len(Table) /\ j # i
    BY Rows
  <1>2. First(i)
    BY <1>1, TableOrder
  <1>3. \A k \in 1..Len(Table) : First(k) => k = i
    BY TableOrder
  <1>4. (CHOOSE k \in 1..Len(Table) : First(k)) = i
    BY <1>2, <1>3
  <1>5. Lookup(id) = Table[CHOOSE k \in 1..Len(Table) : First(k)]
    BY DEF Lookup, FirstRow
  <1>6. QED
    BY <1>4, <1>5 DEF LookupOK

LEMMA Goarchs ==
    /\ \A i \in 1..5 : Table[i].goarch = Table[i].id /\ Table[i].goarch # ""
    /\ Table[6].goarch = ""
  <1>1. /\ Table[1].goarch = "386" /\ Table[2].goarch = "amd64"
        /\ Table[3].goarch = "arm" /\ Table[4].goarch = "arm64"
        /\ Table[5].goarch = "riscv64"
    BY DEF Table
  <1>2. Table[6].goarch = ""
    BY DEF Table
  <1>3. \A i \in 1..5 : i = 1 \/ i = 2 \/ i = 3 \/ i = 4 \/ i = 5
    OBVIOUS
  <1>4. QED
    BY <1>1, <1>2, <1>3, Rows

\* A program built for a supported architecture knows its own id (Current),
\* which is the one verify reconstructs and the blob holds it under.
THEOREM CurrentOwn ==
    ASSUME NEW i \in 1..Len(Table), Table[i].supported
    PROVE  Current(Table[i].goarch) = Table[i].id
  <1> DEFINE go == Table[i].goarch
             First(k) == /\ BuiltFor(k, go)
                         /\ \A j \in 1..(k - 1) : ~BuiltFor(j, go)
  <1>1. i \in 1..5
    <2>1. Table[6].supported = FALSE
      BY DEF Table
    <2>2. i # 6
      BY <2>1, Zenon
    <2>3. QED
      BY <2>2, Rows
  <1>2. \A k \in 1..Len(Table) : BuiltFor(k, go) <=> k = i
    <2>1. \A k \in 1..Len(Table) : k \in 1..5 \/ k = 6
      BY Rows
    <2>2. ASSUME NEW k \in 1..5, Table[k].goarch = go
          PROVE  k = i
      <3>1. Table[k].id = Table[i].id
        BY <1>1, <2>2, Goarchs
      <3>2. k \in 1..Len(Table)
        BY Rows
      <3>3. QED
        BY <3>1, <3>2, TableOrder
    <2>3. go # ""
      BY <1>1, Goarchs
    <2>4. ~BuiltFor(6, go)
      BY Goarchs DEF BuiltFor
    <2>5. ASSUME NEW k \in 1..Len(Table), BuiltFor(k, go)
          PROVE  k = i
      <3>1. Table[k].goarch = go
        BY <2>5 DEF BuiltFor
      <3>2. k \in 1..5
        BY <2>1, <2>4, <2>5
      <3>3. QED
        BY <3>1, <3>2, <2>2
    <2>6. BuiltFor(i, go)
      BY <2>3 DEF BuiltFor
    <2>7. QED
      BY <2>5, <2>6
  <1>3. First(i)
    BY <1>1, <1>2, Rows
  <1>4. (CHOOSE k \in 1..Len(Table) : First(k)) = i
    BY <1>2, <1>3
  <1>5. Current(go) = Table[CHOOSE k \in 1..Len(Table) : First(k)].id
    BY <1>2 DEF Current, FirstRow
  <1>6. QED
    BY <1>4, <1>5

=============================================================================
