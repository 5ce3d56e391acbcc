----------------------------- MODULE ArchDetect -----------------------------
(***************************************************************************)
(* The table of architectures (src/archdetect), the mapping from what      *)
(* `uname -m` prints, trimmed and in lower case, to an architecture id,    *)
(* and the look-ups the build and the program make.                        *)
(***************************************************************************)
EXTENDS Integers, Sequences

Table == <<
    [id |-> "386", goarch |-> "386", supported |-> TRUE,
     aliases |-> {"i386", "i486", "i586", "i686", "x86", "ia32"}],
    [id |-> "amd64", goarch |-> "amd64", supported |-> TRUE,
     aliases |-> {"x86_64", "amd64", "x64"}],
    [id |-> "arm", goarch |-> "arm", supported |-> TRUE,
     aliases |-> {"arm", "armv6l", "armv7l", "armhf", "armel", "armv5l"}],
    [id |-> "arm64", goarch |-> "arm64", supported |-> TRUE,
     aliases |-> {"aarch64", "arm64", "armv8l"}],
    [id |-> "riscv64", goarch |-> "riscv64", supported |-> TRUE,
     aliases |-> {"riscv64"}],
    [id |-> "riscv32", goarch |-> "", supported |-> FALSE,
     aliases |-> {"riscv32", "riscv", "riscv32gc"}] >>

\* The slots of a blob, kept in a second list in the package fatblob.
FixedArchOrder == <<"386", "amd64", "arm", "arm64", "riscv64", "riscv32">>

\* A search in the table returns the first row that matches.
FirstRow(Test(_)) ==
    CHOOSE i \in 1..Len(Table) : Test(i) /\ \A j \in 1..(i - 1) : ~Test(j)

Matches(i, m) == m = Table[i].id \/ m \in Table[i].aliases

FromUnameOK(m) == \E i \in 1..Len(Table) : Matches(i, m)

FromUname(m) == Table[FirstRow(LAMBDA i : Matches(i, m))].id

LookupOK(id) == \E i \in 1..Len(Table) : Table[i].id = id

Lookup(id) == Table[FirstRow(LAMBDA i : Table[i].id = id)]

\* The id of the running program; GOARCH itself on a port not in the table.
BuiltFor(i, goarch) == Table[i].goarch # "" /\ Table[i].goarch = goarch

Current(goarch) ==
    IF \E i \in 1..Len(Table) : BuiltFor(i, goarch)
    THEN Table[FirstRow(LAMBDA i : BuiltFor(i, goarch))].id
    ELSE goarch

=============================================================================
