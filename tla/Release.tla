------------------------------ MODULE Release ------------------------------
(***************************************************************************)
(* What a complete build releases (Assemble in src/internal/fatbuild):     *)
(* from the raw natives of every supported architecture, one compressed    *)
(* blob, and for each architecture its native followed by that blob.       *)
(***************************************************************************)
EXTENDS FatBlob

CONSTANTS
    ArchOrder,      \* FixedArchOrder: the slots of the blob, in their order
    Supported       \* the architectures a toolchain can build

Arch == {ArchOrder[i] : i \in 1..Len(ArchOrder)}

ASSUME ReleaseAssumption ==
    /\ ArchOrder \in Seq(Name)
    /\ \A i, j \in 1..Len(ArchOrder) : ArchOrder[i] = ArchOrder[j] => i = j
    /\ Supported \subseteq Arch

\* One slot per architecture: the native, or the reserved placeholder.
RawSlice(nat, a) ==
    IF a \in Supported
    THEN [arch |-> a, status |-> StatusPresent, codec |-> CodecNone,
          rawLen |-> 0, data |-> nat[a]]
    ELSE [arch |-> a, status |-> StatusReserved, codec |-> CodecNone,
          rawLen |-> 0, data |-> <<>>]

RawBlob(nat) == [i \in 1..Len(ArchOrder) |-> RawSlice(nat, ArchOrder[i])]

\* Compressed once: every image carries these very bytes.
SharedBlob(nat, e) == CompressBlob(RawBlob(nat), e)

\* The architectures that get an artifact.
Released(nat) == {a \in Supported : nat[a] # <<>>}

Canonical(nat, e, a) == BuildCanonical(nat[a], SharedBlob(nat, e))

\* A build this model speaks of: natives are opaque ELF files the encoder
\* was run on, and all sizes fit the integers of the machine.
Builds(nat, e) ==
    /\ e \in Encoder
    /\ nat \in [Supported -> Bytes]
    /\ \A a \in Released(nat) : nat[a] \in Natives /\ nat[a][1] = ElfMagic
    /\ \A a \in Supported : Len(nat[a]) < MaxAlloc /\ Len(nat[a]) <= MaxInt
    /\ Len(ArchOrder) <= MaxCount
    /\ EncodedLen(SharedBlob(nat, e)) <= MaxInt

=============================================================================
