---------------------------- MODULE TeleportSelf ----------------------------
(***************************************************************************)
(* The distributed program on one machine (src/cmd/go-teleport-self): it   *)
(* reads its own file on every command, verifies it, lists it, extracts    *)
(* the image for another architecture out of it; the extracted file may be *)
(* run in its turn, hop after hop.  A write may stop half-way, and one     *)
(* cell of the file may be damaged where it lies.                          *)
(***************************************************************************)
EXTENDS Release

CONSTANTS
    Native,         \* the natives of the one release all files come from
    Enc,            \* the encoder it was built with
    Probe           \* the numbers a damaged field may hold

\* The ELF headers of two architectures differ (e_machine).
ASSUME TeleportSelfAssumption ==
    /\ Builds(Native, Enc)
    /\ Released(Native) # {}
    /\ \A a, b \in Released(Native) :
          a # b => \E i \in 1..Len(Native[a]) :
                      i <= Len(Native[b]) /\ Native[a][i] # Native[b][i]
    /\ Probe \subseteq U64

Blob == SharedBlob(Native, Enc)
BlobBytes == Encode(Blob)
Canon == [a \in Released(Native) |-> Canonical(Native, Enc, a)]

VARIABLES
    file,           \* the bytes of the running executable's own file
    goarch,         \* the architecture of the program that runs
    reply,          \* what the last command answered, and what it wrote
    wear            \* ghost: what was damaged so far

vars == <<file, goarch, reply, wear>>

Reply == [cmd : {"none", "verify", "list", "extract"},
          arch : Name,
          said : {"", "canonical", "round-trips", "listed", "wrote",
                  "error", "panic"},
          present : SUBSET Name,
          out : Seq(Cell)]

Answer(cmd, t, said, present, out) ==
    reply' = [cmd |-> cmd, arch |-> t, said |-> said, present |-> present,
              out |-> out]

NoReply == [cmd |-> "none", arch |-> ArchOrder[1], said |-> "",
            present |-> {}, out |-> <<>>]

Init ==
    /\ goarch \in Released(Native)
    /\ file = Canon[goarch]
    /\ reply = NoReply
    /\ wear = "none"

-----------------------------------------------------------------------------
(* The commands.                                                           *)

\* Mutant of Present: every slot is listed.
PresentSlots(image) ==
    LET b == BlobOf(image)
    IN  {b[i].arch : i \in 1..Len(b)}

\* Listed by inventory as present.
Present(image) ==
    LET b == BlobOf(image)
    IN  {b[i].arch : i \in {j \in 1..Len(b) : Occupied(b[j])}}

\* info and list; without a blob info answers "none (bare native binary)".
Inventory ==
    /\ IF SplitOK(file)
       THEN Answer("list", goarch, "listed", Present(file), <<>>)
       ELSE Answer("list", goarch, "error", {}, <<>>)
    /\ UNCHANGED <<file, goarch, wear>>

\* Step 1 of verify: only the lengths are compared.
RoundTrips(image) ==
    /\ SplitOK(image)
    /\ EncodeOK(BlobOf(image))
    /\ Len(BuildCanonical(HeadOf(image), BlobOf(image))) = Len(image)

VerifyFails ==
    /\ ~RoundTrips(file)
    /\ Answer("verify", goarch, "error", {}, <<>>)
    /\ UNCHANGED <<file, goarch, wear>>

\* Mutant of Verify: step 2 compares lengths, as step 1 does.
VerifyLengths ==
    /\ RoundTrips(file)
    /\ \/ /\ ReconstructOK(file, goarch)
          /\ Len(Reconstruct(file, goarch)) = Len(file)
          /\ Answer("verify", goarch, "canonical", {}, <<>>)
       \/ /\ ~ReconstructOK(file, goarch)
          /\ Answer("verify", goarch, "round-trips", {}, <<>>)
    /\ UNCHANGED <<file, goarch, wear>>

\* Step 2: the image rebuilt for the running architecture is this file; any
\* error of Reconstruct is answered with "OK: blob round-trips".
Verify ==
    /\ RoundTrips(file)
    /\ \/ /\ ReconstructOK(file, goarch)
          /\ Reconstruct(file, goarch) = file
          /\ Answer("verify", goarch, "canonical", {}, <<>>)
       \/ /\ ReconstructOK(file, goarch)
          /\ Reconstruct(file, goarch) # file
          /\ Answer("verify", goarch, "error", {}, <<>>)
       \/ /\ ReconstructPanics(file, goarch)
          /\ Answer("verify", goarch, "panic", {}, <<>>)
       \/ /\ ~ReconstructOK(file, goarch)
          /\ ~ReconstructPanics(file, goarch)
          /\ Answer("verify", goarch, "round-trips", {}, <<>>)
    /\ UNCHANGED <<file, goarch, wear>>

\* os.WriteFile truncates and then writes: an error leaves a prefix.
Extract(t) ==
    /\ ReconstructOK(file, t)
    /\ LET data == Reconstruct(file, t)
       IN  \/ Answer("extract", t, "wrote", {}, data)
           \/ \E k \in 0..(Len(data) - 1) :
                 Answer("extract", t, "error", {}, SubSeq(data, 1, k))
    /\ UNCHANGED <<file, goarch, wear>>

ExtractFails(t) ==
    /\ ~ReconstructOK(file, t)
    /\ Answer("extract", t,
              IF ReconstructPanics(file, t) THEN "panic" ELSE "error",
              {}, <<>>)
    /\ UNCHANGED <<file, goarch, wear>>

-----------------------------------------------------------------------------
(* The environment.                                                        *)

\* The kernel loads a file that begins with a whole native.
RunOut ==
    /\ \E a \in Released(Native) :
          /\ Len(reply.out) >= Len(Native[a])
          /\ SubSeq(reply.out, 1, Len(Native[a])) = Native[a]
          /\ goarch' = a
    /\ file' = reply.out
    /\ reply' = NoReply
    /\ UNCHANGED wear

\* One cell turns into another of its kind; of an entry, one field changes.
Damaged(c) ==
    {w \in Word : c \in Word}
        \cup {f \in CountField : c \in CountField}
        \cup {f \in [total : Probe] : c \in TotalField}
        \cup (IF c \notin EntryField THEN {}
              ELSE {[c EXCEPT !.name = n] : n \in Name}
                   \cup {[c EXCEPT !.status = v] : v \in Byte}
                   \cup {[c EXCEPT !.codec = v] : v \in Byte}
                   \cup {[c EXCEPT !.offset = v] : v \in Probe}
                   \cup {[c EXCEPT !.length = v] : v \in Probe}
                   \cup {[c EXCEPT !.rawLen = v] : v \in Probe})

DamageCell(i) ==
    \E c \in Damaged(file[i]) \ {file[i]} : file' = [file EXCEPT ![i] = c]

InHead(i) == i <= Len(Native[goarch])

DamageHead ==
    /\ wear = "none"
    /\ \E i \in 1..Len(file) : InHead(i) /\ DamageCell(i)
    /\ wear' = "head"
    /\ reply' = NoReply
    /\ UNCHANGED goarch

DamageBlob ==
    /\ wear = "none"
    /\ \E i \in 1..Len(file) : ~InHead(i) /\ DamageCell(i)
    /\ wear' = "blob"
    /\ reply' = NoReply
    /\ UNCHANGED goarch

Next ==
    \/ Inventory
    \/ Verify
    \/ VerifyFails
    \/ \E t \in Name : Extract(t) \/ ExtractFails(t)
    \/ RunOut
    \/ DamageHead
    \/ DamageBlob

Spec == Init /\ [][Next]_vars

-----------------------------------------------------------------------------
(* Properties.                                                             *)

\* The variables hold what the code's variables hold; and what extract writes
\* begins as an ELF file, whatever was damaged.
TypeOK ==
    /\ file \in Seq(Cell)
    /\ goarch \in Released(Native)
    /\ reply \in Reply
    /\ reply.out # <<>> => HasPrefix(reply.out, ElfMagic)
    /\ wear \in {"none", "head", "blob"}

Wrote == reply.cmd = "extract" /\ reply.said = "wrote"

\* Reconstruct's promise: whatever chain of extractions the running file came
\* through, torn writes and a damaged head included, an extract that succeeds
\* writes byte for byte the image that was released for the target.
ExtractExact ==
    wear # "blob" /\ Wrote =>
        /\ reply.arch \in Released(Native)
        /\ reply.out = Canon[reply.arch]

\* The EOF trailer marks complete images only: a file that runs and whose
\* blob can be split off holds the complete blob of the release, although a
\* torn image may run and its native may contain the trailer's magic.
NoHalfCarrier ==
    wear # "blob" /\ SplitOK(file) => TailOf(file) = BlobBytes

\* verify tells a torn or head-damaged file from a released one.
VerifyExact ==
    wear # "blob" /\ reply.cmd = "verify" =>
        (reply.said = "canonical" <=> file = Canon[goarch])

\* list shows as present exactly the architectures extract can write.
ListExact ==
    wear # "blob" /\ reply.cmd = "list" /\ SplitOK(file) =>
        reply.present = {t \in Name : ReconstructOK(file, t)}

\* Extracting from an accepted blob, a damaged one too, never loses or alters
\* a slice: the new image carries the blob that was read, so that what could
\* be installed from the old file can be installed from the new one.
CarrierClosure ==
    Wrote => /\ SplitOK(reply.out)
             /\ BlobOf(reply.out) = BlobOf(file)

\* On a 64-bit machine no offset or length, however large, wraps around
\* int and passes Decode's range check: a decoded slice lies in the payload.
DecodedInBounds ==
    SplitOK(file) =>
        \A i \in 1..TailOf(file)[2].count :
            LET e == TailOf(file)[HeaderLen + i]
            IN  PayloadStart(TailOf(file)) + e.offset + e.length
                    <= PayloadEnd(TailOf(file))

\* docs/usage.md: verify "confirms the attached blob round-trips and that the
\* file is canonical(<its own arch>)".
VerifySound ==
    reply.cmd = "verify" /\ reply.said \in {"canonical", "round-trips"} =>
        /\ ReconstructOK(file, goarch)
        /\ Reconstruct(file, goarch) = file

\* compress_test.go: "A corrupted compressed slice must yield a clear error,
\* never a panic."
NeverPanics == reply.said # "panic"

=============================================================================
