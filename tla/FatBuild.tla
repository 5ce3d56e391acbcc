------------------------------ MODULE FatBuild ------------------------------
(***************************************************************************)
(* The directory dist/ and the commands that fill it: fatbuild (BuildAll:  *)
(* the natives one by one, then Assemble) and fatpack (Assemble alone, on  *)
(* the natives that are there).  A command may fail or be killed anywhere; *)
(* the next one, of any version, starts from what is left.  One command    *)
(* runs at a time.                                                         *)
(***************************************************************************)
EXTENDS Release

CONSTANTS
    Version,        \* the version strings a build may inject
    Source,         \* Source[v][a]: what the Go toolchain builds for a
    Unset,          \* no version is given
    NoFile,         \* there is no such file
    Torn,           \* a manifest that was not written to its end
    MaxRuns         \* bound: the commands started

\* What a command that fails or is killed may leave of a file it writes.
Beginnings(s) == {SubSeq(s, 1, n) : n \in 0..(Len(s) - 1)}

\* The native of a, of any version, whole or cut.
Left(a) == UNION {Beginnings(Source[v][a]) \cup {Source[v][a]} : v \in Version}

\* A loop over FixedArchOrder that skips what is not in S.
AppendIf(S, s, a) == IF a \in S THEN Append(s, a) ELSE s

InOrder(S) ==
    LET kept[i \in 0..Len(ArchOrder)] ==
            IF i = 0 THEN <<>> ELSE AppendIf(S, kept[i - 1], ArchOrder[i])
    IN  kept[Len(ArchOrder)]

\* Assemble packs nat: unsupported architectures keep their slot, missing
\* natives lose theirs.
Slots(nat) == InOrder({a \in Arch : a \notin Supported \/ nat[a] # NoFile})

RawSlices(nat) == [i \in 1..Len(Slots(nat)) |-> RawSlice(nat, Slots(nat)[i])]

\* The natives a dist/ may hold.
Stock == {nat \in [Supported -> {NoFile} \cup UNION {Left(a) : a \in Supported}] :
              \A a \in Supported : nat[a] \in {NoFile} \cup Left(a)}

ASSUME FatBuildAssumption ==
    /\ \A v \in Version : Released(Source[v]) = Supported
    /\ Source \in [Version -> [Supported -> Bytes]]
    /\ Version # {} /\ Unset \notin Version
    /\ NoFile \notin Seq(Cell)
    /\ MaxRuns \in Nat

\* Whatever natives are packed, whole or cut, they are files the encoders were
\* run on, and the sizes fit the integers of the machine.
ASSUME SizeAssumption ==
    \A nat \in Stock, e \in Encoder :
        /\ (\A a \in Supported : nat[a] # NoFile) => Builds(nat, e)
        /\ EncodedLen(CompressBlob(RawSlices(nat), e)) <= MaxInt

VARIABLES
    native,         \* dist/native/native.<arch>
    artifact,       \* dist/go-teleport-self.<arch>
    manifest,       \* dist/MANIFEST.json
    encoder,        \* the encoder this machine has now: xz, or the pure-Go one
    pc,             \* where the command is; "idle": none runs
    ver,            \* the version fatbuild injects
    next,           \* the native to build, or the slice to write, next
    slices, blob,   \* Assemble: the raw slices, and the compressed blob
    arts,           \* Assemble: m.Artifacts so far
    said,           \* how the last command ended
    last,           \* ghost: the last command, and the version it built
    source,         \* ghost: the raw slices manifest was made from
    runs            \* ghost: the commands started

dist == <<native, artifact, manifest>>
process == <<pc, ver, next, slices, blob, arts, said, last>>
vars == <<dist, encoder, process, source, runs>>

Init ==
    /\ native = [a \in Supported |-> NoFile]
    /\ artifact = [a \in Supported |-> NoFile]
    /\ manifest = NoFile
    /\ encoder \in Encoder
    /\ pc = "idle" /\ next = 1 /\ said = ""
    /\ ver \in Version /\ last = [cmd |-> "none", version |-> ver]
    /\ slices = <<>> /\ blob = <<>> /\ arts = <<>> /\ source = <<>>
    /\ runs = 0

\* The command ends: its memory is gone.
Exit(answer) ==
    /\ pc' = "idle" /\ said' = answer /\ next' = 1
    /\ slices' = <<>> /\ blob' = <<>> /\ arts' = <<>>
    /\ UNCHANGED <<ver, last>>

-----------------------------------------------------------------------------
(* The natives.                                                            *)

Targets == InOrder(Supported)

Begin(at) ==
    /\ pc = "idle" /\ runs < MaxRuns
    /\ runs' = runs + 1 /\ pc' = at /\ said' = ""
    /\ UNCHANGED <<dist, encoder, next, slices, blob, arts, source>>

\* The --version flag, else $VERSION, else git describe (which says "dev" when
\* git does not know).
Injected(flag, env, git) ==
    IF flag # Unset THEN flag ELSE IF env # Unset THEN env ELSE git

RunFatbuild ==
    /\ Begin("native")
    /\ \E flag, env \in Version \cup {Unset}, git \in Version :
          ver' = Injected(flag, env, git)
    /\ last' = [cmd |-> "fatbuild", version |-> ver']

RunFatpack ==
    /\ Begin("pack")
    /\ last' = [cmd |-> "fatpack", version |-> ver]
    /\ UNCHANGED ver

\* Mutant of Compiled: a native that is there is not built again.
CompiledOnce(a) == IF native[a] = NoFile THEN Source[ver][a] ELSE native[a]

Compiled(a) == Source[ver][a]

BuildNative ==
    /\ pc = "native" /\ next <= Len(Targets)
    /\ native' = [native EXCEPT ![Targets[next]] = Compiled(Targets[next])]
    /\ next' = next + 1
    /\ UNCHANGED <<artifact, manifest, encoder, pc, ver, slices, blob, arts,
                   said, last, source, runs>>

\* go build fails and leaves the old file, or is killed while it writes.
BuildNativeFails ==
    /\ pc = "native" /\ next <= Len(Targets)
    /\ LET a == Targets[next]
       IN  \E left \in {native[a]} \cup Beginnings(Compiled(a)) :
              native' = [native EXCEPT ![a] = left]
    /\ Exit("error")
    /\ UNCHANGED <<artifact, manifest, encoder, source, runs>>

NativesBuilt ==
    /\ pc = "native" /\ next > Len(Targets)
    /\ pc' = "pack" /\ next' = 1
    /\ UNCHANGED <<dist, encoder, ver, slices, blob, arts, said, last, source,
                   runs>>

-----------------------------------------------------------------------------
(* Assemble.                                                               *)

Pack ==
    /\ pc = "pack"
    /\ slices' = RawSlices(native)
    /\ blob' = CompressBlob(slices', encoder)
    /\ pc' = "write"
    /\ UNCHANGED <<dist, encoder, ver, next, arts, said, last, source, runs>>

\* No directory, a native that cannot be read, an xz that fails.
PackFails ==
    /\ pc = "pack"
    /\ Exit("error")
    /\ UNCHANGED <<dist, encoder, source, runs>>

Image(s) == BuildCanonical(s.data, blob)

Listed(s) == [arch |-> s.arch, present |-> Occupied(s),
              image |-> IF Occupied(s) THEN Image(s) ELSE <<>>]

\* Mutant of WriteArtifact: an architecture without a binary is dropped.
WriteArtifactSilent ==
    /\ pc = "write" /\ next <= Len(slices)
    /\ LET s == slices[next]
       IN  IF Occupied(s)
           THEN /\ artifact' = [artifact EXCEPT ![s.arch] = Image(s)]
                /\ arts' = Append(arts, Listed(s))
           ELSE UNCHANGED <<artifact, arts>>
    /\ next' = next + 1
    /\ UNCHANGED <<native, manifest, encoder, pc, ver, slices, blob, said,
                   last, source, runs>>

\* Mutant of WriteArtifact: a file that is there is taken for up to date.
WriteArtifactOnce ==
    /\ pc = "write" /\ next <= Len(slices)
    /\ LET s == slices[next]
       IN  /\ artifact' = IF Occupied(s) /\ artifact[s.arch] = NoFile
                          THEN [artifact EXCEPT ![s.arch] = Image(s)]
                          ELSE artifact
           /\ arts' = Append(arts, Listed(s))
    /\ next' = next + 1
    /\ UNCHANGED <<native, manifest, encoder, pc, ver, slices, blob, said,
                   last, source, runs>>

WriteArtifact ==
    /\ pc = "write" /\ next <= Len(slices)
    /\ LET s == slices[next]
       IN  /\ artifact' = IF Occupied(s)
                          THEN [artifact EXCEPT ![s.arch] = Image(s)]
                          ELSE artifact
           /\ arts' = Append(arts, Listed(s))
    /\ next' = next + 1
    /\ UNCHANGED <<native, manifest, encoder, pc, ver, slices, blob, said,
                   last, source, runs>>

\* Mutant of Overwritten: the file is written over without truncating it.
OverwrittenInPlace(old, new) ==
    {IF old = NoFile THEN s
     ELSE s \o SubSeq(old, Len(s) + 1, Len(old)) : s \in Beginnings(new)}

\* os.WriteFile truncates, then writes.
Overwritten(old, new) == Beginnings(new)

WriteArtifactFails ==
    /\ pc = "write" /\ next <= Len(slices) /\ Occupied(slices[next])
    /\ LET s == slices[next]
       IN  \E left \in {artifact[s.arch]}
                       \cup Overwritten(artifact[s.arch], Image(s)) :
              artifact' = [artifact EXCEPT ![s.arch] = left]
    /\ Exit("error")
    /\ UNCHANGED <<native, manifest, encoder, source, runs>>

WriteManifest ==
    /\ pc = "write" /\ next > Len(slices)
    /\ manifest' = [blob |-> Encode(blob), arts |-> arts]
    /\ source' = slices
    /\ Exit("ok")
    /\ UNCHANGED <<native, artifact, encoder, runs>>

WriteManifestFails ==
    /\ pc = "write" /\ next > Len(slices)
    /\ \/ UNCHANGED <<manifest, source>>
       \/ manifest' = Torn /\ source' = <<>>
    /\ Exit("error")
    /\ UNCHANGED <<native, artifact, encoder, runs>>

-----------------------------------------------------------------------------
(* The machine: natives are deleted between two commands, xz is installed  *)
(* or removed.                                                             *)

RemoveNative(a) ==
    /\ pc = "idle" /\ native[a] # NoFile
    /\ native' = [native EXCEPT ![a] = NoFile]
    /\ UNCHANGED <<artifact, manifest, encoder, process, source, runs>>

ChangeEncoder ==
    /\ pc = "idle"
    /\ encoder' \in Encoder \ {encoder}
    /\ UNCHANGED <<dist, process, source, runs>>

Next ==
    \/ RunFatbuild \/ BuildNative \/ BuildNativeFails \/ NativesBuilt
    \/ RunFatpack \/ Pack \/ PackFails
    \/ WriteArtifact \/ WriteArtifactFails
    \/ WriteManifest \/ WriteManifestFails
    \/ \E a \in Supported : RemoveNative(a)
    \/ ChangeEncoder

Spec == Init /\ [][Next]_vars

-----------------------------------------------------------------------------
(* What a dist/ is worth.                                                  *)

\* Type correctness; Assemble has listed each slot it is past, in order.
TypeOK ==
    /\ native \in [Supported -> {NoFile} \cup Bytes]
    /\ artifact \in [Supported -> {NoFile} \cup Seq(Cell)]
    /\ encoder \in Encoder
    /\ pc \in {"idle", "native", "pack", "write"}
    /\ ver \in Version
    /\ said \in {"", "ok", "error"}
    /\ runs \in 0..MaxRuns
    /\ pc = "write" =>
          /\ next \in 1..(Len(slices) + 1)
          /\ Len(arts) = next - 1
          /\ \A i \in 1..Len(arts) : arts[i].arch = slices[i].arch
    /\ pc # "write" => slices = <<>> /\ blob = <<>> /\ arts = <<>>

\* A fatbuild that succeeds leaves the artifacts of one complete release, of
\* the version it was asked for, and a manifest of just these, whatever
\* natives, artifacts and manifests earlier commands left (BuildAll).
BuildWhole ==
    said = "ok" /\ last.cmd = "fatbuild" =>
       \E e \in Encoder :
          LET nat == Source[last.version]
          IN  /\ \A a \in Supported : artifact[a] = Canonical(nat, e, a)
              /\ manifest.blob = Encode(SharedBlob(nat, e))
              /\ Len(manifest.arts) = Len(ArchOrder)
              /\ \A i \in 1..Len(ArchOrder) :
                    LET m == manifest.arts[i]
                    IN  /\ m.arch = ArchOrder[i]
                        /\ m.present <=> m.arch \in Supported
                        /\ m.present => m.image = artifact[m.arch]

ListedArch == {m.arch : m \in {manifest.arts[i] : i \in
                  {j \in 1..Len(manifest.arts) : manifest.arts[j].present}}}

\* After any command that succeeds, on natives that are missing, cut short or
\* of several versions as well: what the manifest lists lies there with the
\* listed sum, carries the listed blob, and each listed artifact rebuilds
\* each other one, and no architecture besides (Assemble).
ListedLaw ==
    said = "ok" =>
       /\ \A i \in 1..Len(manifest.arts) :
             LET m == manifest.arts[i]
             IN  m.present => artifact[m.arch] = m.image
       /\ \A a \in ListedArch :
             /\ TailOf(artifact[a]) = manifest.blob
             /\ \A b \in Arch :
                   IF b \in ListedArch
                   THEN /\ ReconstructOK(artifact[a], b)
                        /\ Reconstruct(artifact[a], b) = artifact[b]
                   ELSE ~ReconstructOK(artifact[a], b)

\* At every moment, in the middle of a build and after one that was killed:
\* an artifact either carries no blob, or is the image its own blob holds for
\* its architecture, so that nothing foreign can be installed from it.
ArtifactSound ==
    \A a \in Supported :
       artifact[a] # NoFile /\ SplitOK(artifact[a]) =>
          /\ ReconstructOK(artifact[a], a)
          /\ Reconstruct(artifact[a], a) = artifact[a]

Readable(m) == m \notin {NoFile, Torn}

\* "It is deterministic: identical inputs yield byte-identical outputs"
\* (src/internal/fatbuild/fatbuild.go:137-138): two manifests written one
\* after the other from the same natives are the same.
Deterministic ==
    [][Readable(manifest) /\ Readable(manifest') /\ source' = source
          => manifest' = manifest]_<<manifest, source>>

=============================================================================
