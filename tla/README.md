# go-multi-binary in TLA+

go-multi-binary builds one Go program for several architectures and packs all
of the native executables, compressed, into one blob (a *FATBLOB*) that is
appended to each of them. Every artifact can therefore rebuild the artifact of
every other architecture from its own file, byte for byte, and install it on a
machine of that architecture over SSH. This directory holds TLA+ models of
that program, the TLC configurations that check them, and proofs for TLAPS.

## 1. The system

| component | state it keeps | operations | talks to |
|---|---|---|---|
| `fatblob` | none (pure functions) | `Encode`, `Decode`, `BuildCanonical`, `SplitCanonical`, `Reconstruct`, `Compress`, `CompressBlob`, `Decompress` | `xz` at build time |
| `internal/fatbuild` | the directory `dist/` | `GitDescribe`, `BuildNative`, `BuildAll`, `Assemble` | the Go toolchain, `fatblob`, `archdetect` |
| `cmd/go-teleport-self` | its own executable file | `info`, `list`, `verify`, `extract`, teleport | `fatblob`, `teleport`, the file system |
| `archdetect` | none (a table) | `FromUname`, `Current`, `Lookup` | – |
| `teleport` | the remote file and its mode | `Deploy`, `SSHTransport.{RunUname,Run,Put}` | `ssh`, the remote shell, `cat`, `md5sum` |
| `emulation/system` | a QEMU process, a port, a log, files | `Start`, `waitSSH`, `SSH`, `Stop` | QEMU, cloud-init (tests only) |
| `emulation/user`, `qemu-user-run` | none | run a file under qemu-user | QEMU (tests only) |
| `cmd/fatbuild`, `cmd/fatpack` | none | flags and a report | `internal/fatbuild` |

What makes each correct, and what is hard about it:

* **fatblob.** Decode inverts Encode; no accepted index entry points outside
  the payload, whatever the 64-bit numbers in it; a cut image is not accepted;
  reconstruction is exact and independent of the file one starts from. Hard:
  the integer conversions, two codecs in one blob, errors against panics.
* **The program.** It trusts its own file. That file may be the result of
  many extractions, of a write that stopped half-way, or damaged. Hard: long
  chains, and what a torn file that still runs may do.
* **teleport.** A success reported means a whole release is installed and runs;
  a failure can be repaired by trying again. Hard: each remote command is a
  step of its own, several deployments meet on one file that is written in
  place, connections break, and a `cat` whose ssh died is still there.
* **fatbuild.** All artifacts of a `dist/` share one blob. Hard: partial builds
  and builds that stop half-way over an older `dist/`.
* **emulation/system.** A guest handed out is one's own and stays usable; every
  wait ends; nothing is left behind on any path. Hard: a port found free is
  not yet taken, QEMU exits when it likes, sshd answers and is then restarted,
  cloud-init ends degraded, deadlines, cancellation.

`PROJECT.json` lists each hazard at the line where it bites, with the
properties about it or the reason why there is none yet.

## 2. The modules

```
FatBlob ── Release ──┬── TeleportSelf ── MCTeleportSelf
                     ├── FatBuild ── MCFatBuild
                     └── Teleport (+ ArchDetect) ── MCTeleport
                            └─ implements ─> Install

FatBlobProofs ── ReleaseProofs ──┬── TeleportSelfProofs (+ TeleportSelf)
                                 ├── FatBuildProofs (+ FatBuild)
                                 └── TeleportProofs (+ Teleport) ── InstallProofs

ArchDetect ── ArchDetectProofs          QemuGuest ── QemuGuestProofs
```

**FatBlob** is the container. An image is a sequence of *cells*: each field of
the format (the magic, the count, one 40-byte index entry, the total length,
the trailer's magic) is one cell, and so is each unit of opaque bytes; lengths
and offsets count cells. The control is the code's: each function that can
return an error is a pair `<name>OK` (the conjunction of its checks, in
their order) and `<name>` (the value it returns then), and `<name>Panics` is
where it panics. Numbers keep their width: `Uint64`, `IntOf` and `Wrap` are the
conversions and the addition of a machine with `MaxInt` and `MaxWord`.
The cells are the main abstraction. Opaque bytes read as a number or as an
index entry are taken to be rejected; in the code they are some number, which
almost always is out of range. So the models say nothing of a native that
embeds the bytes of a complete second blob. The magic of the trailer alone may
occur in a native, as it does in the program's own read-only data.
The `.xz` format is the constant function `Xz[e][n]`, one for each encoder a
build machine may have (`XzAssumption`: lossless, and a stream begins with its
header). md5 and sha256 are taken to distinguish contents: the models
compare the contents.

**Release** is what `Assemble` releases when every supported native is there:
`SharedBlob` (compressed once) and `Canonical(nat, e, a)` for each architecture
that gets an artifact. `Builds` says which builds are meant.

**TeleportSelf** is the program on one machine. `file` is its own executable,
`goarch` what it was compiled for, `reply` the answer of the last command. One
action per command and outcome: `Inventory` (`info` and `list`), `Verify` and
`VerifyFails` (`cmdVerify`), `Extract` and `ExtractFails` (`cmdExtract`; a
failing `os.WriteFile` leaves any beginning). The environment runs an extracted
file (`RunOut`, possible for every file that begins with a whole native) and
damages one cell of the file (`DamageHead`, `DamageBlob`): a damaged entry
changes in one field, to any value.

**FatBuild** is `dist/` and the two commands that fill it. `RunFatbuild` chooses
the version; then one action per file: `BuildNative` for each architecture, in
the order of the table, `Pack` (reads the natives, compresses, encodes),
`WriteArtifact` for each slice, `WriteManifest`. `RunFatpack` starts at `Pack`
with the natives that are there: `Slots` are the slots this leaves, `RawSlices`
what lies in them. `InOrder` is a loop over the table that skips some rows.
`Stock` is the natives a directory may hold: none, or that of any version, whole
or cut. Each action has a counterpart `...Fails`, for an
error and for a command that is killed alike, which leaves the old file or a
beginning of the new one. Between two commands natives are removed
(`RemoveNative`) and xz is installed or removed (`ChangeEncoder`). A manifest is
the blob and one row per slice, with the image in the place of its
size and sum. `source`, `last` and `runs` are ghost variables. What the Go
toolchain makes of a version for an architecture is a constant.
A native has one cell for the first four bytes (`\x7fELF`), so a cut inside
these is below what the model tells apart.

**ArchDetect** is the table with the real aliases, `FromUname`, `Lookup`,
`Current`, and the order of the slots.

**QemuGuest** is the harness of the emulation tests for several guests at once.
`pc[g]` is where `Start` or `Stop` of a guest is: `prepare` (key, seed image,
overlay), `port` (`freePort`), `launch`, `reach` and `settle` (the phases
of `waitSSH`), `up` (the guest is the caller's), `stop`, `grace` (the 15 seconds
after the interrupt), `killed`, `ended`. QEMU, the guest's boot (sshd, its
restart by cloud-init, the end of cloud-init) and `ctx` are environment.
`left` is the time until the deadline: each failing probe takes some of it. The
connection that succeeds takes time as well, so that the deadline may pass
under it and phase 2 never begin its loop. `reaped` is what `exited()` looks at.

**Teleport** is `Deploy` with `SSHTransport`, for a set of deployments `Proc`
and machines `Host`. `RunFromDesk` starts one at a build machine, from an
artifact; `RunInstalled` starts one of the program installed on a machine, from
that file. Then one action per remote command: `Uname` (which also
reconstructs), `Mkdir`, `Open` (the shell's `>`: truncates, keeps the mode of
an existing file) or `OpenFails`, `Write` (one write of `cat`), `PutDone`,
`Chmod`, `Md5Reads` (one read of `md5sum`), `Md5Ends` (it meets the end of the
file; its answer is on the way), `Compare` (Deploy has the answer and returns).
`sum` is what md5sum has read, and stands for the md5: other deployments and
leftover cats may write between two of its reads, and before the answer is
compared. Failures: `CommandLost` (before or after the effect), `StreamLost`
(ssh dies; the remote `cat` goes on with any amount of what was sent:
`orphan`), `CatFails` (a full disk). The kernel does not run a file that
is open for writing, nor open for writing one that runs. `last` and `calm` are
ghost variables: who opened a file last, and that nobody has since changed what
a deployment's md5sum read. `Touch` clears `calm` where a file is
opened or written before the position md5sum has reached, or anywhere once it
has ended.

**Install** is what this promises a machine, without files and commands:
`disk` is nothing, a part, or a release; `sending` the release on its way;
`claim` the release last reported. A release appears only by `Complete`, which
is the one that is sent, goes only by `Open`, and `Report` is of what lies there.
Teleport with `Exclusive` implements it for each machine: `Held(h)` tells the
release from the file, `Sent(h)` from the bytes of the deployment under way or
of the cat it left, and every step maps to a step of Install or to a stutter.

## 3. The runs

All pass runs but `qemu_pass` check deadlock, too. Every bound below is a constant of the `.cfg`.

| run | instance | what it shows |
|---|---|---|
| `self_pass` | one release of two natives (one stored compressed, one raw because its stream is not smaller) and the reserved slot, two encoders, u64 of 64 values, int of 64 | see below |
| `self_verify`, `self_panic` | the same | findings 1 and 2 |
| `fleet` | machines amd64, 386; releases v1, v2 of different length; two deployments, one per machine at a time; 1 failure | `OnlyPrefixes`, `SuccessStands`, `ImplementsInstall` |
| `race` | machines amd64, riscv32 (which has no native); two releases, two deployments at once, 1 failure | `OkIsWhole` |
| `retry` | one machine, amd64; one release, two deployments at once, 2 failures | `TypeOK`, `SuccessWhole` |
| `spread` | two machines, one release, two deployments at once, 1 failure | finding 3 |
| `heal` | two machines, one release, one deployment per machine, 1 failure | `Ends`, `RetryHeals` |
| `build_pass` | two versions, 386 and amd64 and the slot of riscv32, three commands, both encoders | `TypeOK`, `BuildWhole`, `ListedLaw`, `ArtifactSound` |
| `build_encoder` | the same, two commands | finding 4 |
| `qemu_pass` | two guests, two ports, time for two failing probes | `TypeOK`, `NoLeftover`, `ReadyIsSteady`, `StartEnds`, `StopEnds` |
| `qemu_exited` | the same | finding 5 |

**self_pass.** `ExtractExact`: whatever the chain of extractions, torn writes
and damage to the native, an extract that succeeds writes the image released
for the target. `NoHalfCarrier`: a torn file that runs never yields a blob
other than the whole one. `VerifyExact`: `verify` says canonical exactly for
the released image. `ListExact`: `list` shows exactly what `extract` can write.
With a damaged blob as well, `CarrierClosure`: no slice is lost or altered by
an extraction; and `DecodedInBounds`: no offset or length wraps past Decode's
check.

*Bounds.* Blobs have three slots because that is every kind of slot; natives
have 2 and 4 cells, so that a cut can fall in the native, the index, the payload
and the trailer; `MaxInt` = 31 and `MaxWord` = 63 are twice the longest image,
so that valid, too large, and wrapping numbers all occur, and every field takes
every value of its width. `MaxAlloc` = 15 is smaller than `MaxInt`, as it is on
a real machine.

**fleet** covers any number of hops, upgrades to the longer and the shorter
release, a file cut at each write, and the mode bit that stays from an earlier
install. It assumes `Exclusive`: the code does not lock the installed file, so
one deployment per machine at a time is the discipline its users must keep,
and no leftover `cat` may still run on that machine. `race`, `retry` and
`spread` drop it. What is left then:

* `OkIsWhole`, for deployments from a build machine. The md5 is read in pieces
  and compared later, so that success alone does not say what the file holds by
  then: another deployment may have truncated it, and the counterexample to the
  property without `calm` is just that. With it: whatever others mixed into the file
  before md5sum read it, a success means a whole release, unless somebody
  overwrote, cut or extended what md5sum had read.
* `SuccessWhole`, for one release. Retries and the cats of broken connections
  cannot harm each other, and need not leave the file alone while md5sum reads,
  since they all write the same bytes at the same offsets.

*Bounds.* `Chunk` is the size of one write: an image has 13 or 15 cells, so that
it takes 2 writes (`Chunk` = 8), and md5sum 2 reads, and a leftover `cat` stops at
every cell. Two deployments suffice for every conflict of a pair on a file;
with the cats left behind there are up to four writers. Deployments are
interchangeable, hence `SYMMETRY Procs`, except in the liveness run. `MaxFaults`
bounds the failures of a whole behaviour.

**heal** assumes that no remote command hangs: a deployment under way takes a
step eventually (`Step(p)`, which is enabled exactly while `p` is under way;
the formula is weak fairness with that guard written out: `Open` and
`OpenFails`, `Write` and `PutDone`, `Md5Reads` and `Md5Ends` complement each
other, and no other command waits for anything), and so does a leftover `cat`.
Nothing is assumed of new deployments or failures, nor that anyone starts a
program. The code passes `context.Background()` and sets no ssh timeout: TCP
and the remote command end a command, the program does not. So `Ends` says
that every way through `Deploy` leads to a return, not that one that hangs is
noticed: it is not. `RetryHeals` is about deployments that begin
after the last failure; it excepts a target whose installed program runs,
since the open then fails with ETXTBSY.

**build_pass.** `BuildWhole`: a `fatbuild` that succeeds leaves one complete
release of its version and a manifest of just that, over whatever earlier
commands left. `ListedLaw`: after a `fatpack` of natives that are
missing, cut or of several versions, what the manifest lists is there and
consistent in itself. `ArtifactSound`: at every moment, an artifact
that carries a blob is the image its own blob holds.
*Bounds.* Three commands are a build, one that fails in any file, and one that
starts from both; the versions differ in whether and how far each native
compresses, and one native ends like a blob does. One command runs at a time.

**qemu_pass.** `NoLeftover` and `ReadyIsSteady` are about every way through
`Start` and `Stop`. `StartEnds` and `StopEnds` assume that the harness goes on,
that a killed process exits, and that cloud-init ends once sshd was started or
its machine does: `cloud-init status --wait` blocks as long as it runs, and the
code sets no deadline inside the probe. They do not assume that a guest boots,
that QEMU obeys the interrupt, or that the caller ever calls `Stop`.
*Bounds.* Two guests on two ports race for one, or not; more guests only add
further losers of the same race. With two failing probes the time can
end in both phases, and in one probe or two. `qemu_pass` does not check
deadlock, for a harness whose guests have all ended stops.

Each property of a passing run has a mutant: an operator next to the one it
replaces, changed the way a plausible bug would, with which the property fails.

## 4. Findings

1. **`verify` accepts what it cannot reconstruct** (run `self_verify`,
   `cmd/go-teleport-self/main.go:173`). Any error of `Reconstruct`, a slice
   that does not decode included, is answered with `OK: blob round-trips`,
   exit status 0; `docs/usage.md:40` says that verify confirms that the file
   is `canonical(<its own arch>)`. TLC's counterexample is one damaged cell.
2. **A damaged `rawLen` panics** (run `self_panic`, `fatblob/codec.go:31`).
   `make([]byte, 0, rawLen+1)` with the number in the index.
   `fatblob/compress_test.go:123`: "A corrupted compressed slice must yield a
   clear error, never a panic."
3. **A file with a hole can run, deploy itself and report success** (run
   `spread`, `teleport/teleport.go:139`). Install A has streamed a part
   when install B opens, and so truncates, the file. A writes the rest at its
   own offset, behind a hole, sets the x bit, and will report the md5 mismatch.
   B's connection breaks, and its leftover `cat` writes only a beginning that
   covers the native and ends inside the hole. The file runs, and A's trailer
   is there. A slice that is stored raw has no checksum, so a deployment from
   that file carries the hole on into the image it installs, and the remote
   md5 agrees with what was sent.
4. **The same natives do not always give the same artifacts** (run
   `build_encoder`, `fatblob/compress.go:41`). `Compress` takes the xz on the
   PATH, or the pure-Go encoder. `internal/fatbuild/fatbuild.go:137-138` says of
   Assemble "It is deterministic: identical inputs yield byte-identical
   outputs.", and the inputs to be held fixed (lines 8-12) do not name the
   encoder. With one encoder it
   is deterministic: the theorem `OneEncoderDeterministic`.
5. **An early exit of QEMU is not noticed** (run `qemu_exited`,
   `emulation/system/qemusystem.go:367`). `exited()` looks at
   `cmd.ProcessState`, which is set by `Wait`, which only `Stop` calls: `waitSSH`
   goes on until its deadline. Lines 267-268 say that QEMU's output is captured
   "so startup failures are visible (never discard — that hid the CI failure and
   wasted the full timeout)".

## 5. Proofs

Every state invariant and every safety property of a step that a passing run
checks is also a theorem, for all values of the constants that satisfy the named
assumptions. In the order in which they build on each other:

* **FatBlobProofs.** `RoundTrip`: Decode(Encode(b)) = b. It rests on
  `EncodeShape`, where each cell of an encoding lies, proved from the lengths
  of the payload (`Off`). `SplitLaw`: a head and the blob behind it are
  found again. `TornLaw`: a proper prefix of an image has no blob; the only cell
  that can hold a total length lies in the trailer (`OneTotal`).
  `BoundsLaw`: no entry that Decode accepts leaves the payload, although the
  sums may wrap. `ReencodeLaw`: what Reconstruct writes carries the blob that
  was read, a damaged one too.
* **ReleaseProofs.** `PartLaw`: from a blob of any architectures, each once,
  behind any head, `Reconstruct(t)` succeeds exactly for those with a native,
  never panics, and gives that native before the same blob. `ReconstructLaw` is
  the case of a whole release.
* **TeleportSelfProofs.** `Spec => []TypeOK`, `[]ExtractExact`,
  `[]NoHalfCarrier`, `[]VerifyExact`, `[]ListExact`, `[]CarrierClosure`,
  `[]DecodedInBounds`.
* **FatBuildProofs.** `Spec => []TypeOK`, `[]ArtifactSound`, `[]BuildWhole`,
  `[]ListedLaw`, for any number of commands; and `PackedLaw`, what an image made
  of any `Stock` is worth. `OneEncoderDeterministic`: with one encoder, equal
  natives give equal manifests.
* **TeleportProofs.** However many deployments meet on a machine:
  `Spec => []TypeOK`, `OkIsWhole` (with `calm`, as stated), and `[]SuccessWhole`
  for one release that is deployed from build machines, without it.
* **InstallProofs.** With `Exclusive`: `Spec => []OnlyPrefixes`,
  `[]SuccessStands`, `ImplementsInstall`.
* **ArchDetectProofs.** `TableOrder`: the loops over the table (`BuildAll`) and
  over the slots (`Assemble`) meet the same architectures in the same order.
  `FromUnameExact`: no name stands in two rows, so that the order of the table
  decides nothing. `CurrentOwn`: a program built for a row finds that row.
* **QemuGuestProofs.** `Spec => []TypeOK`, `[]NoLeftover`, `[]ReadyIsSteady`, for
  any number of guests, ports and probes.

### What is assumed

`FormatAssumption` and `XzAssumption` (section 2) and `ReleaseAssumption` (a
table without repetitions that contains the supported architectures) are behind
everything. Beyond these:

* `Wide` (a u64 has one bit more than the positive ints) is a hypothesis of
  `BoundsLaw` and `InBounds`: on a 32-bit machine `int(e.offset)` drops the
  high half and the statement is false.
* `Builds`, in `TeleportSelfAssumption` and `TeleportAssumption`: natives are
  files the encoder was run on, begin with `\x7fELF`, and sizes fit an int.
* `SizeAssumption` of FatBuild says the same of any mixture of natives, whole or
  cut, since `fatpack` packs whatever lies there.
* `TeleportAssumption` further: different releases differ in some native, and
  what `uname -m` prints, if the table knows it, is the architecture the machine
  runs. The table also maps `armv5l` and `armv8l`, where that depends on the
  machine's libraries and its mode; of such a machine nothing is claimed.
* `Fits`, a hypothesis of `ClosureHolds`, is about a damaged blob only: its
  entries may overlap, so that its encoding is longer than the file. `Encode`
  allocates the whole encoding before it writes any of it, and cannot return
  when its length is not an int.
* `FromDesks`, a hypothesis of `SuccessWholeHolds`: a deployment that has opened
  its file, up to the comparison, runs from a build machine. It cannot be dropped: with two machines a file
  with a hole may deploy itself (finding 3). With a single machine it holds by
  itself (`OneMachineWhole`), since the kernel does not open a file that runs.
* `Exclusive` is a hypothesis of all of InstallProofs; `race`, `retry`
  and `spread` show what is left without it.

### The inductive invariants

No property is inductive as it stands.

*TeleportSelf.* `ExtractExact` speaks of the last reply, and says nothing
of the file that the next command reads. The invariant `IInv` adds: as long as
the blob is undamaged, the running file and the last output (once it can be
run) are *carriers*, some head as long as the native, followed by the blob or by
a beginning of it. By `SplitLaw` and `TornLaw` a carrier splits exactly when it
carries the whole blob; by `ReconstructLaw` what is then extracted is released;
and a beginning of a released image that contains the native is a carrier
again. For a damaged blob nothing of this is left, and `CarrierClosure` needs
only that a successful extract wrote what Reconstruct made of the file (`Made`).

*FatBuild.* `BuildWhole` speaks of the end of a command, over a directory that
earlier commands filled. `Progress`: the natives before `next` are those of the
version being built, hence all of them once `Pack` reads them. `Writing`:
between `Pack` and the manifest the slices and the blob still are what the
natives and the encoder give, and the artifacts listed so far lie in the
directory. `Finished`: after a success there are natives and an encoder of which
the whole directory is made, and nothing that happens to `native/` afterwards
touches that. `Pieces`: every artifact is an image of some stock or the beginning
of one, which with `PackedLaw` is `ArtifactSound` at every moment, over any
mixture of versions.

*Teleport.* `IInv` ties each command to what it has done: a deployment has a cat
exactly while it streams, that cat writes what the deployment sends onto its
target, the file exists from the open on and is executable at the md5, and what
a deployment from a build machine sends is the image of one release for its
target. For `OkIsWhole` comes `SInv`: what md5sum has read is still what the
file begins with, and once it has ended all of the file, as long as nobody
changed that (`calm`). An md5 that agrees is then that of the file at the
comparison. `SuccessWhole` cannot use this, for its file may be opened and
written at any time. `RInv` follows the offsets instead: the file of the
deployment that opened it last begins with what that one has written so far
(`Filled`), and whoever else writes there brings the same image, so that a
write over it puts there what is there already (`WriteKeeps`). When the cat has
ended this is the whole image, and neither the other writers nor what md5sum
read can make it less: a success reported is not undone by any of them.

*With `Exclusive`* (`XInv`): each machine has one owner, a deployment or the cat
it left (`Solo`); the owner's cat has written the beginning of an image and
nothing else is in the file (`InCharge`, `Feeds`), which from its end on to the
comparison is what was sent, what nobody owns is a
beginning (`Prefix`), and a success is whole with no writer (`Done`). The
refinement is proved from that: `Held` and `Sent` are first told from these
parts (`Told`), since both are choices among releases that must be shown to be
unique (`CanonInjective`); then there is one lemma per action, each a step of
Install or a stutter. `Complete` is the last write of the owner, by its own cat
or the one it left.

*QemuGuest.* The invariant adds three things. `Stages`: QEMU exists
exactly from the launch on, and only an ended guest is reaped; without it
`NoLeftover` cannot tell an error before the launch from one after. `PortsApart`:
no two guests listen on one port; what `FreePort` found is worth nothing
by then, and it is `Bind` that keeps it. `Steady`: a guest handed out listens
and its cloud-init is done, from which no step of the guest leads away. From
the last two follows `ReadyIsSteady`.

In every module there is one lemma per action; what an action leaves alone is
proved once for all of them (`Bystander`, `QuietOrdered`, `TameStep`).

### What is only model-checked

Liveness (`Ends`, `RetryHeals`, `StartEnds`, `StopEnds`), because the provers do
not handle fairness and ENABLED, and the findings, which are counterexamples.

The induction theorems of the library take an operator as a parameter and cannot
be instantiated. The recursive functions `Payload` and `InOrder` are therefore
handled by `SetInduction` (a set of naturals that holds 0 and is closed under
successor holds them all), proved from the absence of a least counterexample.

## 6. Not modelled

* Quoting of the remote path, flags, printing, JSON. No state, no ordering.
* `emulation/user`, `qemu-user-run`, CI: single calls of other programs; no
  state of their own and no order to get wrong.
* Two commands in one `dist/` at once: nothing locks it, and every statement
  about the directory as a whole is then false.
* A harness that is killed: QEMU is tied neither to it nor to `ctx`, and lives
  on. A work directory that is used for a second guest. A guest that hangs
  between sshd and the end of cloud-init: it holds `Start` past its deadline.
* The xz decoder's inside; damage to more than one cell; hash collisions.
* A remote shell that opens the installed file only after its ssh has died.
  `CommandLost` lets a lost command take effect before Deploy returns, or never.
  The properties of one machine speak until the next open, and such an open
  would be one.
* What follows where the code sets no time limit: a remote command that hangs,
  and the wait for cloud-init. The fairness assumes both away, and the hazards
  about them name no property.
* A deployment from a file that mixes two releases (their layouts must agree):
  `OkIsWhole` is restricted to deployments from a build machine, since the
  statement is false from such a file for the reason in finding 3.

## 7. Plan

Done: all modules above, and a theorem for each safety property of a passing
run. Next, in this order:

1. **Teleport without `Exclusive`, hops included**: which of a torn or mixed file
   may deploy itself at all (the index and the native must be in place), and
   `OkIsWhole` for deployments from a file that carries one release whole.
2. **ReencodeLaw without `Fits`** for a single damaged cell: one entry changes,
   so the encoding grows by at most one payload.
3. Two commands in one `dist/`: what is still true of a single artifact.
