------------------------------ MODULE Teleport ------------------------------
(***************************************************************************)
(* Deploy (src/teleport): programs that install themselves on other        *)
(* machines over SSH.  A deployment detects the remote architecture,       *)
(* rebuilds the image for it from its own file, makes the directory,       *)
(* streams the image with `cat >` straight onto the installed file, makes  *)
(* it executable and compares its md5.  Each is one remote command; those  *)
(* of several deployments interleave, connections break, and a `cat` whose *)
(* connection broke goes on with what had reached it.  An installed        *)
(* program may deploy itself in its turn.                                  *)
(***************************************************************************)
EXTENDS Release, ArchDetect

CONSTANTS
    Host,           \* the remote machines
    Proc,           \* the deployments that may be under way
    Desk,           \* where the artifacts of a build lie: not a remote machine
    DeskArch,       \* the architecture of that machine
    Machine,        \* Machine[h]: what uname -m prints on h
    HostArch,       \* HostArch[h]: the architecture h runs
    Version,        \* the releases
    Native,         \* Native[v]: the natives of release v
    Enc,            \* the encoder they were built with
    Zero,           \* what a read finds in a hole of a file
    Chunk,          \* the cells one read or write of a file moves
    NoDir, NoFile,  \* the install directory, or the file, does not exist
    NoCat,
    Exclusive,      \* at most one deployment, and no leftover cat, per machine
    MaxFaults       \* bound on the failures of a run

ASSUME TeleportAssumption ==
    /\ \A v \in Version : /\ Builds(Native[v], Enc)
                            /\ DeskArch \in Released(Native[v])
    /\ \A v, w \in Version : Native[v] = Native[w] => v = w
    /\ Host # {} /\ Desk \notin Host
    /\ \A h \in Host :
          FromUnameOK(Machine[h]) => FromUname(Machine[h]) = HostArch[h]
    /\ Zero \in Word
    /\ Chunk \in Nat \ {0}
    /\ Exclusive \in BOOLEAN
    /\ MaxFaults \in Nat

\* Canon[v][a]: the artifact of release v for a.
Canon == [v \in Version |->
            [a \in Released(Native[v]) |-> Canonical(Native[v], Enc, a)]]

VARIABLES
    file,           \* file[h]: ~/local/bin/go-teleport-self on h
    exec,           \* exec[h]: its mode has the x bit
    pc,             \* the remote command a deployment is at
    src,            \* the machine whose file it runs from, or Desk
    dst,            \* the machine it installs on
    data,           \* the image it read, then the bytes it sends
    cat,            \* the remote cat it streams to
    sum,            \* what its remote md5sum has read: the md5 stands for it
    orphan,         \* the cat a broken connection left behind
    said,           \* what it reported
    last,           \* ghost: the deployment that opened h's file last
    calm,           \* ghost: nobody changed what its md5sum had read
    faults

remote == <<file, exec, last>>
vars == <<file, exec, pc, src, dst, data, cat, sum, orphan, said, last, calm,
          faults>>

CatState == [host : Host, data : Seq(Cell), pos : Nat, upto : Nat]

ASSUME MarksAssumption ==
    /\ NoDir # NoFile /\ NoDir \notin Seq(Cell) /\ NoFile \notin Seq(Cell)
    /\ NoCat \notin Proc /\ NoCat \notin CatState
    /\ {"none", "partial"} \cap Version = {}

\* pos cells were written, upto cells have reached or will reach the machine.
IsCat(c) == c \in CatState /\ c.pos <= c.upto /\ c.upto <= Len(c.data)

Init ==
    /\ file = [h \in Host |-> NoDir]
    /\ exec = [h \in Host |-> FALSE]
    /\ pc = [p \in Proc |-> "idle"]
    /\ src = [p \in Proc |-> Desk]
    /\ dst \in [Proc -> {CHOOSE h \in Host : TRUE}]
    /\ data = [p \in Proc |-> <<>>]
    /\ cat = [p \in Proc |-> NoCat]
    /\ sum = [p \in Proc |-> <<>>]
    /\ orphan = [p \in Proc |-> NoCat]
    /\ said = [p \in Proc |-> ""]
    /\ last = [h \in Host |-> NoCat]
    /\ calm = [p \in Proc |-> TRUE]
    /\ faults = 0

Exists(h) == file[h] \notin {NoDir, NoFile}

\* The kernel refuses to run a file that is open for writing, and to open
\* for writing a file that runs (ETXTBSY).
OpenForWriting(h) ==
    \E p \in Proc : \/ cat[p] # NoCat /\ cat[p].host = h
                    \/ orphan[p] # NoCat /\ orphan[p].host = h

Runs(h) == \E p \in Proc : pc[p] # "idle" /\ src[p] = h

\* The kernel of h loads a file that begins with a whole native for h.
Loads(h) ==
    \E v \in Version :
        /\ HostArch[h] \in Released(Native[v])
        /\ LET n == Native[v][HostArch[h]]
           IN  Len(file[h]) >= Len(n) /\ SubSeq(file[h], 1, Len(n)) = n

Runnable(h) == Exists(h) /\ exec[h] /\ ~OpenForWriting(h) /\ Loads(h)

Alone(h) ==
    /\ \A p \in Proc : pc[p] # "idle" => dst[p] # h
    /\ ~OpenForWriting(h)

-----------------------------------------------------------------------------
(* A deployment.                                                           *)

Begin(p, s, h, image) ==
    /\ Exclusive => Alone(h)
    /\ IF SplitOK(image)
       THEN /\ pc' = [pc EXCEPT ![p] = "uname"]
            /\ src' = [src EXCEPT ![p] = s]
            /\ dst' = [dst EXCEPT ![p] = h]
            /\ data' = [data EXCEPT ![p] = image]
            /\ said' = [said EXCEPT ![p] = ""]
       ELSE /\ said' = [said EXCEPT ![p] = "error"]
            /\ UNCHANGED <<pc, src, dst, data>>
    /\ UNCHANGED <<remote, cat, sum, orphan, calm, faults>>

\* go-teleport-self user@h, from the artifacts of release v.
RunFromDesk(p, v, h) ==
    /\ pc[p] = "idle"
    /\ Begin(p, Desk, h, Canon[v][DeskArch])

\* The same, of the program installed on s.
RunInstalled(p, s, h) ==
    /\ pc[p] = "idle"
    /\ Runnable(s)
    /\ Begin(p, s, h, file[s])

\* Deploy returns.
Return(p, what) ==
    /\ pc' = [pc EXCEPT ![p] = "idle"]
    /\ src' = [src EXCEPT ![p] = Desk]
    /\ data' = [data EXCEPT ![p] = <<>>]
    /\ sum' = [sum EXCEPT ![p] = <<>>]
    /\ calm' = [calm EXCEPT ![p] = TRUE]
    /\ said' = [said EXCEPT ![p] = what]
    /\ UNCHANGED dst

Goto(p, l) ==
    /\ pc' = [pc EXCEPT ![p] = l]
    /\ UNCHANGED <<src, dst, sum, said>>

Uname(p) ==
    LET m == Machine[dst[p]]
    IN  /\ pc[p] = "uname"
        /\ IF FromUnameOK(m) /\ ReconstructOK(data[p], FromUname(m))
           THEN /\ data' = [data EXCEPT ![p] = Reconstruct(@, FromUname(m))]
                /\ Goto(p, "mkdir") /\ UNCHANGED calm
           ELSE Return(p, "error")
        /\ UNCHANGED <<remote, cat, orphan, faults>>

\* Mutant of MkdirEffect: the directory is made anew.
MkdirAnew(h) ==
    /\ file' = [file EXCEPT ![h] = NoFile]
    /\ UNCHANGED <<exec, last>>

MkdirEffect(h) ==
    /\ file' = [file EXCEPT ![h] = IF @ = NoDir THEN NoFile ELSE @]
    /\ UNCHANGED <<exec, last>>

\* Mutant of Mkdir: without -p, a directory that exists is an error.
MkdirOnce(p) ==
    /\ pc[p] = "mkdir"
    /\ MkdirEffect(dst[p])
    /\ IF file[dst[p]] = NoDir THEN Goto(p, "put") /\ UNCHANGED <<data, calm>>
       ELSE Return(p, "error")
    /\ UNCHANGED <<cat, orphan, faults>>

Mkdir(p) ==
    /\ pc[p] = "mkdir"
    /\ MkdirEffect(dst[p])
    /\ Goto(p, "put")
    /\ UNCHANGED <<data, cat, orphan, calm, faults>>

\* The file of h changes from position pos on: behind a md5sum that has read
\* further, or that has ended.
Touch(h, pos) ==
    calm' = [q \in Proc |->
                /\ calm[q]
                /\ dst[q] = h => /\ pc[q] # "answer"
                                 /\ Len(sum[q]) <= pos]

\* Mutant of Open: the file is written in place, without truncation.
OpenInPlace(p) ==
    LET h == dst[p]
    IN  /\ pc[p] = "put"
        /\ file[h] # NoDir /\ ~Runs(h)
        /\ file' = [file EXCEPT ![h] = IF Exists(h) THEN @ ELSE <<>>]
        /\ exec' = [exec EXCEPT ![h] = Exists(h) /\ @]
        /\ last' = [last EXCEPT ![h] = p]
        /\ cat' = [cat EXCEPT ![p] = [host |-> h, data |-> data[p], pos |-> 0,
                                      upto |-> Len(data[p])]]
        /\ Touch(h, 0)
        /\ Goto(p, "stream")
        /\ UNCHANGED <<data, orphan, faults>>

\* The remote shell opens the file, truncates it, and starts cat; a file that
\* exists keeps its mode.
Open(p) ==
    LET h == dst[p]
    IN  /\ pc[p] = "put"
        /\ file[h] # NoDir /\ ~Runs(h)
        /\ file' = [file EXCEPT ![h] = <<>>]
        /\ exec' = [exec EXCEPT ![h] = Exists(h) /\ @]
        /\ last' = [last EXCEPT ![h] = p]
        /\ cat' = [cat EXCEPT ![p] = [host |-> h, data |-> data[p], pos |-> 0,
                                      upto |-> Len(data[p])]]
        /\ Touch(h, 0)
        /\ Goto(p, "stream")
        /\ UNCHANGED <<data, orphan, faults>>

\* Mutant of OpenFails: the upload is tried again until it succeeds.
OpenRetries(p) ==
    /\ pc[p] = "put"
    /\ file[dst[p]] = NoDir \/ Runs(dst[p])
    /\ Goto(p, "mkdir")
    /\ UNCHANGED <<remote, data, cat, orphan, calm, faults>>

OpenFails(p) ==
    /\ pc[p] = "put"
    /\ file[dst[p]] = NoDir \/ Runs(dst[p])
    /\ Return(p, "error")
    /\ UNCHANGED <<remote, cat, orphan, faults>>

\* Mutant of WriteAt: `cat >>`, which writes at the end of the file.
WriteAtEnd(f, pos, s) == IF pos < 0 THEN f ELSE f \o s

\* With `cat >` each cat writes at an offset of its own; a file shorter than
\* that gets a hole.
WriteAt(f, pos, s) ==
    LET before == IF Len(f) >= pos THEN SubSeq(f, 1, pos)
                  ELSE f \o [i \in 1..(pos - Len(f)) |-> Zero]
    IN  before \o s \o SubSeq(f, pos + Len(s) + 1, Len(f))

Lesser(a, b) == IF a > b THEN b ELSE a

Until(c) == Lesser(c.pos + Chunk, c.upto)

CatWrites(c) ==
    /\ c # NoCat
    /\ c.pos < c.upto
    /\ file' = [file EXCEPT ![c.host] =
                   WriteAt(@, c.pos, SubSeq(c.data, c.pos + 1, Until(c)))]
    /\ Touch(c.host, c.pos)
    /\ UNCHANGED <<exec, pc, src, dst, data, sum, said, last, faults>>

Write(p) ==
    /\ CatWrites(cat[p])
    /\ cat' = [cat EXCEPT ![p].pos = Until(cat[p])]
    /\ UNCHANGED orphan

\* Mutant of PutDone: ssh is started and not waited for.
PutUnawaited(p) ==
    /\ pc[p] = "stream"
    /\ Goto(p, "chmod")
    /\ UNCHANGED <<remote, data, cat, orphan, calm, faults>>

\* cat has read all of its input and exits.
PutDone(p) ==
    /\ pc[p] = "stream"
    /\ cat[p].pos = cat[p].upto
    /\ cat' = [cat EXCEPT ![p] = NoCat]
    /\ Goto(p, "chmod")
    /\ UNCHANGED <<remote, data, orphan, calm, faults>>

\* Mutant of ChmodEffect: the mode of something else is changed.
ChmodElsewhere(h) == h \in Host /\ UNCHANGED remote

ChmodEffect(h) ==
    /\ exec' = [exec EXCEPT ![h] = TRUE]
    /\ UNCHANGED <<file, last>>

Chmod(p) ==
    /\ pc[p] = "chmod"
    /\ ChmodEffect(dst[p])
    /\ Goto(p, "md5")
    /\ UNCHANGED <<data, cat, orphan, calm, faults>>

\* The remote md5sum reads the file as it finds it, ...
Md5Reads(p) ==
    LET f == file[dst[p]]
        n == Len(sum[p])
    IN  /\ pc[p] = "md5"
        /\ n < Len(f)
        /\ sum' = [sum EXCEPT ![p] = @ \o SubSeq(f, n + 1, Lesser(n + Chunk, Len(f)))]
        /\ UNCHANGED <<remote, pc, src, dst, data, cat, orphan, said, calm, faults>>

\* ... to its end, and its answer is on the way.
Md5Ends(p) ==
    /\ pc[p] = "md5"
    /\ Len(sum[p]) >= Len(file[dst[p]])
    /\ Goto(p, "answer")
    /\ UNCHANGED <<remote, data, cat, orphan, calm, faults>>

\* Mutant of Compare: the sizes are compared.
CompareSizes(p) ==
    /\ pc[p] = "answer"
    /\ Return(p, IF Len(sum[p]) = Len(data[p]) THEN "ok" ELSE "error")
    /\ UNCHANGED <<remote, cat, orphan, faults>>

\* Deploy has the answer; the file may be another by now.
Compare(p) ==
    /\ pc[p] = "answer"
    /\ Return(p, IF sum[p] = data[p] THEN "ok" ELSE "error")
    /\ UNCHANGED <<remote, cat, orphan, faults>>

-----------------------------------------------------------------------------
(* Failures.  An ssh that fails makes Deploy return an error.              *)

Fault == faults < MaxFaults /\ faults' = faults + 1

\* The connection breaks before the command ran, or the answer is lost.
CommandLost(p) ==
    /\ Fault
    /\ \/ pc[p] \in {"uname", "mkdir", "put", "chmod", "md5", "answer"}
          /\ UNCHANGED remote
       \/ pc[p] = "mkdir" /\ MkdirEffect(dst[p])
       \/ pc[p] = "chmod" /\ ChmodEffect(dst[p])
    /\ Return(p, "error")
    /\ UNCHANGED <<cat, orphan>>

\* The connection breaks under the stream: cat is left with what had reached
\* the machine by then.
StreamLost(p) ==
    /\ Fault
    /\ pc[p] = "stream"
    /\ orphan[p] = NoCat
    /\ \E n \in cat[p].pos..cat[p].upto :
          orphan' = [orphan EXCEPT ![p] = [cat[p] EXCEPT !.upto = n]]
    /\ cat' = [cat EXCEPT ![p] = NoCat]
    /\ Return(p, "error")
    /\ UNCHANGED remote

\* cat fails: the disk is full.
CatFails(p) ==
    /\ Fault
    /\ pc[p] = "stream"
    /\ cat' = [cat EXCEPT ![p] = NoCat]
    /\ Return(p, "error")
    /\ UNCHANGED <<remote, orphan>>

OrphanWrites(p) ==
    /\ CatWrites(orphan[p])
    /\ orphan' = [orphan EXCEPT ![p].pos = Until(orphan[p])]
    /\ UNCHANGED cat

OrphanEnds(p) ==
    /\ orphan[p] # NoCat
    /\ orphan[p].pos = orphan[p].upto
    /\ orphan' = [orphan EXCEPT ![p] = NoCat]
    /\ UNCHANGED <<remote, pc, src, dst, data, cat, sum, said, calm, faults>>

-----------------------------------------------------------------------------
Step(p) ==
    \/ Uname(p) \/ Mkdir(p) \/ Open(p) \/ OpenFails(p) \/ Write(p)
    \/ PutDone(p) \/ Chmod(p) \/ Md5Reads(p) \/ Md5Ends(p) \/ Compare(p)

OrphanStep(p) == OrphanWrites(p) \/ OrphanEnds(p)

Next ==
    \E p \in Proc :
        \/ \E v \in Version, h \in Host : RunFromDesk(p, v, h)
        \/ \E s, h \in Host : RunInstalled(p, s, h)
        \/ Step(p)
        \/ CommandLost(p) \/ StreamLost(p) \/ CatFails(p)
        \/ OrphanStep(p)

\* No remote command hangs for ever: weak fairness of Step(p), which is enabled
\* exactly while p is under way, and of the cats left behind.
Fairness ==
    \A p \in Proc :
        /\ []<>(pc[p] = "idle") \/ []<><<Step(p)>>_vars
        /\ WF_vars(OrphanStep(p))

Spec == Init /\ [][Next]_vars /\ Fairness

-----------------------------------------------------------------------------
(* Properties.                                                             *)

\* The machines, the deployments and their cats.
Types ==
    /\ file \in [Host -> {NoDir, NoFile} \cup Seq(Cell)]
    /\ exec \in [Host -> BOOLEAN]
    /\ pc \in [Proc -> {"idle", "uname", "mkdir", "put", "stream", "chmod",
                        "md5", "answer"}]
    /\ src \in [Proc -> Host \cup {Desk}]
    /\ dst \in [Proc -> Host]
    /\ data \in [Proc -> Seq(Cell)]
    /\ cat \in [Proc -> {NoCat} \cup CatState]
    /\ orphan \in [Proc -> {NoCat} \cup CatState]
    /\ \A p \in Proc : /\ cat[p] = NoCat \/ IsCat(cat[p])
                       /\ orphan[p] = NoCat \/ IsCat(orphan[p])
    /\ said \in [Proc -> {"", "ok", "error"}]
    /\ last \in [Host -> Proc \cup {NoCat}]
    /\ faults \in 0..MaxFaults

\* Installed files and what is sent are cells; no cat writes beyond what reached
\* it; and Deploy waits for its cat: as long as the cat runs no later command is
\* sent, and when it is gone none is taken for running.
TypeOK ==
    /\ Types
    /\ sum \in [Proc -> Seq(Cell)]
    /\ calm \in [Proc -> BOOLEAN]
    /\ \A p \in Proc : pc[p] = "stream" <=> cat[p] # NoCat

Targets(h) == {v \in Version : HostArch[h] \in DOMAIN Canon[v]}

Whole(h) == \E v \in Targets(h) : file[h] = Canon[v][HostArch[h]]

Begins(s, t) == Len(s) <= Len(t) /\ SubSeq(t, 1, Len(s)) = s

\* With one deployment per machine at a time, an installed file is a released
\* image for that very machine or the beginning of one, after any number of
\* hops, upgrades by shorter or longer releases, and broken connections.
OnlyPrefixes ==
    \A h \in Host : Exists(h) =>
        \E v \in Targets(h) : Begins(file[h], Canon[v][HostArch[h]])

\* The deployment that opened h's file last reported success.
Succeeded(h) == \E p \in Proc : last[h] = p /\ dst[p] = h /\ said[p] = "ok"

\* What Deploy reported stands: until another deployment opens the file, a
\* machine whose last deployment said ok holds a whole release and runs it.
SuccessStands == \A h \in Host : Succeeded(h) => Whole(h) /\ Runnable(h)

\* Retries of one release may overtake the cat a broken connection left, and
\* several may run at once: after a reported success the file is whole all
\* the same, for all that was written to it since.
SuccessWhole ==
    \A h \in Host : Succeeded(h) => Whole(h) /\ exec[h] /\ Loads(h)

\* main.go: the teleport installs by "reconstructing the exact canonical
\* artifact for the remote's arch from this binary's own embedded FATBLOB".
InstallsCanonical == \A h \in Host : Succeeded(h) => Whole(h)

\* What an observer of releases sees of a machine (Install.tla).  The release
\* it holds is told from its file, the release on its way from the bytes of
\* the deployment under way, or of the cat it left behind.
Held(h) ==
    LET whole == {v \in Targets(h) : file[h] = Canon[v][HostArch[h]]}
    IN  IF ~Exists(h) THEN "none"
        ELSE IF whole = {} THEN "partial" ELSE CHOOSE v \in whole : TRUE

OnItsWay(h) ==
    {data[p] : p \in {q \in Proc : pc[q] # "idle" /\ dst[q] = h}}
    \cup {orphan[p].data : p \in {q \in Proc : orphan[q] # NoCat
                                               /\ orphan[q].host = h}}

Sent(h) ==
    LET images == OnItsWay(h)
        sent == {v \in Version : \E a \in DOMAIN Canon[v] : Canon[v][a] \in images}
    IN  IF images = {} \/ sent = {} THEN "none" ELSE CHOOSE v \in sent : TRUE

Installed(h) == INSTANCE Install
    WITH disk <- Held(h), sending <- Sent(h),
         claim <- IF Succeeded(h) THEN Held(h) ELSE "none"

\* With one deployment per machine at a time, each machine implements Install:
\* through lost connections and answers, retries, leftover cats and hops, it
\* completes no release but the one on its way to it, none turns into another
\* without being opened, and what Deploy reports is what was sent.
\* (\A h \in Host : Installed(h)!Spec, in a form TLC checks.)
ImplementsInstall ==
    /\ \A h \in Host : Installed(h)!Init
    /\ [][\A h \in Host : [Installed(h)!Next]_(Installed(h)!vars)]_vars

\* md5sum reads a file that others may be writing, and its answer is compared
\* later.  Whatever other deployments and leftover cats mixed into the file
\* before md5sum read it, a success reported by a deployment from a build
\* machine means a whole release that the target may execute, provided nobody
\* overwrote, cut or extended behind md5sum what it had read.
OkIsWhole ==
    [][\A p \in Proc :
          /\ pc[p] = "answer" /\ src[p] = Desk
          /\ said'[p] = "ok" /\ calm[p]
          => Whole(dst[p])' /\ exec'[dst[p]] /\ Loads(dst[p])']_vars

\* Every deployment ends.
Ends == \A p \in Proc : pc[p] # "idle" ~> pc[p] = "idle"

\* Trying again heals: when no more connection breaks, a deployment succeeds
\* over whatever a failed one left, unless the program it replaces runs.
RetryHeals ==
    \A p \in Proc :
        /\ pc[p] = "uname" /\ faults = MaxFaults
        /\ Targets(dst[p]) = Version
        ~> \/ said[p] = "ok" /\ Whole(dst[p])
           \/ Runs(dst[p])

=============================================================================
