--------------------------- MODULE InstallProofs ---------------------------
(***************************************************************************)
(* When at most one deployment, or the cat one left behind, has a machine  *)
(* at a time: what lies on it is a release or the beginning of one, a      *)
(* reported success stands, and Teleport implements Install.               *)
(***************************************************************************)
EXTENDS TeleportProofs

-----------------------------------------------------------------------------
(* The inductive invariant.                                                *)

\* p is at work on h, or what it left behind is.
Deploys(p, h) == pc[p] # "idle" /\ dst[p] = h
Leaves(p, h) == orphan[p] # NoCat /\ orphan[p].host = h
At(p, h) == Deploys(p, h) \/ Leaves(p, h)

Solo ==
    \A h \in Host : \A p \in Proc :
        /\ ~(Deploys(p, h) /\ Leaves(p, h))
        /\ \A q \in Proc : At(p, h) /\ At(q, h) => p = q

\* c brings the image of a release for its machine, and the file is what it
\* wrote so far.  When the cat has ended, the file is what was sent.
Feeds(c) ==
    \E v \in Targets(c.host) :
        /\ c.data = Canon[v][HostArch[c.host]]
        /\ file[c.host] = SubSeq(c.data, 1, c.pos)

InCharge(p) ==
    /\ pc[p] # "idle" => Sends(p)
    /\ pc[p] \in Opened => last[dst[p]] = p
    /\ pc[p] \in {"chmod", "md5", "answer"} => file[dst[p]] = data[p]
    /\ cat[p] # NoCat => Feeds(cat[p])
    /\ orphan[p] # NoCat => Feeds(orphan[p])

Prefix(h) ==
    Exists(h) => \E v \in Targets(h) : Begins(file[h], Canon[v][HostArch[h]])

Done(h) == Succeeded(h) => Whole(h) /\ exec[h] /\ ~OpenForWriting(h)

Ordered ==
    /\ Solo
    /\ \A p \in Proc : InCharge(p)
    /\ \A h \in Host : Prefix(h) /\ Done(h)

XInv == IInv /\ Ordered

-----------------------------------------------------------------------------
(* Frames: what a step leaves alone.                                       *)

\* No deployment but p moves.
Only(p) ==
    \A q \in Proc : q # p =>
        /\ pc'[q] = pc[q] /\ src'[q] = src[q] /\ dst'[q] = dst[q]
        /\ data'[q] = data[q] /\ said'[q] = said[q]
        /\ cat'[q] = cat[q] /\ orphan'[q] = orphan[q]

LEMMA OnlyReturn ==
    ASSUME IInv, NEW p \in Proc, NEW what \in {"ok", "error"}, Return(p, what),
           NEW c, NEW o, cat' \in {cat, [cat EXCEPT ![p] = c]},
           orphan' \in {orphan, [orphan EXCEPT ![p] = o]}
    PROVE  /\ Only(p)
           /\ pc'[p] = "idle" /\ said'[p] = what /\ dst' = dst
<1>1. ProcType /\ CatType
  BY TypeParts DEF IInv
<1>2. /\ pc'[p] = "idle" /\ said'[p] = what /\ dst' = dst
      /\ \A q \in Proc : q # p =>
            /\ pc'[q] = pc[q] /\ src'[q] = src[q]
            /\ data'[q] = data[q] /\ said'[q] = said[q]
  BY <1>1, ReturnFacts
<1>3. \A q \in Proc : q # p => cat'[q] = cat[q] /\ orphan'[q] = orphan[q]
  BY <1>1 DEF CatType
<1> QED
  BY <1>2, <1>3 DEF Only

\* At is what other deployments see of one.
LEMMA SoloKept ==
    ASSUME Solo,
           \A q \in Proc, g \in Host : At(q, g)' => At(q, g),
           \A q \in Proc, g \in Host : ~(Deploys(q, g) /\ Leaves(q, g))'
    PROVE  Solo'
BY DEF Solo

LEMMA SoloWanes ==
    ASSUME Solo,
           \A q \in Proc, g \in Host : Deploys(q, g)' => Deploys(q, g),
           \A q \in Proc, g \in Host : Leaves(q, g)' => Leaves(q, g)
    PROVE  Solo'
BY DEF Solo, At

\* Who has a machine is the only one to have it.
LEMMA Alone1 ==
    ASSUME Solo, NEW p \in Proc, NEW h \in Host, At(p, h),
           NEW q \in Proc, q # p
    PROVE  ~At(q, h)
BY DEF Solo

\* A cat belongs to a deployment that streams.
LEMMA CatAt ==
    ASSUME IInv, NEW p \in Proc, cat[p] # NoCat
    PROVE  /\ IsCat(cat[p]) /\ cat[p].host \in Host
           /\ Deploys(p, cat[p].host) /\ dst[p] = cat[p].host
           /\ Exists(cat[p].host)
<1>1. InStep(p) /\ CatType
  BY TypeParts DEF IInv
<1>2. IsCat(cat[p])
  BY <1>1 DEF CatType
<1> QED
  BY <1>1, <1>2 DEF InStep, Deploys, IsCat, CatState

LEMMA OrphanAt ==
    ASSUME IInv, NEW p \in Proc, orphan[p] # NoCat
    PROVE  /\ IsCat(orphan[p]) /\ orphan[p].host \in Host
           /\ Leaves(p, orphan[p].host) /\ Exists(orphan[p].host)
<1>1. InStep(p) /\ CatType
  BY TypeParts DEF IInv
<1>2. IsCat(orphan[p])
  BY <1>1 DEF CatType
<1> QED
  BY <1>1, <1>2 DEF InStep, Leaves, IsCat, CatState

\* The machine a cat writes to has a deployment, or what one left, at it.
LEMMA WriterAt ==
    ASSUME IInv, NEW h \in Host
    PROVE  OpenForWriting(h) <=>
              \E q \in Proc : \/ cat[q] # NoCat /\ Deploys(q, h)
                              \/ Leaves(q, h)
<1>1. ASSUME NEW q \in Proc, cat[q] # NoCat
      PROVE  Deploys(q, h) <=> cat[q].host = h
  BY <1>1, CatAt DEF Deploys
<1> QED
  BY <1>1 DEF OpenForWriting, Leaves

\* A deployment keeps its machine when nobody touches that.
LEMMA InChargeKept ==
    ASSUME IInv, NEW q \in Proc, InCharge(q),
           pc'[q] = pc[q], dst'[q] = dst[q], data'[q] = data[q],
           cat'[q] = cat[q], orphan'[q] = orphan[q],
           \A g \in Host : At(q, g) /\ Exists(g) => file'[g] = file[g],
           \A g \in Host : At(q, g) => last'[g] = last[g]
    PROVE  InCharge(q)'
<1>1. dst[q] \in Host
  BY DEF IInv, Types
<1>2. Sends(q) => Sends(q)'
  BY DEF Sends
<1>3. pc[q] # "idle" => last'[dst[q]] = last[dst[q]]
  BY <1>1 DEF At, Deploys
<1>4. pc[q] \in Opened => file'[dst[q]] = file[dst[q]]
  BY OpenedExists DEF At, Deploys, Opened
<1>5. cat[q] # NoCat => file'[cat[q].host] = file[cat[q].host]
  BY CatAt DEF At
<1>6. orphan[q] # NoCat => file'[orphan[q].host] = file[orphan[q].host]
  BY OrphanAt DEF At
<1>7. cat[q] # NoCat /\ Feeds(cat[q]) => Feeds(cat[q])'
  BY <1>5 DEF Feeds, Targets
<1>8. orphan[q] # NoCat /\ Feeds(orphan[q]) => Feeds(orphan[q])'
  BY <1>6 DEF Feeds, Targets
<1> QED
  BY <1>2, <1>3, <1>4, <1>7, <1>8 DEF InCharge, Opened

\* A file nobody writes stays what it was.
LEMMA PrefixKept ==
    ASSUME NEW h \in Host, Prefix(h), Exists(h)' => file'[h] = file[h]
    PROVE  Prefix(h)'
BY DEF Prefix, Exists, Targets

LEMMA DoneKept ==
    ASSUME NEW h \in Host, Done(h), Succeeded(h)' => Succeeded(h),
           Succeeded(h) /\ Exists(h) =>
              /\ file'[h] = file[h]
              /\ exec[h] => exec'[h]
              /\ OpenForWriting(h)' => OpenForWriting(h),
           RemoteType
    PROVE  Done(h)'
<1>1. Whole(h) => Exists(h)
  <2>1. ASSUME Whole(h)
        PROVE  file[h] \in Seq(Cell)
    BY <2>1, CanonDomain, CanonShape DEF Whole, Targets
  <2> QED
    BY <2>1, ExistsCells
<1>2. Whole(h) /\ file'[h] = file[h] => Whole(h)'
  BY DEF Whole, Targets
<1> QED
  BY <1>1, <1>2 DEF Done

\* A success is nobody's but the one that opened the file last.
LEMMA SucceededKept ==
    ASSUME NEW p \in Proc, Only(p), NEW h \in Host,
           last'[h] = last[h] \/ last'[h] = p,
           said'[p] # "ok" \/ (said'[p] = said[p] /\ dst'[p] = dst[p]
                               /\ last'[h] = last[h])
    PROVE  Succeeded(h)' => Succeeded(h)
BY DEF Only, Succeeded

-----------------------------------------------------------------------------
(* Each step preserves it.                                                 *)

\* Cats that end stop writing.
LEMMA WritersWane ==
    ASSUME NEW h,
           \A q \in Proc : cat'[q] = cat[q] \/ cat'[q] = NoCat,
           \A q \in Proc : orphan'[q] = orphan[q] \/ orphan'[q] = NoCat
    PROVE  OpenForWriting(h)' => OpenForWriting(h)
BY DEF OpenForWriting

\* Only the opening of a file, a write and a success touch what others see;
\* the other steps of a deployment leave a machine as it is, or better.
LEMMA QuietOrdered ==
    ASSUME XInv, NEW p \in Proc, Only(p), InCharge(p)',
           dst'[p] = dst[p], pc[p] # "idle" \/ pc'[p] = pc[p],
           cat'[p] = cat[p] \/ cat'[p] = NoCat,
           orphan'[p] = orphan[p] \/ orphan'[p] = NoCat,
           said'[p] \in {said[p], "error"}, last' = last,
           \A g \in Host : Exists(g) => file'[g] = file[g],
           \A g \in Host : Exists(g)' => Exists(g),
           \A g \in Host : exec[g] => exec'[g]
    PROVE  Ordered'
<1>1. IInv /\ Solo /\ RemoteType
  BY TypeParts DEF XInv, Ordered, IInv
<1>2. /\ \A q \in Proc : cat'[q] = cat[q] \/ cat'[q] = NoCat
      /\ \A q \in Proc : orphan'[q] = orphan[q] \/ orphan'[q] = NoCat
  BY DEF Only
<1>3. Solo'
  <2>1. \A q \in Proc, g \in Host : Deploys(q, g)' => Deploys(q, g)
    BY DEF Only, Deploys
  <2>2. \A q \in Proc, g \in Host : Leaves(q, g)' => Leaves(q, g)
    BY <1>2 DEF Leaves
  <2> QED
    BY <1>1, <2>1, <2>2, SoloWanes
<1>4. ASSUME NEW q \in Proc, q # p
      PROVE  InCharge(q)'
  <2>1. InCharge(q)
    BY DEF XInv, Ordered
  <2> QED
    BY <1>1, <1>4, <2>1, InChargeKept DEF Only
<1>5. ASSUME NEW g \in Host
      PROVE  Prefix(g)' /\ Done(g)'
  <2>1. Prefix(g) /\ Done(g)
    BY DEF XInv, Ordered
  <2>2. Prefix(g)'
    BY <2>1, PrefixKept
  <2>3. Succeeded(g)' => Succeeded(g)
    BY SucceededKept
  <2>4. OpenForWriting(g)' => OpenForWriting(g)
    BY <1>2, WritersWane
  <2> QED
    BY <1>1, <2>1, <2>2, <2>3, <2>4, DoneKept
<1> QED
  BY <1>3, <1>4, <1>5 DEF Ordered

\* Deploy returns an error.
LEMMA ErrorOrdered ==
    ASSUME XInv, NEW p \in Proc, Return(p, "error"), pc[p] # "idle",
           cat' = [cat EXCEPT ![p] = NoCat], orphan' = orphan, last' = last,
           \A g \in Host : Exists(g) => file'[g] = file[g],
           \A g \in Host : Exists(g)' => Exists(g),
           \A g \in Host : exec[g] => exec'[g]
    PROVE  Ordered'
<1>1. IInv /\ CatType /\ InCharge(p)
  BY TypeParts DEF XInv, Ordered, IInv
<1>2. /\ Only(p) /\ pc'[p] = "idle" /\ said'[p] = "error" /\ dst' = dst
  BY <1>1, OnlyReturn
<1>3. cat'[p] = NoCat
  BY <1>1 DEF CatType
<1>4. orphan[p] # NoCat => /\ file'[orphan[p].host] = file[orphan[p].host]
                           /\ Feeds(orphan[p])
  BY <1>1, OrphanAt DEF InCharge
<1>5. InCharge(p)'
  BY <1>2, <1>3, <1>4 DEF InCharge, Feeds, Targets, Opened
<1> QED
  BY <1>2, <1>3, <1>5, QuietOrdered

\* A deployment that has no cat has none to lose.
LEMMA NoCatToLose ==
    ASSUME IInv, NEW p \in Proc, pc[p] # "stream"
    PROVE  cat[p] = NoCat /\ cat = [cat EXCEPT ![p] = NoCat]
<1>1. CatType /\ InStep(p)
  BY TypeParts DEF IInv
<1>2. cat[p] = NoCat
  BY <1>1 DEF InStep
<1> QED
  BY <1>1, <1>2, Same

LEMMA OpenFailsOrdered ==
    ASSUME XInv, NEW p \in Proc, OpenFails(p)
    PROVE  Ordered'
<1>1. /\ pc[p] = "put" /\ Return(p, "error") /\ UNCHANGED remote
      /\ UNCHANGED <<cat, orphan>>
  BY DEF OpenFails
<1>2. UNCHANGED <<file, exec, last>> /\ cat' = [cat EXCEPT ![p] = NoCat]
  BY <1>1, NoCatToLose DEF XInv, remote
<1> QED
  BY <1>1, <1>2, ErrorOrdered DEF Exists

LEMMA CommandLostOrdered ==
    ASSUME XInv, NEW p \in Proc, CommandLost(p)
    PROVE  Ordered'
<1>1. /\ pc[p] \in {"uname", "mkdir", "put", "chmod", "md5", "answer"}
      /\ Return(p, "error") /\ UNCHANGED <<cat, orphan>>
  BY DEF CommandLost
<1>2. cat' = [cat EXCEPT ![p] = NoCat]
  BY <1>1, NoCatToLose DEF XInv
<1>3. IInv /\ dst[p] \in Host
  BY DEF XInv, IInv, Types
<1>4. /\ last' = last
      /\ \A g \in Host : Exists(g) => file'[g] = file[g]
      /\ \A g \in Host : Exists(g)' => Exists(g)
      /\ \A g \in Host : exec[g] => exec'[g]
  <2>1. CASE UNCHANGED remote
    BY <2>1 DEF remote, Exists
  <2>2. CASE MkdirEffect(dst[p])
    BY <1>3, <2>2, MkdirKeeps DEF MkdirEffect
  <2>3. CASE ChmodEffect(dst[p])
    BY <1>3, <2>3, ChmodKeeps DEF ChmodEffect, Exists
  <2> QED
    BY <2>1, <2>2, <2>3 DEF CommandLost
<1> QED
  BY <1>1, <1>2, <1>4, ErrorOrdered

LEMMA CatFailsOrdered ==
    ASSUME XInv, NEW p \in Proc, CatFails(p)
    PROVE  Ordered'
<1>1. /\ pc[p] = "stream" /\ Return(p, "error") /\ UNCHANGED remote
      /\ cat' = [cat EXCEPT ![p] = NoCat] /\ orphan' = orphan
  BY DEF CatFails
<1>2. UNCHANGED <<file, exec, last>>
  BY <1>1 DEF remote
<1> QED
  BY <1>1, <1>2, ErrorOrdered DEF Exists

LEMMA UnameOrdered ==
    ASSUME XInv, IInv', NEW p \in Proc, Uname(p)
    PROVE  Ordered'
<1>1. /\ IInv /\ ProcType /\ CatType /\ InCharge(p) /\ pc[p] = "uname"
      /\ UNCHANGED <<file, exec, last, cat, orphan>>
  BY TypeParts DEF XInv, Ordered, IInv, Uname, remote
<1>2. PICK t : t = FromUname(Machine[dst[p]])
  OBVIOUS
<1>3. CASE FromUnameOK(Machine[dst[p]]) /\ ReconstructOK(data[p], t)
  <2>1. Goto(p, "mkdir") /\ data' = [data EXCEPT ![p] = Reconstruct(data[p], t)]
    BY <1>2, <1>3 DEF Uname
  <2>2. /\ pc'[p] = "mkdir" /\ src' = src /\ dst' = dst /\ said' = said
        /\ \A q \in Proc : q # p => pc'[q] = pc[q]
    BY <1>1, <2>1, GotoFacts DEF Commands
  <2>3. /\ data'[p] = Reconstruct(data[p], t)
        /\ \A q \in Proc : q # p => data'[q] = data[q]
    BY <1>1, <2>1 DEF ProcType
  <2>4. Only(p)
    BY <1>1, <2>2, <2>3 DEF Only
  <2>5. Sends(p)'
    <3>1. PICK v \in Version : \E a \in Released(Native[v]) :
             data[p] = Canon[v][a]
      BY <1>1 DEF InCharge, Sends
    <3>2. PICK a \in Released(Native[v]) : data[p] = Canon[v][a]
      BY <3>1
    <3>3. t \in Released(Native[v]) /\ Reconstruct(data[p], t) = Canon[v][t]
      BY <1>3, <3>2, CanonAnswers
    <3>4. t = HostArch[dst[p]]
      BY <1>1, <1>2, <1>3, TeleportAssumption DEF ProcType
    <3> QED
      BY <2>2, <2>3, <3>3, <3>4 DEF Sends
  <2>6. cat[p] = NoCat
    BY <1>1, NoCatToLose
  <2>7. InCharge(p)'
    BY <1>1, <2>2, <2>5, <2>6 DEF InCharge, Feeds, Targets, Opened
  <2> QED
    BY <1>1, <2>2, <2>4, <2>6, <2>7, QuietOrdered DEF Exists
<1>4. CASE ~(FromUnameOK(Machine[dst[p]]) /\ ReconstructOK(data[p], t))
  <2>1. Return(p, "error")
    BY <1>2, <1>4 DEF Uname
  <2>2. cat' = [cat EXCEPT ![p] = NoCat]
    BY <1>1, NoCatToLose
  <2> QED
    BY <1>1, <2>1, <2>2, ErrorOrdered DEF Exists
<1> QED
  BY <1>3, <1>4

\* A deployment goes on, its image unchanged.
LEMMA GotoOrdered ==
    ASSUME XInv, NEW p \in Proc, NEW l \in {"put", "chmod", "md5", "answer"},
           pc[p] = "mkdir" \/ pc[p] \in Opened,
           l # "put" => pc[p] \in Opened /\ file[dst[p]] = data[p],
           Goto(p, l), UNCHANGED <<data, orphan>>,
           cat' = [cat EXCEPT ![p] = NoCat], last' = last,
           \A g \in Host : Exists(g) => file'[g] = file[g],
           \A g \in Host : Exists(g)' => Exists(g),
           \A g \in Host : exec[g] => exec'[g]
    PROVE  Ordered'
<1>1. IInv /\ ProcType /\ CatType /\ InCharge(p)
  BY TypeParts DEF XInv, Ordered, IInv
<1>2. /\ pc'[p] = l /\ src' = src /\ dst' = dst /\ said' = said
      /\ \A q \in Proc : q # p => pc'[q] = pc[q]
  BY <1>1, GotoFacts DEF Commands
<1>3. cat'[p] = NoCat /\ \A q \in Proc : q # p => cat'[q] = cat[q]
  BY <1>1 DEF CatType
<1>4. Only(p)
  BY <1>2, <1>3 DEF Only
<1>5. orphan[p] # NoCat => /\ file'[orphan[p].host] = file[orphan[p].host]
                           /\ Feeds(orphan[p])
  <2>1. orphan[p] # NoCat => Feeds(orphan[p])
    BY <1>1 DEF InCharge
  <2>2. orphan[p] # NoCat => orphan[p].host \in Host /\ Exists(orphan[p].host)
    BY <1>1, OrphanAt
  <2> QED
    BY <2>1, <2>2
<1>6. Sends(p)'
  BY <1>1, <1>2 DEF InCharge, Sends, Opened
<1>7. l # "put" => last'[dst'[p]] = p
  <2>1. l # "put" => last[dst[p]] = p
    BY <1>1 DEF InCharge
  <2> QED
    BY <1>2, <2>1
<1>8. orphan[p] # NoCat => Feeds(orphan[p])'
  BY <1>5 DEF Feeds, Targets
<1>9. l # "put" => file'[dst'[p]] = data'[p]
  BY <1>1, <1>2, OpenedExists
<1>10. InCharge(p)'
  BY <1>2, <1>3, <1>6, <1>7, <1>8, <1>9 DEF InCharge, Opened
<1> QED
  BY <1>2, <1>3, <1>4, <1>10, QuietOrdered DEF Opened

LEMMA MkdirOrdered ==
    ASSUME XInv, NEW p \in Proc, Mkdir(p)
    PROVE  Ordered'
<1>1. /\ pc[p] = "mkdir" /\ MkdirEffect(dst[p]) /\ Goto(p, "put")
      /\ UNCHANGED <<data, cat, orphan>>
  BY DEF Mkdir
<1>2. IInv /\ dst[p] \in Host /\ cat' = [cat EXCEPT ![p] = NoCat]
  BY <1>1, NoCatToLose DEF XInv, IInv, Types
<1>3. /\ UNCHANGED <<exec, last>>
      /\ \A g \in Host : Exists(g) => file'[g] = file[g]
      /\ \A g \in Host : Exists(g)' => Exists(g)
  BY <1>1, <1>2, MkdirKeeps DEF MkdirEffect
<1> QED
  BY <1>1, <1>2, <1>3, GotoOrdered

LEMMA PutDoneOrdered ==
    ASSUME XInv, NEW p \in Proc, PutDone(p)
    PROVE  Ordered'
<1>1. /\ pc[p] = "stream" /\ Goto(p, "chmod") /\ UNCHANGED remote
      /\ UNCHANGED <<data, orphan>> /\ cat' = [cat EXCEPT ![p] = NoCat]
  BY DEF PutDone
<1>2. UNCHANGED <<file, exec, last>>
  BY <1>1 DEF remote
<1>3. IInv /\ CatType /\ InStep(p) /\ InCharge(p)
  BY TypeParts DEF XInv, Ordered, IInv
<1>4. /\ cat[p] # NoCat /\ IsCat(cat[p]) /\ Feeds(cat[p])
      /\ cat[p].host = dst[p] /\ cat[p].data = data[p]
      /\ cat[p].pos = Len(data[p])
  BY <1>1, <1>3 DEF PutDone, InStep, InCharge, CatType
<1>5. file[dst[p]] = SubSeq(data[p], 1, Len(data[p]))
  BY <1>4 DEF Feeds
<1>6. file[dst[p]] = data[p]
  BY <1>4, <1>5, SubSeqFull DEF IsCat, CatState
<1> QED
  BY <1>1, <1>2, <1>6, GotoOrdered DEF Exists, Opened

LEMMA ChmodOrdered ==
    ASSUME XInv, NEW p \in Proc, Chmod(p)
    PROVE  Ordered'
<1>1. /\ pc[p] = "chmod" /\ ChmodEffect(dst[p]) /\ Goto(p, "md5")
      /\ UNCHANGED <<data, cat, orphan>>
  BY DEF Chmod
<1>2. IInv /\ dst[p] \in Host /\ cat' = [cat EXCEPT ![p] = NoCat]
  BY <1>1, NoCatToLose DEF XInv, IInv, Types
<1>3. UNCHANGED <<file, last>> /\ \A g \in Host : exec[g] => exec'[g]
  BY <1>1, <1>2, ChmodKeeps DEF ChmodEffect
<1>4. file[dst[p]] = data[p]
  BY <1>1 DEF XInv, Ordered, InCharge
<1> QED
  BY <1>1, <1>2, <1>3, <1>4, GotoOrdered DEF Exists, Opened

\* md5sum reads, and changes nothing that others see.
LEMMA Md5ReadsOrdered ==
    ASSUME XInv, NEW p \in Proc, Md5Reads(p)
    PROVE  Ordered'
<1>1. UNCHANGED <<file, exec, last, pc, src, dst, data, cat, orphan, said>>
  BY DEF Md5Reads, remote
<1>2. Only(p)
  BY <1>1 DEF Only
<1>3. IInv /\ InCharge(p)
  BY DEF XInv, Ordered
<1>4. InCharge(p)'
  BY <1>1, <1>3, InChargeKept
<1> QED
  BY <1>1, <1>2, <1>4, QuietOrdered DEF Exists

LEMMA Md5EndsOrdered ==
    ASSUME XInv, NEW p \in Proc, Md5Ends(p)
    PROVE  Ordered'
<1>1. /\ pc[p] = "md5" /\ Goto(p, "answer")
      /\ UNCHANGED <<file, exec, last, data, cat, orphan>>
  BY DEF Md5Ends, remote
<1>2. cat' = [cat EXCEPT ![p] = NoCat]
  BY <1>1, NoCatToLose DEF XInv
<1>3. file[dst[p]] = data[p]
  BY <1>1 DEF XInv, Ordered, InCharge
<1> QED
  BY <1>1, <1>2, <1>3, GotoOrdered DEF Exists, Opened

\* What a deployment that begins, or fails at once, changes.
LEMMA BeginFacts ==
    ASSUME IInv, NEW p \in Proc, NEW s, NEW h, NEW image,
           pc[p] = "idle", Begin(p, s, h, image)
    PROVE  /\ UNCHANGED <<file, exec, last, cat, orphan>>
           /\ Only(p) /\ said'[p] # "ok"
           /\ \/ pc'[p] = "idle" /\ dst'[p] = dst[p]
              \/ pc'[p] = "uname" /\ dst'[p] = h /\ data'[p] = image
                 /\ SplitOK(image)
<1>1. ProcType
  BY TypeParts DEF IInv
<1>2. UNCHANGED <<file, exec, last, cat, orphan>>
  BY DEF Begin, remote
<1>3. CASE SplitOK(image)
  <2>1. /\ pc' = [pc EXCEPT ![p] = "uname"] /\ src' = [src EXCEPT ![p] = s]
        /\ dst' = [dst EXCEPT ![p] = h] /\ data' = [data EXCEPT ![p] = image]
        /\ said' = [said EXCEPT ![p] = ""]
    BY <1>3 DEF Begin
  <2>2. /\ pc'[p] = "uname" /\ dst'[p] = h /\ data'[p] = image /\ said'[p] = ""
        /\ \A q \in Proc : q # p =>
              /\ pc'[q] = pc[q] /\ src'[q] = src[q] /\ dst'[q] = dst[q]
              /\ data'[q] = data[q] /\ said'[q] = said[q]
    BY <1>1, <2>1 DEF ProcType
  <2> QED
    BY <1>2, <1>3, <2>2 DEF Only
<1>4. CASE ~SplitOK(image)
  <2>1. said' = [said EXCEPT ![p] = "error"] /\ UNCHANGED <<pc, src, dst, data>>
    BY <1>4 DEF Begin
  <2>2. said'[p] = "error" /\ \A q \in Proc : q # p => said'[q] = said[q]
    BY <1>1, <2>1 DEF ProcType
  <2> QED
    BY <1>2, <2>1, <2>2 DEF Only
<1> QED
  BY <1>2, <1>3, <1>4

\* A deployment begins on a machine nobody is at, from a released image.
LEMMA BeginOrdered ==
    ASSUME XInv, Exclusive, NEW p \in Proc, NEW s, NEW h \in Host, NEW image,
           pc[p] = "idle", Begin(p, s, h, image),
           SplitOK(image) => \E v \in Version : \E a \in Released(Native[v]) :
                                image = Canon[v][a]
    PROVE  Ordered'
<1>1. IInv /\ ProcType /\ RemoteType /\ Solo /\ InCharge(p) /\ cat[p] = NoCat
  BY TypeParts, NoCatToLose DEF XInv, Ordered, IInv
<1>2. UNCHANGED <<file, exec, last, cat, orphan>> /\ Alone(h)
  BY DEF Begin, remote
<1>3. /\ Only(p) /\ said'[p] # "ok"
      /\ \/ pc'[p] = "idle" /\ dst'[p] = dst[p]
         \/ pc'[p] = "uname" /\ dst'[p] = h /\ data'[p] = image
            /\ SplitOK(image)
  BY <1>1, BeginFacts
<1>4. \A q \in Proc : ~At(q, h)
  BY <1>2 DEF Alone, OpenForWriting, At, Deploys, Leaves
<1>5. Solo'
  <2>1. ASSUME NEW q \in Proc, NEW g \in Host, q # p
        PROVE  /\ Deploys(q, g)' <=> Deploys(q, g)
               /\ Leaves(q, g)' <=> Leaves(q, g)
    BY <1>3, <2>1 DEF Only, Deploys, Leaves
  <2>2. ASSUME NEW g \in Host
        PROVE  /\ Deploys(p, g)' => g = h
               /\ Leaves(p, g)' <=> Leaves(p, g)
    BY <1>2, <1>3 DEF Deploys, Leaves
  <2>3. ASSUME NEW g \in Host, NEW q \in Proc
        PROVE  At(q, g)' => (g = h /\ q = p) \/ (g # h /\ At(q, g))
    BY <1>4, <2>1, <2>2 DEF At
  <2>4. ASSUME NEW g \in Host, NEW q \in Proc
        PROVE  ~(Deploys(q, g) /\ Leaves(q, g))'
    BY <1>1, <1>4, <2>1, <2>2 DEF Solo, At
  <2> QED
    BY <1>1, <2>3, <2>4 DEF Solo
<1>6. InCharge(p)'
  <2>1. pc'[p] = "uname" => Sends(p)'
    BY <1>3 DEF Sends
  <2> QED
    BY <1>1, <1>2, <1>3, <2>1 DEF InCharge, Feeds, Targets, Opened
<1>7. ASSUME NEW q \in Proc, q # p
      PROVE  InCharge(q)'
  <2>1. InCharge(q)
    BY DEF XInv, Ordered
  <2> QED
    BY <1>1, <1>2, <1>3, <1>7, <2>1, InChargeKept DEF Only
<1>8. ASSUME NEW g \in Host
      PROVE  Prefix(g)' /\ Done(g)'
  <2>1. Prefix(g) /\ Done(g)
    BY DEF XInv, Ordered
  <2>2. Prefix(g)'
    BY <1>2, <2>1, PrefixKept
  <2>3. Succeeded(g)' => Succeeded(g)
    BY <1>2, <1>3, SucceededKept
  <2>4. OpenForWriting(g)' => OpenForWriting(g)
    BY <1>2 DEF OpenForWriting
  <2> QED
    BY <1>1, <1>2, <2>1, <2>2, <2>3, <2>4, DoneKept
<1> QED
  BY <1>5, <1>6, <1>7, <1>8 DEF Ordered

LEMMA DeskOrdered ==
    ASSUME XInv, Exclusive, NEW p \in Proc, NEW v \in Version, NEW h \in Host,
           RunFromDesk(p, v, h)
    PROVE  Ordered'
<1>1. DeskArch \in Released(Native[v])
  BY CanonDomain
<1>2. pc[p] = "idle" /\ Begin(p, Desk, h, Canon[v][DeskArch])
  BY DEF RunFromDesk
<1> QED
  BY <1>1, <1>2, BeginOrdered

\* What an installed program reads from its own file, if it can split it, is
\* a whole released image: no torn one splits.
LEMMA HopReads ==
    ASSUME XInv, NEW s \in Host, Exists(s), SplitOK(file[s])
    PROVE  \E v \in Version : \E a \in Released(Native[v]) :
              file[s] = Canon[v][a]
<1>1. Prefix(s) /\ RemoteType
  BY TypeParts DEF XInv, Ordered, IInv
<1>2. PICK v \in Targets(s) : Begins(file[s], Canon[v][HostArch[s]])
  BY <1>1 DEF Prefix
<1>3. v \in Version /\ HostArch[s] \in Released(Native[v])
  BY <1>2, CanonDomain DEF Targets
<1> DEFINE c == Canon[v][HostArch[s]]
           k == Len(file[s])
<1>4. k \in Nat /\ k <= Len(c) /\ file[s] = SubSeq(c, 1, k)
  BY <1>1, <1>2, ExistsCells, LenProperties DEF Begins
<1>5. k = Len(c)
  BY <1>3, <1>4, CanonWhole
<1>6. SubSeq(c, 1, Len(c)) = c
  BY <1>3, CanonShape, SubSeqFull
<1> QED
  BY <1>3, <1>4, <1>5, <1>6

LEMMA HopOrdered ==
    ASSUME XInv, Exclusive, NEW p \in Proc, NEW s \in Host, NEW h \in Host,
           RunInstalled(p, s, h)
    PROVE  Ordered'
<1>1. pc[p] = "idle" /\ Begin(p, s, h, file[s]) /\ Exists(s)
  BY DEF RunInstalled, Runnable
<1> QED
  BY <1>1, HopReads, BeginOrdered

\* The beginning of the image a cat brings.
LEMMA BeginsLaw ==
    ASSUME NEW d \in Seq(Cell), NEW k \in Nat, k <= Len(d)
    PROVE  Begins(SubSeq(d, 1, k), d)
<1>1. Len(SubSeq(d, 1, k)) = k
  BY PrefixType
<1> QED
  BY <1>1 DEF Begins

LEMMA OpenOrdered ==
    ASSUME XInv, IInv', NEW p \in Proc, Open(p)
    PROVE  Ordered'
<1>0. PICK h \in Host : h = dst[p]
  BY DEF XInv, IInv, Types
<1>c. PICK c : c = [host |-> h, data |-> data[p], pos |-> 0,
                    upto |-> Len(data[p])]
  OBVIOUS
<1>1. /\ IInv /\ ProcType /\ RemoteType /\ CatType /\ Solo /\ InCharge(p)
      /\ InStep(p)
  BY TypeParts DEF XInv, Ordered, IInv
<1>2. /\ pc[p] = "put" /\ Goto(p, "stream")
      /\ file' = [file EXCEPT ![h] = <<>>]
      /\ exec' = [exec EXCEPT ![h] = Exists(h) /\ exec[h]]
      /\ last' = [last EXCEPT ![h] = p]
      /\ cat' = [cat EXCEPT ![p] = c]
      /\ UNCHANGED <<data, orphan>>
  BY <1>0, <1>c DEF Open
<1>3. /\ pc'[p] = "stream" /\ src' = src /\ dst' = dst /\ said' = said
      /\ \A q \in Proc : q # p => pc'[q] = pc[q]
  BY <1>1, <1>2, GotoFacts DEF Commands
<1>4. cat'[p] = c /\ \A q \in Proc : q # p => cat'[q] = cat[q]
  BY <1>1, <1>2 DEF CatType
<1>5. Only(p)
  BY <1>2, <1>3, <1>4 DEF Only
<1>6. /\ file'[h] = <<>> /\ last'[h] = p
      /\ \A g \in Host : g # h => /\ file'[g] = file[g] /\ exec'[g] = exec[g]
                                  /\ last'[g] = last[g]
  BY <1>1, <1>2 DEF RemoteType, FileType
<1>7. Deploys(p, h) /\ At(p, h) /\ ~Leaves(p, h)
  BY <1>0, <1>1, <1>2 DEF Deploys, At, Solo
<1>8. \A q \in Proc : q # p => ~At(q, h)
  BY <1>1, <1>7, Alone1
<1>9. Solo'
  <2>1. \A q \in Proc, g \in Host : Deploys(q, g)' => Deploys(q, g)
    BY <1>2, <1>3 DEF Deploys
  <2>2. \A q \in Proc, g \in Host : Leaves(q, g)' => Leaves(q, g)
    BY <1>2 DEF Leaves
  <2> QED
    BY <1>1, <2>1, <2>2, SoloWanes
<1>10. PICK v \in Version : /\ HostArch[h] \in Released(Native[v])
                            /\ data[p] = Canon[v][HostArch[h]]
  BY <1>0, <1>1, <1>2 DEF InCharge, Sends
<1>11. v \in Targets(h) /\ Canon[v][HostArch[h]] \in Seq(Cell)
  BY <1>10, CanonDomain, CanonShape DEF Targets
<1>12. SubSeq(Canon[v][HostArch[h]], 1, 0) = <<>>
  BY SubSeqEmpty
<1>13. InCharge(p)'
  <2>1. Sends(p)'
    BY <1>1, <1>2, <1>3 DEF InCharge, Sends
  <2>2. c.host = h /\ c.data = Canon[v][HostArch[h]] /\ c.pos = 0
    BY <1>c, <1>10
  <2>3. Feeds(cat[p])'
    BY <1>4, <1>6, <1>11, <1>12, <2>2 DEF Feeds, Targets
  <2>4. orphan[p] # NoCat => Feeds(orphan[p])'
    <3>1. orphan[p] # NoCat => file'[orphan[p].host] = file[orphan[p].host]
      BY <1>1, <1>6, <1>7, OrphanAt DEF Leaves
    <3> QED
      BY <1>1, <1>2, <3>1 DEF InCharge, Feeds, Targets
  <2>5. last'[dst'[p]] = p
    BY <1>0, <1>3, <1>6
  <2> QED
    BY <1>2, <1>3, <2>1, <2>3, <2>4, <2>5 DEF InCharge, Opened
<1>14. ASSUME NEW q \in Proc, q # p
       PROVE  InCharge(q)'
  <2>1. InCharge(q)
    BY DEF XInv, Ordered
  <2>2. \A g \in Host : At(q, g) => file'[g] = file[g] /\ last'[g] = last[g]
    BY <1>6, <1>8, <1>14
  <2> QED
    BY <1>1, <1>5, <1>14, <2>1, <2>2, InChargeKept DEF Only
<1>15. ASSUME NEW g \in Host
       PROVE  Prefix(g)' /\ Done(g)'
  <2>1. Prefix(g) /\ Done(g)
    BY DEF XInv, Ordered
  <2>2. CASE g = h
    <3>1. Begins(<<>>, Canon[v][HostArch[h]])
      <4>1. Len(Canon[v][HostArch[h]]) \in Nat /\ Len(<<>>) = 0
        BY <1>11, LenProperties
      <4> QED
        BY <1>12, <4>1 DEF Begins
    <3>2. Prefix(g)'
      BY <1>6, <1>11, <2>2, <3>1 DEF Prefix, Targets
    <3>3. said'[p] = ""
      BY <1>1, <1>2, <1>3 DEF InStep
    <3>4. ~Succeeded(g)'
      BY <1>6, <2>2, <3>3 DEF Succeeded
    <3> QED
      BY <3>2, <3>4 DEF Done
  <2>3. CASE g # h
    <3>1. file'[g] = file[g] /\ exec'[g] = exec[g] /\ last'[g] = last[g]
      BY <1>6, <2>3
    <3>2. Prefix(g)'
      BY <2>1, <3>1, PrefixKept
    <3>3. Succeeded(g)' => Succeeded(g)
      BY <1>3, <1>5, <3>1, SucceededKept
    <3>4. OpenForWriting(g)' => OpenForWriting(g)
      BY <1>2, <1>4, <1>c, <2>3 DEF OpenForWriting
    <3> QED
      BY <1>1, <2>1, <3>1, <3>2, <3>3, <3>4, DoneKept
  <2> QED
    BY <2>2, <2>3
<1> QED
  BY <1>9, <1>13, <1>14, <1>15 DEF Ordered

\* A cat alone on its file goes on with the beginning it wrote.
LEMMA FeedsOn ==
    ASSUME XInv, NEW c, IsCat(c), Feeds(c), Exists(c.host), CatWrites(c),
           NEW d, d = [host |-> c.host, data |-> c.data, pos |-> Until(c),
                       upto |-> c.upto]
    PROVE  /\ Feeds(d)' /\ Prefix(c.host)'
           /\ \A g \in Host : g # c.host => file'[g] = file[g]
           /\ \A g \in Host : Exists(g)' <=> Exists(g)
<1>1. IInv /\ RemoteType /\ c.pos < c.upto
  BY TypeParts DEF XInv, IInv, CatWrites
<1>2. PICK v \in Targets(c.host) :
         /\ c.data = Canon[v][HostArch[c.host]]
         /\ file[c.host] = SubSeq(c.data, 1, c.pos)
  BY DEF Feeds
<1>3. /\ Until(c) \in Nat /\ c.pos <= Until(c) /\ Until(c) <= Len(c.data)
      /\ c.data \in Seq(Cell) /\ c.pos \in Nat /\ c.host \in Host
  BY <1>1, UntilRange DEF IsCat, CatState
<1>4. /\ file' = [file EXCEPT ![c.host] =
                     WriteAt(file[c.host], c.pos,
                             SubSeq(c.data, c.pos + 1, Until(c)))]
      /\ \A g \in Host : Exists(g)' <=> Exists(g)
  BY <1>1, CatWritesStep
<1>5. WriteAt(file[c.host], c.pos, SubSeq(c.data, c.pos + 1, Until(c)))
         = SubSeq(c.data, 1, Until(c))
  BY <1>2, <1>3, WriteNext
<1>6. /\ file'[c.host] = SubSeq(c.data, 1, Until(c))
      /\ \A g \in Host : g # c.host => file'[g] = file[g]
  BY <1>1, <1>3, <1>4, <1>5 DEF RemoteType, FileType
<1>7. d.host = c.host /\ d.data = c.data /\ d.pos = Until(c)
  OBVIOUS
<1>8. Feeds(d)'
  BY <1>2, <1>6, <1>7 DEF Feeds, Targets
<1>9. Begins(file'[c.host], Canon[v][HostArch[c.host]])
  BY <1>2, <1>3, <1>6, BeginsLaw
<1>10. Prefix(c.host)'
  BY <1>2, <1>9 DEF Prefix, Targets
<1> QED
  BY <1>4, <1>6, <1>8, <1>10

\* While a cat of p writes on h, h reports nothing, and the others do not
\* see it.
LEMMA FeedOrdered ==
    ASSUME XInv, NEW p \in Proc, NEW h \in Host, At(p, h), OpenForWriting(h),
           InCharge(p)', UNCHANGED <<exec, pc, src, dst, data, said, last>>,
           \A q \in Proc : q # p => cat'[q] = cat[q] /\ orphan'[q] = orphan[q],
           cat'[p] # NoCat => cat[p] # NoCat /\ cat'[p].host = cat[p].host,
           orphan'[p] # NoCat =>
              orphan[p] # NoCat /\ orphan'[p].host = orphan[p].host,
           Prefix(h)', \A g \in Host : g # h => file'[g] = file[g],
           \A g \in Host : Exists(g)' <=> Exists(g)
    PROVE  Ordered'
<1>1. IInv /\ Solo /\ RemoteType
  BY TypeParts DEF XInv, Ordered, IInv
<1>2. Solo'
  <2>1. \A q \in Proc, g \in Host : Deploys(q, g)' => Deploys(q, g)
    BY DEF Deploys
  <2>2. \A q \in Proc, g \in Host : Leaves(q, g)' => Leaves(q, g)
    BY DEF Leaves
  <2> QED
    BY <1>1, <2>1, <2>2, SoloWanes
<1>3. ASSUME NEW q \in Proc, q # p
      PROVE  InCharge(q)'
  <2>1. InCharge(q) /\ ~At(q, h)
    BY <1>1, <1>3, Alone1 DEF XInv, Ordered
  <2>2. \A g \in Host : At(q, g) => file'[g] = file[g] /\ last'[g] = last[g]
    BY <2>1
  <2> QED
    BY <1>1, <1>3, <2>1, <2>2, InChargeKept
<1>4. Prefix(h)' /\ Done(h)'
  <2>1. ~Succeeded(h)
    BY DEF XInv, Ordered, Done
  <2>2. ~Succeeded(h)'
    BY <2>1 DEF Succeeded
  <2> QED
    BY <2>2 DEF Done
<1>5. ASSUME NEW g \in Host, g # h
      PROVE  Prefix(g)' /\ Done(g)'
  <2>1. Prefix(g) /\ Done(g) /\ file'[g] = file[g]
    BY <1>5 DEF XInv, Ordered
  <2>2. Prefix(g)'
    BY <2>1, PrefixKept
  <2>3. Succeeded(g)' => Succeeded(g)
    BY DEF Succeeded
  <2>4. OpenForWriting(g)' => OpenForWriting(g)
    BY DEF OpenForWriting
  <2> QED
    BY <1>1, <2>1, <2>2, <2>3, <2>4, DoneKept
<1> QED
  BY <1>2, <1>3, <1>4, <1>5 DEF Ordered

LEMMA WriteOrdered ==
    ASSUME XInv, NEW p \in Proc, Write(p)
    PROVE  Ordered'
<1>c. PICK c : c = cat[p]
  OBVIOUS
<1>d. PICK d : d = [c EXCEPT !.pos = Until(c)]
  OBVIOUS
<1>1. IInv /\ CatType /\ Solo /\ InCharge(p)
  BY TypeParts DEF XInv, Ordered, IInv
<1>2. /\ c # NoCat /\ CatWrites(c) /\ orphan' = orphan
      /\ cat' = [cat EXCEPT ![p] = d]
      /\ UNCHANGED <<exec, pc, src, dst, data, said, last>>
  BY <1>c, <1>1, <1>d DEF Write, CatWrites, CatType
<1>3. /\ IsCat(c) /\ Feeds(c) /\ c.host \in Host /\ Exists(c.host)
      /\ Deploys(p, c.host)
  BY <1>c, <1>1, <1>2, CatAt DEF InCharge
<1>4. d = [host |-> c.host, data |-> c.data, pos |-> Until(c), upto |-> c.upto]
  <2>1. Until(c) \in Nat /\ Until(c) <= c.upto
    BY <1>2, <1>3, UntilRange DEF CatWrites
  <2> QED
    BY <1>3, <1>d, <2>1, CatMoves
<1>5. /\ Feeds(d)' /\ Prefix(c.host)'
      /\ \A g \in Host : g # c.host => file'[g] = file[g]
      /\ \A g \in Host : Exists(g)' <=> Exists(g)
  BY <1>2, <1>3, <1>4, FeedsOn
<1>6. cat'[p] = d /\ \A q \in Proc : q # p => cat'[q] = cat[q]
  BY <1>1, <1>2 DEF CatType
<1>7. d.host = c.host
  BY <1>4
<1>8. InCharge(p)'
  <2>1. Feeds(cat[p])'
    BY <1>5, <1>6 DEF Feeds, Targets
  <2>2. orphan[p] # NoCat => Feeds(orphan[p])'
    <3>1. orphan[p] # NoCat => file'[orphan[p].host] = file[orphan[p].host]
      BY <1>1, <1>3, <1>5, OrphanAt DEF Solo
    <3> QED
      BY <1>1, <1>2, <3>1 DEF InCharge, Feeds, Targets
  <2>3. Sends(p) => Sends(p)'
    BY <1>2 DEF Sends
  <2>4. pc[p] = "stream"
    BY <1>c, <1>1, <1>2 DEF IInv, InStep
  <2> QED
    BY <1>1, <1>2, <2>1, <2>2, <2>3, <2>4 DEF InCharge, Opened
<1>9. OpenForWriting(c.host) /\ At(p, c.host)
  BY <1>c, <1>2, <1>3 DEF OpenForWriting, At
<1> QED
  BY <1>c, <1>2, <1>3, <1>5, <1>6, <1>7, <1>8, <1>9, FeedOrdered

LEMMA OrphanWritesOrdered ==
    ASSUME XInv, NEW p \in Proc, OrphanWrites(p)
    PROVE  Ordered'
<1>c. PICK c : c = orphan[p]
  OBVIOUS
<1>d. PICK d : d = [c EXCEPT !.pos = Until(c)]
  OBVIOUS
<1>1. IInv /\ CatType /\ Solo /\ InCharge(p)
  BY TypeParts DEF XInv, Ordered, IInv
<1>2. /\ c # NoCat /\ CatWrites(c) /\ cat' = cat
      /\ orphan' = [orphan EXCEPT ![p] = d]
      /\ UNCHANGED <<exec, pc, src, dst, data, said, last>>
  BY <1>c, <1>1, <1>d DEF OrphanWrites, CatWrites, CatType
<1>3. /\ IsCat(c) /\ Feeds(c) /\ c.host \in Host /\ Exists(c.host)
      /\ Leaves(p, c.host)
  BY <1>c, <1>1, <1>2, OrphanAt DEF InCharge
<1>4. d = [host |-> c.host, data |-> c.data, pos |-> Until(c), upto |-> c.upto]
  <2>1. Until(c) \in Nat /\ Until(c) <= c.upto
    BY <1>2, <1>3, UntilRange DEF CatWrites
  <2> QED
    BY <1>3, <1>d, <2>1, CatMoves
<1>5. /\ Feeds(d)' /\ Prefix(c.host)'
      /\ \A g \in Host : g # c.host => file'[g] = file[g]
      /\ \A g \in Host : Exists(g)' <=> Exists(g)
  BY <1>2, <1>3, <1>4, FeedsOn
<1>6. orphan'[p] = d /\ \A q \in Proc : q # p => orphan'[q] = orphan[q]
  BY <1>1, <1>2 DEF CatType
<1>7. d.host = c.host
  BY <1>4
<1>8. InCharge(p)'
  <2>1. Feeds(orphan[p])'
    BY <1>5, <1>6 DEF Feeds, Targets
  <2>2. cat[p] # NoCat => Feeds(cat[p])'
    <3>1. cat[p] # NoCat => file'[cat[p].host] = file[cat[p].host]
      BY <1>1, <1>3, <1>5, CatAt DEF Solo
    <3> QED
      BY <1>1, <1>2, <3>1 DEF InCharge, Feeds, Targets
  <2>3. Sends(p) => Sends(p)'
    BY <1>2 DEF Sends
  <2>4. pc[p] \in Opened => file'[dst[p]] = file[dst[p]]
    BY <1>1, <1>3, <1>5, OpenedExists DEF Solo, Deploys, Opened
  <2> QED
    BY <1>1, <1>2, <2>1, <2>2, <2>3, <2>4 DEF InCharge, Opened
<1>9. OpenForWriting(c.host) /\ At(p, c.host)
  BY <1>c, <1>2, <1>3 DEF OpenForWriting, At
<1> QED
  BY <1>c, <1>2, <1>3, <1>5, <1>6, <1>7, <1>8, <1>9, FeedOrdered

LEMMA OrphanEndsOrdered ==
    ASSUME XInv, NEW p \in Proc, OrphanEnds(p)
    PROVE  Ordered'
<1>1. IInv /\ CatType /\ InCharge(p)
  BY TypeParts DEF XInv, Ordered, IInv
<1>2. /\ orphan' = [orphan EXCEPT ![p] = NoCat]
      /\ UNCHANGED <<file, exec, pc, src, dst, data, cat, said, last>>
  BY DEF OrphanEnds, remote
<1>3. orphan'[p] = NoCat /\ \A q \in Proc : q # p => orphan'[q] = orphan[q]
  BY <1>1, <1>2 DEF CatType
<1>4. Only(p)
  BY <1>2, <1>3 DEF Only
<1>5. InCharge(p)'
  BY <1>1, <1>2, <1>3 DEF InCharge, Feeds, Sends, Targets, Opened
<1> QED
  BY <1>2, <1>3, <1>4, <1>5, QuietOrdered DEF Exists

\* The cat goes on without its deployment, with the image it brought.
LEMMA StreamLostOrdered ==
    ASSUME XInv, NEW p \in Proc, StreamLost(p)
    PROVE  Ordered'
<1>c. PICK c : c = cat[p]
  OBVIOUS
<1>1. /\ IInv /\ CatType /\ RemoteType /\ Solo /\ InCharge(p) /\ InStep(p)
  BY TypeParts DEF XInv, Ordered, IInv
<1>2. /\ pc[p] = "stream" /\ Return(p, "error") /\ orphan[p] = NoCat
      /\ UNCHANGED <<file, exec, last>> /\ cat' = [cat EXCEPT ![p] = NoCat]
  BY DEF StreamLost, remote
<1>3. /\ c # NoCat /\ IsCat(c) /\ c.host \in Host /\ Deploys(p, c.host)
      /\ dst[p] = c.host /\ Feeds(c)
  BY <1>c, <1>1, <1>2, CatAt DEF InStep, InCharge
<1>4. PICK n \in c.pos..c.upto :
         orphan' = [orphan EXCEPT ![p] = [c EXCEPT !.upto = n]]
  BY <1>c DEF StreamLost
<1>5. PICK d : d = [c EXCEPT !.upto = n]
  OBVIOUS
<1>6. /\ d = [host |-> c.host, data |-> c.data, pos |-> c.pos, upto |-> n]
      /\ IsCat(d)
  <2>1. n \in Nat /\ c.pos <= n /\ n <= c.upto
    BY <1>3 DEF IsCat, CatState
  <2> QED
    BY <1>3, <1>5, <2>1, CatMoves
<1>7. d.host = c.host /\ d.data = c.data /\ d.pos = c.pos
  BY <1>6
<1>8. /\ cat'[p] = NoCat /\ orphan'[p] = d
      /\ \A q \in Proc : q # p => cat'[q] = cat[q] /\ orphan'[q] = orphan[q]
  BY <1>1, <1>2, <1>4, <1>5 DEF CatType
<1>9. /\ Only(p) /\ pc'[p] = "idle" /\ said'[p] = "error" /\ dst' = dst
  <2>1. /\ pc'[p] = "idle" /\ said'[p] = "error" /\ dst' = dst
        /\ \A q \in Proc : q # p =>
              /\ pc'[q] = pc[q] /\ src'[q] = src[q]
              /\ data'[q] = data[q] /\ said'[q] = said[q]
    BY <1>1, <1>2, TypeParts, ReturnFacts DEF IInv
  <2> QED
    BY <1>8, <2>1 DEF Only
<1>10. Solo'
  <2>1. ASSUME NEW q \in Proc, NEW g \in Host
        PROVE  /\ Deploys(q, g)' => q # p /\ Deploys(q, g)
               /\ q # p => (Leaves(q, g)' <=> Leaves(q, g))
               /\ q = p => (Leaves(q, g)' => g = c.host)
    BY <1>7, <1>8, <1>9 DEF Only, Deploys, Leaves
  <2>2. \A q \in Proc, g \in Host : At(q, g)' => At(q, g)
    BY <1>3, <2>1 DEF At
  <2>3. \A q \in Proc, g \in Host : ~(Deploys(q, g) /\ Leaves(q, g))'
    BY <1>1, <2>1 DEF Solo
  <2> QED
    BY <1>1, <2>2, <2>3, SoloKept
<1>11. InCharge(p)'
  <2>1. Feeds(d)'
    BY <1>2, <1>3, <1>7 DEF Feeds, Targets
  <2>2. Feeds(orphan[p])'
    BY <1>8, <2>1 DEF Feeds, Targets
  <2> QED
    BY <1>8, <1>9, <2>2 DEF InCharge, Opened
<1>12. ASSUME NEW q \in Proc, q # p
       PROVE  InCharge(q)'
  <2>1. InCharge(q)
    BY DEF XInv, Ordered
  <2> QED
    BY <1>1, <1>2, <1>9, <1>12, <2>1, InChargeKept DEF Only
<1>13. ASSUME NEW g \in Host
       PROVE  Prefix(g)' /\ Done(g)'
  <2>1. Prefix(g) /\ Done(g)
    BY DEF XInv, Ordered
  <2>2. Prefix(g)'
    BY <1>2, <2>1, PrefixKept
  <2>3. Succeeded(g)' => Succeeded(g)
    BY <1>2, <1>9, SucceededKept
  <2>4. OpenForWriting(g)' => OpenForWriting(g)
    BY <1>c, <1>3, <1>7, <1>8 DEF OpenForWriting
  <2> QED
    BY <1>1, <1>2, <2>1, <2>2, <2>3, <2>4, DoneKept
<1> QED
  BY <1>10, <1>11, <1>12, <1>13 DEF Ordered

\* What makes a success good for as long as nobody opens the file.
LEMMA AnswerStands ==
    ASSUME XInv, NEW p \in Proc, pc[p] = "answer"
    PROVE  /\ file[dst[p]] = data[p]
           /\ Whole(dst[p]) /\ Loads(dst[p]) /\ exec[dst[p]]
           /\ ~OpenForWriting(dst[p]) /\ last[dst[p]] = p
<1>0. PICK h \in Host : h = dst[p]
  BY DEF XInv, IInv, Types
<1>1. IInv /\ Solo /\ InCharge(p) /\ InStep(p)
  BY DEF XInv, Ordered, IInv
<1>2. Deploys(p, h) /\ At(p, h) /\ ~Leaves(p, h) /\ cat[p] = NoCat
  BY <1>0, <1>1, NoCatToLose DEF Deploys, At, Solo
<1>3. \A q \in Proc : q # p => ~At(q, h)
  BY <1>1, <1>2, Alone1
<1>4. ~OpenForWriting(h)
  BY <1>1, <1>2, <1>3, WriterAt DEF At
<1>5. PICK v \in Version : /\ HostArch[h] \in Released(Native[v])
                           /\ file[h] = Canon[v][HostArch[h]]
  BY <1>0, <1>1 DEF InCharge, Sends
<1>6. file[h] = data[p] /\ last[h] = p
  BY <1>0, <1>1 DEF InCharge, Opened
<1>7. Whole(h) /\ Loads(h)
  BY <1>5, WholeLoads
<1> QED
  BY <1>0, <1>1, <1>4, <1>7, <1>6 DEF InStep

LEMMA CompareOrdered ==
    ASSUME XInv, NEW p \in Proc, Compare(p)
    PROVE  Ordered'
<1>0. PICK h \in Host : h = dst[p]
  BY DEF XInv, IInv, Types
<1>1. IInv /\ CatType /\ RemoteType /\ Solo /\ InCharge(p) /\ pc[p] = "answer"
  BY TypeParts DEF XInv, Ordered, IInv, Compare
<1>2. UNCHANGED <<file, exec, last, cat, orphan>>
  BY DEF Compare, remote
<1>3. CASE Return(p, "error")
  <2>1. cat' = [cat EXCEPT ![p] = NoCat]
    BY <1>1, <1>2, NoCatToLose
  <2> QED
    BY <1>1, <1>2, <1>3, <2>1, ErrorOrdered DEF Exists
<1>4. CASE Return(p, "ok")
  <2>1. /\ Only(p) /\ pc'[p] = "idle" /\ dst' = dst
    BY <1>1, <1>2, <1>4, OnlyReturn
  <2>2. Solo'
    <3>1. \A q \in Proc, g \in Host : Deploys(q, g)' => Deploys(q, g)
      BY <2>1 DEF Only, Deploys
    <3>2. \A q \in Proc, g \in Host : Leaves(q, g)' => Leaves(q, g)
      BY <1>2 DEF Leaves
    <3> QED
      BY <1>1, <3>1, <3>2, SoloWanes
  <2>3. InCharge(p)'
    BY <1>1, <1>2, <2>1 DEF InCharge, Feeds, Targets, Opened
  <2>4. ASSUME NEW q \in Proc, q # p
        PROVE  InCharge(q)'
    <3>1. InCharge(q)
      BY DEF XInv, Ordered
    <3> QED
      BY <1>1, <1>2, <2>1, <2>4, <3>1, InChargeKept DEF Only
  <2>5. ASSUME NEW g \in Host
        PROVE  Prefix(g)' /\ Done(g)'
    <3>1. Prefix(g) /\ Done(g)
      BY DEF XInv, Ordered
    <3>2. Prefix(g)'
      BY <1>2, <3>1, PrefixKept
    <3>3. CASE g = h
      <4>1. Whole(g) /\ exec[g] /\ ~OpenForWriting(g)
        BY <1>0, <1>1, <3>3, AnswerStands
      <4>2. Whole(g)' /\ exec'[g] /\ ~OpenForWriting(g)'
        BY <1>2, <4>1 DEF Whole, Targets, OpenForWriting
      <4> QED
        BY <3>2, <4>2 DEF Done
    <3>4. CASE g # h
      <4>1. Succeeded(g)' => Succeeded(g)
        BY <1>0, <1>2, <2>1, <3>4 DEF Only, Succeeded
      <4>2. OpenForWriting(g)' => OpenForWriting(g)
        BY <1>2 DEF OpenForWriting
      <4> QED
        BY <1>1, <1>2, <3>1, <3>2, <4>1, <4>2, DoneKept
    <3> QED
      BY <3>3, <3>4
  <2> QED
    BY <2>2, <2>3, <2>4, <2>5 DEF Ordered
<1> QED
  BY <1>3, <1>4 DEF Compare

LEMMA InitXInv == Init => XInv
<1> SUFFICES ASSUME Init PROVE XInv
  OBVIOUS
<1>1. IInv
  BY InitIInv
<1>2. /\ \A p \in Proc : /\ pc[p] = "idle" /\ cat[p] = NoCat
                         /\ orphan[p] = NoCat /\ said[p] = ""
      /\ \A h \in Host : file[h] = NoDir
  BY DEF Init
<1>3. Solo
  BY <1>2 DEF Solo, At, Deploys, Leaves
<1>4. \A p \in Proc : InCharge(p)
  BY <1>2 DEF InCharge, Opened
<1>5. \A h \in Host : Prefix(h) /\ Done(h)
  BY <1>2 DEF Prefix, Exists, Done, Succeeded
<1> QED
  BY <1>1, <1>3, <1>4, <1>5 DEF XInv, Ordered

LEMMA NextXInv ==
    ASSUME Exclusive
    PROVE  XInv /\ [Next]_vars => XInv'
<1> SUFFICES ASSUME XInv, [Next]_vars PROVE XInv'
  OBVIOUS
<1>1. IInv'
  BY NextIInv DEF XInv
<1>2. CASE UNCHANGED vars
  BY <1>1, <1>2 DEF vars, XInv, Ordered, Solo, At, Deploys, Leaves, InCharge,
     Sends, Feeds, Targets, Prefix, Exists, Done, Succeeded, Whole,
     OpenForWriting, Opened
<1>3. ASSUME NEW p \in Proc,
             \/ \E v \in Version, h \in Host : RunFromDesk(p, v, h)
             \/ \E s, h \in Host : RunInstalled(p, s, h)
      PROVE  Ordered'
  BY <1>3, DeskOrdered, HopOrdered
<1>4. ASSUME NEW p \in Proc, Step(p)
      PROVE  Ordered'
  BY <1>1, <1>4, UnameOrdered, MkdirOrdered, OpenOrdered, OpenFailsOrdered,
     WriteOrdered, PutDoneOrdered, ChmodOrdered, Md5ReadsOrdered,
     Md5EndsOrdered, CompareOrdered DEF Step
<1>5. ASSUME NEW p \in Proc, CommandLost(p) \/ StreamLost(p) \/ CatFails(p)
      PROVE  Ordered'
  BY <1>5, CommandLostOrdered, StreamLostOrdered, CatFailsOrdered
<1>6. ASSUME NEW p \in Proc, OrphanStep(p)
      PROVE  Ordered'
  BY <1>6, OrphanWritesOrdered, OrphanEndsOrdered DEF OrphanStep
<1> QED
  BY <1>1, <1>2, <1>3, <1>4, <1>5, <1>6 DEF Next, XInv

LEMMA XInvariance ==
    ASSUME Exclusive
    PROVE  Spec => []XInv
<1>1. XInv /\ [Next]_vars => XInv'
  BY NextXInv
<1> QED
  BY <1>1, InitXInv, PTL DEF Spec

-----------------------------------------------------------------------------
(* What it yields.                                                         *)

\* With one deployment per machine at a time, what lies at the installed path
\* is the image of a release for that machine or the beginning of one, after
\* any number of hops, upgrades and broken connections.
THEOREM PrefixesHold ==
    ASSUME Exclusive
    PROVE  Spec => []OnlyPrefixes
<1>1. XInv => OnlyPrefixes
  BY DEF XInv, Ordered, Prefix, OnlyPrefixes
<1> QED
  BY <1>1, XInvariance, PTL

\* With one deployment per machine at a time, a machine whose last deployment
\* said ok holds a whole release and can run it, until the file is opened
\* again.
THEOREM SuccessHolds ==
    ASSUME Exclusive
    PROVE  Spec => []SuccessStands
<1>1. ASSUME XInv, NEW h \in Host, Succeeded(h)
      PROVE  Whole(h) /\ Runnable(h)
  <2>1. Whole(h) /\ exec[h] /\ ~OpenForWriting(h)
    BY <1>1 DEF XInv, Ordered, Done
  <2>2. PICK v \in Version : /\ HostArch[h] \in Released(Native[v])
                             /\ file[h] = Canon[v][HostArch[h]]
    BY <2>1, CanonDomain DEF Whole, Targets
  <2>3. Loads(h)
    BY <2>2, WholeLoads
  <2>4. Exists(h)
    BY <1>1, <2>2, CanonShape, TypeParts, ExistsCells DEF XInv, IInv
  <2> QED
    BY <2>1, <2>3, <2>4 DEF Runnable
<1>2. XInv => SuccessStands
  BY <1>1 DEF SuccessStands
<1> QED
  BY <1>2, XInvariance, PTL

-----------------------------------------------------------------------------
(* Teleport implements Install: what an observer of releases sees.         *)

\* p brings h an image of release v.
Shows(p, h, v) ==
    \E a \in Released(Native[v]) :
        \/ Deploys(p, h) /\ data[p] = Canon[v][a]
        \/ Leaves(p, h) /\ orphan[p].data = Canon[v][a]

Way(h, v) == \E p \in Proc : Shows(p, h, v)

\* What Held and Sent tell of a machine.
SeesHeld(h) ==
    /\ ~Exists(h) => Held(h) = "none"
    /\ Exists(h) /\ ~Whole(h) => Held(h) = "partial"
    /\ \A v \in Targets(h) :
          Exists(h) /\ file[h] = Canon[v][HostArch[h]] => Held(h) = v

SeesSent(h) ==
    /\ \A v \in Version : Way(h, v) => Sent(h) = v
    /\ (\A p \in Proc : ~At(p, h)) => Sent(h) = "none"

LEMMA HeldTold ==
    ASSUME NEW h \in Host
    PROVE  SeesHeld(h)
<1> DEFINE whole == {v \in Targets(h) : file[h] = Canon[v][HostArch[h]]}
<1>1. Held(h) = IF ~Exists(h) THEN "none"
                ELSE IF whole = {} THEN "partial"
                     ELSE CHOOSE v \in whole : TRUE
  BY DEF Held
<1>2. ~Whole(h) => whole = {}
  BY DEF Whole
<1>3. ASSUME NEW v \in Targets(h), file[h] = Canon[v][HostArch[h]]
      PROVE  whole = {v}
  <2>1. ASSUME NEW w \in Targets(h), file[h] = Canon[w][HostArch[h]]
        PROVE  w = v
    <3>1. /\ v \in Version /\ HostArch[h] \in Released(Native[v])
          /\ w \in Version /\ HostArch[h] \in Released(Native[w])
      BY CanonDomain DEF Targets
    <3>2. Canon[v][HostArch[h]] = Canon[w][HostArch[h]]
      BY <1>3, <2>1
    <3> HIDE DEF whole
    <3> QED
      BY <3>1, <3>2, CanonInjective
  <2> QED
    BY <1>3, <2>1
<1>4. ASSUME NEW v \in Targets(h), file[h] = Canon[v][HostArch[h]], Exists(h)
      PROVE  Held(h) = v
  <2>1. whole = {v}
    BY <1>3, <1>4
  <2>2. (CHOOSE w \in {v} : TRUE) = v
    OBVIOUS
  <2> HIDE DEF whole
  <2> QED
    BY <1>1, <1>4, <2>1, <2>2
<1> HIDE DEF whole
<1> QED
  BY <1>1, <1>2, <1>4 DEF SeesHeld

\* A deployment alone on a machine is all there is on its way to it.
LEMMA SentTold ==
    ASSUME XInv, NEW h \in Host
    PROVE  SeesSent(h)
<1> DEFINE sent == {v \in Version :
                       \E a \in DOMAIN Canon[v] : Canon[v][a] \in OnItsWay(h)}
<1>0. Solo
  BY DEF XInv, Ordered
<1>1. Sent(h) = IF OnItsWay(h) = {} \/ sent = {} THEN "none"
                ELSE CHOOSE v \in sent : TRUE
  BY DEF Sent
<1>2. \A d : d \in OnItsWay(h) <=>
                \E q \in Proc : \/ Deploys(q, h) /\ d = data[q]
                                \/ Leaves(q, h) /\ d = orphan[q].data
  BY DEF OnItsWay, Deploys, Leaves
<1>3. (\A p \in Proc : ~At(p, h)) => OnItsWay(h) = {}
  BY <1>2 DEF At
<1>4. ASSUME NEW v \in Version, Way(h, v)
      PROVE  Sent(h) = v
  <2>1. PICK p \in Proc : Shows(p, h, v)
    BY <1>4 DEF Way
  <2>2. PICK a \in Released(Native[v]) :
           \/ Deploys(p, h) /\ data[p] = Canon[v][a]
           \/ Leaves(p, h) /\ orphan[p].data = Canon[v][a]
    BY <2>1 DEF Shows
  <2>3. At(p, h) /\ ~(Deploys(p, h) /\ Leaves(p, h))
    BY <1>0, <2>2 DEF At, Solo
  <2>4. \A q \in Proc : q # p => ~Deploys(q, h) /\ ~Leaves(q, h)
    BY <1>0, <2>3, Alone1 DEF At
  <2>5. OnItsWay(h) = {Canon[v][a]}
    BY <1>2, <2>2, <2>3, <2>4
  <2>6. ASSUME NEW w \in Version, NEW b \in DOMAIN Canon[w],
               Canon[w][b] \in OnItsWay(h)
        PROVE  w = v
    BY <2>5, <2>6, CanonDomain, CanonInjective
  <2>7. v \in sent
    BY <2>5, CanonDomain
  <2>8. sent = {v}
    BY <2>6, <2>7
  <2>9. (CHOOSE w \in {v} : TRUE) = v
    OBVIOUS
  <2> HIDE DEF sent
  <2> QED
    BY <1>1, <2>5, <2>8, <2>9
<1> HIDE DEF sent
<1> QED
  BY <1>1, <1>3, <1>4 DEF SeesSent

LEMMA Told == XInv => \A h \in Host : SeesHeld(h) /\ SeesSent(h)
BY HeldTold, SentTold

LEMMA ToldNext == XInv' => (\A h \in Host : SeesHeld(h) /\ SeesSent(h))'
BY Told, PTL

\* Whoever is at a machine brings a release.
LEMMA SomeWay ==
    ASSUME XInv, NEW p \in Proc, NEW h \in Host, At(p, h)
    PROVE  \E v \in Version : Shows(p, h, v)
<1>1. InCharge(p)
  BY DEF XInv, Ordered
<1>2. CASE Deploys(p, h)
  BY <1>1, <1>2 DEF InCharge, Sends, Deploys, Shows
<1>3. CASE Leaves(p, h)
  <2>1. Feeds(orphan[p]) /\ orphan[p].host = h
    BY <1>1, <1>3 DEF InCharge, Leaves
  <2>2. PICK v \in Targets(h) : orphan[p].data = Canon[v][HostArch[h]]
    BY <2>1 DEF Feeds
  <2>3. v \in Version /\ HostArch[h] \in Released(Native[v])
    BY <2>2, CanonDomain DEF Targets
  <2> QED
    BY <1>3, <2>2, <2>3 DEF Shows
<1> QED
  BY <1>2, <1>3 DEF At

\* The beginning of an image, short of the whole, is no release.
LEMMA TornImage ==
    ASSUME NEW v \in Version, NEW a \in Released(Native[v]),
           NEW w \in Version, NEW b \in Released(Native[w]),
           NEW k \in Nat, k < Len(Canon[v][a])
    PROVE  SubSeq(Canon[v][a], 1, k) # Canon[w][b]
<1>1. SUFFICES ASSUME SubSeq(Canon[v][a], 1, k) = Canon[w][b] PROVE FALSE
  OBVIOUS
<1>2. SplitOK(SubSeq(Canon[v][a], 1, k))
  BY <1>1, CanonAnswers
<1>3. Len(Canon[v][a]) \in Nat /\ k <= Len(Canon[v][a])
  BY CanonShape
<1>4. k = Len(Canon[v][a])
  BY <1>2, <1>3, CanonWhole
<1> QED
  BY <1>3, <1>4

\* The steps of Install, in these words.
Claim(h) == IF Succeeded(h) THEN Held(h) ELSE "none"

LEMMA Forgets ==
    ASSUME NEW h \in Host, Held(h)' = Held(h), Sent(h)' = Sent(h),
           Succeeded(h)' => Succeeded(h)
    PROVE  Installed(h)!Next
<1>1. Claim(h)' \in {Claim(h), "none"}
  BY DEF Claim
<1> QED
  BY <1>1 DEF Claim, Installed!Next, Installed!Forget, Installed!Kept

LEMMA Begins1 ==
    ASSUME NEW h \in Host, Sent(h) = "none", Sent(h)' \in Version,
           Held(h)' = Held(h), Succeeded(h)' => Succeeded(h)
    PROVE  Installed(h)!Next
<1>1. Claim(h)' \in {Claim(h), "none"}
  BY DEF Claim
<1> QED
  BY <1>1 DEF Claim, Installed!Next, Installed!Begin, Installed!Kept

LEMMA Opens ==
    ASSUME NEW h \in Host, Sent(h) # "none", Sent(h)' = Sent(h),
           Held(h)' = "partial", ~Succeeded(h)'
    PROVE  Installed(h)!Next
BY DEF Installed!Next, Installed!Open

LEMMA Completes ==
    ASSUME NEW h \in Host, Sent(h) # "none", Sent(h)' = Sent(h),
           Held(h) = "partial", Held(h)' = Sent(h),
           ~Succeeded(h), ~Succeeded(h)'
    PROVE  Installed(h)!Next
BY DEF Installed!Next, Installed!Complete

LEMMA Abandons ==
    ASSUME NEW h \in Host, Sent(h)' = "none", Held(h)' = Held(h),
           Succeeded(h)' <=> Succeeded(h)
    PROVE  Installed(h)!Next
BY DEF Installed!Next, Installed!Abandon

LEMMA Reports ==
    ASSUME NEW h \in Host, Sent(h) # "none", Held(h) = Sent(h),
           Sent(h)' = "none", Held(h)' = Held(h), Succeeded(h)'
    PROVE  Installed(h)!Next
BY DEF Installed!Next, Installed!Report

-----------------------------------------------------------------------------
(* What a step shows of a machine.                                         *)

LEMMA HeldKept ==
    ASSUME XInv, XInv', NEW h \in Host, Exists(h)' <=> Exists(h),
           Exists(h) => file'[h] = file[h]
    PROVE  Held(h)' = Held(h)
<1>0. SeesHeld(h) /\ SeesHeld(h)'
  BY Told, ToldNext
<1>1. CASE Exists(h)
  <2>1. CASE Whole(h)
    <3>1. PICK v \in Targets(h) : file[h] = Canon[v][HostArch[h]]
      BY <2>1 DEF Whole
    <3>2. Held(h) = v
      BY <1>0, <1>1, <3>1 DEF SeesHeld
    <3>3. Held(h)' = v
      BY <1>0, <1>1, <3>1 DEF SeesHeld, Targets
    <3> QED
      BY <3>2, <3>3
  <2>2. CASE ~Whole(h)
    <3>1. ~Whole(h)'
      BY <1>1, <2>2 DEF Whole, Targets
    <3> QED
      BY <1>0, <1>1, <2>2, <3>1 DEF SeesHeld
  <2> QED
    BY <2>1, <2>2
<1>2. CASE ~Exists(h)
  BY <1>0, <1>2 DEF SeesHeld
<1> QED
  BY <1>1, <1>2

\* p goes on to bring what it brought.
LEMMA SentKept ==
    ASSUME XInv, XInv', NEW p \in Proc, Only(p), NEW h \in Host,
           At(p, h)' => At(p, h),
           \A v \in Version : Shows(p, h, v) => Shows(p, h, v)'
    PROVE  Sent(h)' = Sent(h)
<1>1. SeesSent(h) /\ SeesSent(h)'
  BY Told, ToldNext
<1>2. ASSUME NEW q \in Proc, q # p
      PROVE  /\ At(q, h)' <=> At(q, h)
             /\ \A v \in Version : Shows(q, h, v) => Shows(q, h, v)'
  BY <1>2 DEF Only, At, Deploys, Leaves, Shows
<1>3. CASE \E q \in Proc : At(q, h)
  <2>1. PICK q \in Proc : At(q, h)
    BY <1>3
  <2>2. PICK v \in Version : Shows(q, h, v)
    BY <2>1, SomeWay
  <2>3. Shows(q, h, v)'
    BY <1>2, <2>2
  <2>4. Way(h, v) /\ Way(h, v)'
    BY <2>2, <2>3 DEF Way
  <2> QED
    BY <1>1, <2>4 DEF SeesSent
<1>4. CASE \A q \in Proc : ~At(q, h)
  <2>1. \A q \in Proc : ~At(q, h)'
    BY <1>2, <1>4
  <2> QED
    BY <1>1, <1>4, <2>1 DEF SeesSent
<1> QED
  BY <1>3, <1>4

\* Who had the machine has left it.
LEMMA SentGone ==
    ASSUME XInv, XInv', NEW p \in Proc, Only(p), NEW h \in Host,
           At(p, h), ~At(p, h)'
    PROVE  Sent(h)' = "none"
<1>1. \A q \in Proc : q # p => ~At(q, h)
  BY Alone1 DEF XInv, Ordered
<1>2. \A q \in Proc : ~At(q, h)'
  BY <1>1 DEF Only, At, Deploys, Leaves
<1> QED
  BY <1>2, ToldNext DEF SeesSent

\* A deployment brings the release on its way.
LEMMA SentIs ==
    ASSUME XInv, NEW h \in Host, NEW p \in Proc, At(p, h)
    PROVE  /\ Sent(h) \in Version /\ Sent(h) # "none"
           /\ Shows(p, h, Sent(h))
<1>1. PICK v \in Version : Shows(p, h, v)
  BY SomeWay
<1>2. Sent(h) = v
  BY <1>1, Told DEF SeesSent, Way
<1> QED
  BY <1>1, <1>2, MarksAssumption

\* A step that neither brings something to h nor ends what is at it.
LEMMA Onward ==
    ASSUME XInv, XInv', NEW p \in Proc, Only(p), NEW h \in Host,
           At(p, h)' => At(p, h),
           \A v \in Version : Shows(p, h, v) => Shows(p, h, v)',
           Exists(h)' <=> Exists(h), Exists(h) => file'[h] = file[h],
           Succeeded(h)' => Succeeded(h)
    PROVE  Installed(h)!Next
<1>1. Held(h)' = Held(h) /\ Sent(h)' = Sent(h)
  BY HeldKept, SentKept
<1> QED
  BY <1>1, Forgets

\* p leaves h, the file as it is.
LEMMA Leaving ==
    ASSUME XInv, XInv', NEW p \in Proc, Only(p), NEW h \in Host,
           At(p, h), ~At(p, h)',
           Exists(h)' <=> Exists(h), Exists(h) => file'[h] = file[h],
           Succeeded(h)' <=> Succeeded(h)
    PROVE  Installed(h)!Next
<1>1. Held(h)' = Held(h) /\ Sent(h)' = "none"
  BY HeldKept, SentGone
<1> QED
  BY <1>1, Abandons

LEMMA SuccessSame ==
    ASSUME NEW p \in Proc, Only(p), NEW h \in Host, last'[h] = last[h],
           dst'[p] = dst[p],
           said'[p] = said[p] \/ (said[p] # "ok" /\ said'[p] # "ok")
    PROVE  Succeeded(h)' <=> Succeeded(h)
BY DEF Only, Succeeded

\* Deploy returns an error: nothing more is sent, and nobody learns how much
\* arrived.
LEMMA ErrorShows ==
    ASSUME XInv, XInv', NEW p \in Proc, Return(p, "error"), pc[p] # "idle",
           cat' = [cat EXCEPT ![p] = NoCat], orphan' = orphan, last' = last,
           \A g \in Host : Exists(g) => file'[g] = file[g],
           \A g \in Host : Exists(g)' <=> Exists(g),
           NEW h \in Host
    PROVE  Installed(h)!Next
<1>1. IInv /\ Solo
  BY DEF XInv, Ordered
<1>2. /\ Only(p) /\ pc'[p] = "idle" /\ said'[p] = "error" /\ dst' = dst
  BY <1>1, OnlyReturn
<1>3. said[p] = ""
  BY <1>1 DEF IInv, InStep
<1>4. Succeeded(h)' <=> Succeeded(h)
  BY <1>2, <1>3, SuccessSame
<1>5. CASE Deploys(p, h)
  <2>1. At(p, h) /\ ~At(p, h)'
    BY <1>1, <1>2, <1>5 DEF Solo, At, Deploys, Leaves
  <2> QED
    BY <1>2, <1>4, <2>1, Leaving
<1>6. CASE ~Deploys(p, h)
  <2>1. At(p, h)' => At(p, h)
    BY <1>2 DEF At, Deploys, Leaves
  <2>2. \A v \in Version : Shows(p, h, v) => Shows(p, h, v)'
    BY <1>6 DEF Shows, Leaves
  <2> QED
    BY <1>2, <1>4, <2>1, <2>2, Onward
<1> QED
  BY <1>5, <1>6

LEMMA OpenFailsShows ==
    ASSUME XInv, XInv', NEW p \in Proc, OpenFails(p), NEW h \in Host
    PROVE  Installed(h)!Next
<1>1. /\ pc[p] = "put" /\ Return(p, "error") /\ UNCHANGED remote
      /\ UNCHANGED <<cat, orphan>>
  BY DEF OpenFails
<1>2. UNCHANGED <<file, last>> /\ cat' = [cat EXCEPT ![p] = NoCat]
  BY <1>1, NoCatToLose DEF XInv, remote
<1> QED
  BY <1>1, <1>2, ErrorShows DEF Exists

LEMMA CommandLostShows ==
    ASSUME XInv, XInv', NEW p \in Proc, CommandLost(p), NEW h \in Host
    PROVE  Installed(h)!Next
<1>1. /\ pc[p] \in {"uname", "mkdir", "put", "chmod", "md5", "answer"}
      /\ Return(p, "error") /\ UNCHANGED <<cat, orphan>>
  BY DEF CommandLost
<1>2. cat' = [cat EXCEPT ![p] = NoCat]
  BY <1>1, NoCatToLose DEF XInv
<1>3. IInv /\ dst[p] \in Host
  BY DEF XInv, IInv, Types
<1>4. /\ last' = last
      /\ \A g \in Host : Exists(g) => file'[g] = file[g]
      /\ \A g \in Host : Exists(g)' <=> Exists(g)
  <2>1. CASE UNCHANGED remote
    BY <2>1 DEF remote, Exists
  <2>2. CASE MkdirEffect(dst[p])
    BY <1>3, <2>2, MkdirKeeps DEF MkdirEffect, Keeps
  <2>3. CASE ChmodEffect(dst[p])
    BY <1>3, <2>3, ChmodKeeps DEF ChmodEffect, Exists
  <2> QED
    BY <2>1, <2>2, <2>3 DEF CommandLost
<1> QED
  BY <1>1, <1>2, <1>4, ErrorShows

LEMMA CatFailsShows ==
    ASSUME XInv, XInv', NEW p \in Proc, CatFails(p), NEW h \in Host
    PROVE  Installed(h)!Next
<1>1. /\ pc[p] = "stream" /\ Return(p, "error") /\ UNCHANGED remote
      /\ cat' = [cat EXCEPT ![p] = NoCat] /\ orphan' = orphan
  BY DEF CatFails
<1>2. UNCHANGED <<file, last>>
  BY <1>1 DEF remote
<1> QED
  BY <1>1, <1>2, ErrorShows DEF Exists

\* A deployment goes on with the same image.
LEMMA GotoShows ==
    ASSUME XInv, XInv', NEW p \in Proc,
           NEW l \in {"put", "chmod", "md5", "answer"},
           pc[p] # "idle", Goto(p, l), UNCHANGED <<data, orphan>>,
           cat' = [cat EXCEPT ![p] = NoCat], last' = last,
           \A g \in Host : Exists(g) => file'[g] = file[g],
           \A g \in Host : Exists(g)' <=> Exists(g),
           NEW h \in Host
    PROVE  Installed(h)!Next
<1>1. IInv /\ ProcType /\ CatType
  BY TypeParts DEF XInv, IInv
<1>2. /\ pc'[p] = l /\ src' = src /\ dst' = dst /\ said' = said
      /\ \A q \in Proc : q # p => pc'[q] = pc[q]
  BY <1>1, GotoFacts DEF Commands
<1>3. \A q \in Proc : q # p => cat'[q] = cat[q]
  BY <1>1 DEF CatType
<1>4. Only(p)
  BY <1>2, <1>3 DEF Only
<1>5. Succeeded(h)' => Succeeded(h)
  BY <1>2, <1>4, SuccessSame
<1>6. At(p, h)' => At(p, h)
  BY <1>2 DEF At, Deploys, Leaves
<1>7. \A v \in Version : Shows(p, h, v) => Shows(p, h, v)'
  BY <1>2 DEF Shows, Deploys, Leaves
<1> QED
  BY <1>4, <1>5, <1>6, <1>7, Onward

LEMMA MkdirShows ==
    ASSUME XInv, XInv', NEW p \in Proc, Mkdir(p), NEW h \in Host
    PROVE  Installed(h)!Next
<1>1. /\ pc[p] = "mkdir" /\ MkdirEffect(dst[p]) /\ Goto(p, "put")
      /\ UNCHANGED <<data, cat, orphan>>
  BY DEF Mkdir
<1>2. IInv /\ dst[p] \in Host /\ cat' = [cat EXCEPT ![p] = NoCat]
  BY <1>1, NoCatToLose DEF XInv, IInv, Types
<1>3. /\ last' = last
      /\ \A g \in Host : Exists(g) => file'[g] = file[g]
      /\ \A g \in Host : Exists(g)' <=> Exists(g)
  BY <1>1, <1>2, MkdirKeeps DEF MkdirEffect, Keeps
<1> QED
  BY <1>1, <1>2, <1>3, GotoShows

LEMMA PutDoneShows ==
    ASSUME XInv, XInv', NEW p \in Proc, PutDone(p), NEW h \in Host
    PROVE  Installed(h)!Next
<1>1. /\ pc[p] = "stream" /\ Goto(p, "chmod") /\ UNCHANGED remote
      /\ UNCHANGED <<data, orphan>> /\ cat' = [cat EXCEPT ![p] = NoCat]
  BY DEF PutDone
<1>2. UNCHANGED <<file, last>>
  BY <1>1 DEF remote
<1> QED
  BY <1>1, <1>2, GotoShows DEF Exists

LEMMA ChmodShows ==
    ASSUME XInv, XInv', NEW p \in Proc, Chmod(p), NEW h \in Host
    PROVE  Installed(h)!Next
<1>1. /\ pc[p] = "chmod" /\ ChmodEffect(dst[p]) /\ Goto(p, "md5")
      /\ UNCHANGED <<data, cat, orphan>>
  BY DEF Chmod
<1>2. cat' = [cat EXCEPT ![p] = NoCat]
  BY <1>1, NoCatToLose DEF XInv
<1>3. UNCHANGED <<file, last>>
  BY <1>1 DEF ChmodEffect
<1> QED
  BY <1>1, <1>2, <1>3, GotoShows DEF Exists

LEMMA Md5ReadsShows ==
    ASSUME XInv, XInv', NEW p \in Proc, Md5Reads(p), NEW h \in Host
    PROVE  Installed(h)!Next
<1>1. UNCHANGED <<file, exec, last, pc, src, dst, data, cat, orphan, said>>
  BY DEF Md5Reads, remote
<1>2. Only(p)
  BY <1>1 DEF Only
<1>3. Succeeded(h)' => Succeeded(h)
  BY <1>1 DEF Succeeded
<1>4. At(p, h)' => At(p, h)
  BY <1>1 DEF At, Deploys, Leaves
<1>5. \A v \in Version : Shows(p, h, v) => Shows(p, h, v)'
  BY <1>1 DEF Shows, Deploys, Leaves
<1> QED
  BY <1>1, <1>2, <1>3, <1>4, <1>5, Onward DEF Exists

LEMMA Md5EndsShows ==
    ASSUME XInv, XInv', NEW p \in Proc, Md5Ends(p), NEW h \in Host
    PROVE  Installed(h)!Next
<1>1. /\ pc[p] = "md5" /\ Goto(p, "answer")
      /\ UNCHANGED <<file, last, data, cat, orphan>>
  BY DEF Md5Ends, remote
<1>2. cat' = [cat EXCEPT ![p] = NoCat]
  BY <1>1, NoCatToLose DEF XInv
<1> QED
  BY <1>1, <1>2, GotoShows DEF Exists

\* A deployment begins: its release is on its way.
LEMMA BeginShows ==
    ASSUME XInv, XInv', Exclusive, NEW p \in Proc, NEW s, NEW g \in Host,
           NEW image, pc[p] = "idle", Begin(p, s, g, image), NEW h \in Host
    PROVE  Installed(h)!Next
<1>1. IInv /\ ProcType
  BY TypeParts DEF XInv, IInv
<1>2. UNCHANGED <<file, exec, last, cat, orphan>> /\ Alone(g)
  BY DEF Begin, remote
<1>3. /\ Only(p) /\ said'[p] # "ok"
      /\ \/ pc'[p] = "idle" /\ dst'[p] = dst[p]
         \/ pc'[p] = "uname" /\ dst'[p] = g
  BY <1>1, BeginFacts
<1>4. Succeeded(h)' => Succeeded(h)
  BY <1>2, <1>3, SucceededKept
<1>5. /\ Leaves(p, h)' <=> Leaves(p, h)
      /\ ~Deploys(p, h)
      /\ \A v \in Version : Shows(p, h, v) => Shows(p, h, v)'
  BY <1>2 DEF Leaves, Deploys, Shows
<1>6. CASE ~Deploys(p, h)'
  <2>1. At(p, h)' => At(p, h)
    BY <1>5, <1>6 DEF At
  <2> QED
    BY <1>2, <1>3, <1>4, <1>5, <2>1, Onward DEF Exists
<1>7. CASE Deploys(p, h)'
  <2>1. h = g
    BY <1>3, <1>7 DEF Deploys
  <2>2. \A q \in Proc : ~At(q, h)
    BY <1>2, <2>1 DEF Alone, OpenForWriting, At, Deploys, Leaves
  <2>3. Sent(h) = "none"
    BY <2>2, Told DEF SeesSent
  <2>4. Sent(h)' \in Version
    <3>1. PICK v \in Version : Shows(p, h, v)'
      <4>1. Sends(p)'
        BY <1>7 DEF XInv, Ordered, InCharge, Deploys
      <4> QED
        BY <1>7, <4>1 DEF Sends, Shows, Deploys
    <3>2. Way(h, v)'
      BY <3>1 DEF Way
    <3>3. Sent(h)' = v
      BY <3>2, ToldNext DEF SeesSent
    <3> QED
      BY <3>3
  <2>5. Held(h)' = Held(h)
    BY <1>2, HeldKept DEF Exists
  <2> QED
    BY <1>4, <2>3, <2>4, <2>5, Begins1
<1> QED
  BY <1>6, <1>7

\* The image is another, the release the same.
LEMMA UnameShows ==
    ASSUME XInv, XInv', NEW p \in Proc, Uname(p), NEW h \in Host
    PROVE  Installed(h)!Next
<1>1. /\ IInv /\ ProcType /\ pc[p] = "uname"
      /\ UNCHANGED <<file, exec, last, cat, orphan>>
  BY TypeParts DEF XInv, IInv, Uname, remote
<1>2. PICK t : t = FromUname(Machine[dst[p]])
  OBVIOUS
<1>3. CASE FromUnameOK(Machine[dst[p]]) /\ ReconstructOK(data[p], t)
  <2>1. Goto(p, "mkdir") /\ data' = [data EXCEPT ![p] = Reconstruct(data[p], t)]
    BY <1>2, <1>3 DEF Uname
  <2>2. /\ pc'[p] = "mkdir" /\ src' = src /\ dst' = dst /\ said' = said
        /\ \A q \in Proc : q # p => pc'[q] = pc[q]
    BY <1>1, <2>1, GotoFacts DEF Commands
  <2>3. /\ data'[p] = Reconstruct(data[p], t)
        /\ \A q \in Proc : q # p => data'[q] = data[q]
    BY <1>1, <2>1 DEF ProcType
  <2>4. Only(p)
    BY <1>1, <2>2, <2>3 DEF Only
  <2>5. Succeeded(h)' => Succeeded(h)
    BY <1>1, <2>2, <2>4, SuccessSame
  <2>6. At(p, h)' => At(p, h)
    BY <1>1, <2>2 DEF At, Deploys, Leaves
  <2>7. ASSUME NEW v \in Version, Shows(p, h, v)
        PROVE  Shows(p, h, v)'
    <3>1. PICK a \in Released(Native[v]) :
             \/ Deploys(p, h) /\ data[p] = Canon[v][a]
             \/ Leaves(p, h) /\ orphan[p].data = Canon[v][a]
      BY <2>7 DEF Shows
    <3>2. CASE Deploys(p, h) /\ data[p] = Canon[v][a]
      <4>1. t \in Released(Native[v]) /\ Reconstruct(data[p], t) = Canon[v][t]
        BY <1>3, <3>2, CanonAnswers
      <4>2. Deploys(p, h)'
        BY <2>2, <3>2 DEF Deploys
      <4> QED
        BY <2>3, <4>1, <4>2 DEF Shows
    <3>3. CASE Leaves(p, h) /\ orphan[p].data = Canon[v][a]
      BY <1>1, <3>3 DEF Shows, Leaves
    <3> QED
      BY <3>1, <3>2, <3>3
  <2> QED
    BY <1>1, <2>4, <2>5, <2>6, <2>7, Onward DEF Exists
<1>4. CASE ~(FromUnameOK(Machine[dst[p]]) /\ ReconstructOK(data[p], t))
  <2>1. Return(p, "error")
    BY <1>2, <1>4 DEF Uname
  <2>2. cat' = [cat EXCEPT ![p] = NoCat]
    BY <1>1, NoCatToLose
  <2> QED
    BY <1>1, <2>1, <2>2, ErrorShows DEF Exists
<1> QED
  BY <1>3, <1>4

\* What was on the machine is gone, and so is what was said of it.
LEMMA OpenShows ==
    ASSUME XInv, XInv', NEW p \in Proc, Open(p), NEW h \in Host
    PROVE  Installed(h)!Next
<1>0. PICK g \in Host : g = dst[p]
  BY DEF XInv, IInv, Types
<1>1. /\ IInv /\ ProcType /\ RemoteType /\ CatType /\ InStep(p)
  BY TypeParts DEF XInv, IInv
<1>2. /\ pc[p] = "put" /\ Goto(p, "stream")
      /\ file' = [file EXCEPT ![g] = <<>>]
      /\ last' = [last EXCEPT ![g] = p]
      /\ \E c : cat' = [cat EXCEPT ![p] = c]
      /\ UNCHANGED <<data, orphan>>
  BY <1>0 DEF Open
<1>3. /\ pc'[p] = "stream" /\ src' = src /\ dst' = dst /\ said' = said
      /\ \A q \in Proc : q # p => pc'[q] = pc[q] /\ cat'[q] = cat[q]
  BY <1>1, <1>2, GotoFacts DEF Commands, CatType
<1>4. Only(p)
  BY <1>2, <1>3 DEF Only
<1>5. /\ file'[g] = <<>> /\ last'[g] = p
      /\ \A k \in Host : k # g => file'[k] = file[k] /\ last'[k] = last[k]
  BY <1>1, <1>2 DEF RemoteType, FileType
<1>6. At(p, h)' => At(p, h)
  BY <1>2, <1>3 DEF At, Deploys, Leaves
<1>7. \A v \in Version : Shows(p, h, v) => Shows(p, h, v)'
  BY <1>2, <1>3 DEF Shows, Deploys, Leaves
<1>8. CASE h # g
  <2>1. file'[h] = file[h] /\ last'[h] = last[h]
    BY <1>5, <1>8
  <2>2. Succeeded(h)' => Succeeded(h)
    BY <1>3, <1>4, <2>1, SuccessSame
  <2> QED
    BY <1>4, <1>6, <1>7, <2>1, <2>2, Onward DEF Exists
<1>9. CASE h = g
  <2>1. At(p, h)
    BY <1>0, <1>2, <1>9 DEF At, Deploys
  <2>2. Sent(h) # "none" /\ Sent(h)' = Sent(h)
    BY <1>4, <1>6, <1>7, <2>1, SentIs, SentKept
  <2>3. ~Succeeded(h)'
    <3>1. said'[p] = ""
      BY <1>1, <1>2, <1>3 DEF InStep
    <3> QED
      BY <1>5, <1>9, <3>1 DEF Succeeded
  <2>4. Exists(h)'
    <3>1. <<>> \in Seq(Cell)
      OBVIOUS
    <3> QED
      BY <1>5, <1>9, <3>1, MarksAssumption DEF Exists
  <2>5. ~Whole(h)'
    <3>1. ASSUME NEW w \in Version, HostArch[h] \in Released(Native[w])
          PROVE  Canon[w][HostArch[h]] # <<>>
      <4>1. Native[w][HostArch[h]] \in Bytes /\ Native[w][HostArch[h]] # <<>>
        BY <3>1, CanonShape DEF Released
      <4>2. Len(Native[w][HostArch[h]]) # 0
        BY <4>1, EmptySeq DEF Bytes
      <4>3. /\ Len(Native[w][HostArch[h]]) \in Nat
            /\ Len(Canon[w][HostArch[h]]) \in Nat
            /\ Len(Canon[w][HostArch[h]]) >= Len(Native[w][HostArch[h]])
        BY <3>1, CanonShape
      <4>4. Len(Canon[w][HostArch[h]]) # 0
        BY <4>2, <4>3
      <4>5. Len(<<>>) = 0
        OBVIOUS
      <4> QED
        BY <4>4, <4>5
    <3> QED
      BY <1>5, <1>9, <3>1, CanonDomain DEF Whole, Targets
  <2>6. Held(h)' = "partial"
    BY <2>4, <2>5, ToldNext DEF SeesHeld
  <2> QED
    BY <2>2, <2>3, <2>6, Opens
<1> QED
  BY <1>8, <1>9

\* A cat writes: the release is whole when its last byte is.
LEMMA FeedShows ==
    ASSUME XInv, XInv', NEW p \in Proc, Only(p), NEW c, IsCat(c), Feeds(c),
           Exists(c.host), CatWrites(c), OpenForWriting(c.host),
           \/ c = cat[p] /\ Deploys(p, c.host) /\ c.data = data[p]
           \/ c = orphan[p] /\ Leaves(p, c.host),
           pc'[p] = pc[p], dst'[p] = dst[p], said'[p] = said[p],
           data'[p] = data[p],
           orphan'[p] # NoCat <=> orphan[p] # NoCat,
           orphan[p] # NoCat => /\ orphan'[p].host = orphan[p].host
                                /\ orphan'[p].data = orphan[p].data,
           NEW h \in Host
    PROVE  Installed(h)!Next
<1>1. /\ IInv /\ RemoteType /\ c.host \in Host /\ c.pos < c.upto
      /\ c.data \in Seq(Cell) /\ c.pos \in Nat /\ c.upto \in Nat
      /\ c.upto <= Len(c.data) /\ Len(c.data) \in Nat /\ last' = last
  BY TypeParts, LenProperties DEF XInv, IInv, IsCat, CatState, CatWrites
<1>2. PICK d : d = [host |-> c.host, data |-> c.data, pos |-> Until(c),
                    upto |-> c.upto]
  OBVIOUS
<1>3. /\ Feeds(d)'
      /\ \A g \in Host : g # c.host => file'[g] = file[g]
      /\ \A g \in Host : Exists(g)' <=> Exists(g)
  BY <1>2, FeedsOn
<1>4. Succeeded(h)' <=> Succeeded(h)
  BY <1>1, SuccessSame
<1>5. At(p, h)' <=> At(p, h)
  BY DEF At, Deploys, Leaves
<1>6. \A v \in Version : Shows(p, h, v) => Shows(p, h, v)'
  BY DEF Shows, Deploys, Leaves
<1>7. CASE h # c.host
  BY <1>3, <1>4, <1>5, <1>6, <1>7, Onward
<1>8. CASE h = c.host
  <2>1. At(p, h)
    BY <1>8 DEF At
  <2>2. PICK v \in Version : /\ HostArch[h] \in Released(Native[v])
                             /\ c.data = Canon[v][HostArch[h]]
                             /\ file[h] = SubSeq(c.data, 1, c.pos)
    BY <1>8, CanonDomain DEF Feeds, Targets
  <2>3. Sent(h) = v /\ Sent(h) # "none" /\ Sent(h)' = Sent(h)
    <3>1. Shows(p, h, v)
      BY <1>8, <2>2 DEF Shows
    <3>2. Way(h, v)
      BY <3>1 DEF Way
    <3>3. Sent(h) = v
      BY <3>2, Told DEF SeesSent
    <3> QED
      BY <1>5, <1>6, <2>1, <3>3, SentIs, SentKept
  <2>4. ~Succeeded(h) /\ ~Succeeded(h)'
    BY <1>4, <1>8 DEF XInv, Ordered, Done
  <2>5. Held(h) = "partial"
    <3>1. c.pos < Len(c.data)
      BY <1>1
    <3>2. ~Whole(h)
      BY <1>1, <2>2, <3>1, TornImage, CanonDomain DEF Whole, Targets
    <3> QED
      BY <1>8, <3>2, Told DEF SeesHeld
  <2>6. file'[h] = SubSeq(c.data, 1, Until(c))
    <3>1. d.host = c.host /\ d.data = c.data /\ d.pos = Until(c)
      BY <1>2
    <3> QED
      BY <1>3, <1>8, <3>1 DEF Feeds
  <2>7. Until(c) \in Nat /\ Until(c) <= Len(c.data)
    BY <1>1, UntilRange
  <2>8. CASE Until(c) = Len(c.data)
    <3>1. file'[h] = Canon[v][HostArch[h]]
      BY <1>1, <2>2, <2>6, <2>8, SubSeqFull
    <3>2. v \in Targets(h)
      BY <2>2, CanonDomain DEF Targets
    <3>3. Held(h)' = v
      BY <1>3, <1>8, <3>1, <3>2, ToldNext DEF SeesHeld, Targets
    <3> QED
      BY <2>3, <2>4, <2>5, <3>3, Completes
  <2>9. CASE Until(c) # Len(c.data)
    <3>1. Until(c) < Len(c.data)
      BY <1>1, <2>7, <2>9
    <3>2. ~Whole(h)'
      <4>1. \A w \in Targets(h) :
               SubSeq(c.data, 1, Until(c)) # Canon[w][HostArch[h]]
        BY <2>2, <2>7, <3>1, TornImage, CanonDomain DEF Targets
      <4> QED
        BY <2>6, <4>1 DEF Whole, Targets
    <3>3. Held(h)' = "partial"
      BY <1>3, <1>8, <3>2, ToldNext DEF SeesHeld
    <3> QED
      BY <2>3, <2>4, <2>5, <3>3, Forgets
  <2> QED
    BY <2>8, <2>9
<1> QED
  BY <1>7, <1>8

LEMMA WriteShows ==
    ASSUME XInv, XInv', NEW p \in Proc, Write(p), NEW h \in Host
    PROVE  Installed(h)!Next
<1>c. PICK c : c = cat[p]
  OBVIOUS
<1>1. IInv /\ CatType /\ InCharge(p) /\ InStep(p)
  BY TypeParts DEF XInv, Ordered, IInv
<1>2. /\ c # NoCat /\ CatWrites(c) /\ orphan' = orphan
      /\ \E d : cat' = [cat EXCEPT ![p] = d]
      /\ UNCHANGED <<pc, src, dst, data, said>>
  BY <1>c, <1>1 DEF Write, CatWrites, CatType
<1>3. /\ IsCat(c) /\ Feeds(c) /\ c.host \in Host /\ Exists(c.host)
      /\ Deploys(p, c.host) /\ c.data = data[p]
  BY <1>c, <1>1, <1>2, CatAt DEF InCharge, InStep
<1>4. Only(p)
  BY <1>1, <1>2 DEF Only, CatType
<1>5. OpenForWriting(c.host)
  BY <1>c, <1>2 DEF OpenForWriting
<1> QED
  BY <1>c, <1>2, <1>3, <1>4, <1>5, FeedShows

LEMMA OrphanWritesShows ==
    ASSUME XInv, XInv', NEW p \in Proc, OrphanWrites(p), NEW h \in Host
    PROVE  Installed(h)!Next
<1>c. PICK c : c = orphan[p]
  OBVIOUS
<1>d. PICK d : d = [c EXCEPT !.pos = Until(c)]
  OBVIOUS
<1>1. IInv /\ CatType /\ InCharge(p)
  BY TypeParts DEF XInv, Ordered, IInv
<1>2. /\ c # NoCat /\ CatWrites(c) /\ cat' = cat
      /\ orphan' = [orphan EXCEPT ![p] = d]
      /\ UNCHANGED <<pc, src, dst, data, said>>
  BY <1>c, <1>1, <1>d DEF OrphanWrites, CatWrites, CatType
<1>3. /\ IsCat(c) /\ Feeds(c) /\ c.host \in Host /\ Exists(c.host)
      /\ Leaves(p, c.host)
  BY <1>c, <1>1, <1>2, OrphanAt DEF InCharge
<1>4. /\ d = [host |-> c.host, data |-> c.data, pos |-> Until(c),
              upto |-> c.upto]
      /\ IsCat(d)
  <2>1. Until(c) \in Nat /\ Until(c) <= c.upto
    BY <1>2, <1>3, UntilRange DEF CatWrites
  <2> QED
    BY <1>3, <1>d, <2>1, CatMoves
<1>5. d.host = c.host /\ d.data = c.data /\ d # NoCat
  BY <1>4, MarksAssumption DEF IsCat
<1>6. orphan'[p] = d
  BY <1>1, <1>2 DEF CatType
<1>7. Only(p)
  BY <1>1, <1>2 DEF Only, CatType
<1>8. OpenForWriting(c.host)
  BY <1>c, <1>2 DEF OpenForWriting
<1> QED
  BY <1>c, <1>2, <1>3, <1>5, <1>6, <1>7, <1>8, FeedShows

LEMMA OrphanEndsShows ==
    ASSUME XInv, XInv', NEW p \in Proc, OrphanEnds(p), NEW h \in Host
    PROVE  Installed(h)!Next
<1>1. IInv /\ CatType /\ Solo /\ orphan[p] # NoCat
  BY TypeParts DEF XInv, Ordered, IInv, OrphanEnds
<1>2. /\ orphan' = [orphan EXCEPT ![p] = NoCat]
      /\ UNCHANGED <<file, exec, pc, src, dst, data, cat, said, last>>
  BY DEF OrphanEnds, remote
<1>3. orphan'[p] = NoCat /\ \A q \in Proc : q # p => orphan'[q] = orphan[q]
  BY <1>1, <1>2 DEF CatType
<1>4. Only(p)
  BY <1>2, <1>3 DEF Only
<1>5. Succeeded(h)' <=> Succeeded(h)
  BY <1>2 DEF Succeeded
<1>6. CASE Leaves(p, h)
  <2>1. At(p, h) /\ ~At(p, h)'
    BY <1>1, <1>2, <1>3, <1>6 DEF Solo, At, Deploys, Leaves
  <2> QED
    BY <1>2, <1>4, <1>5, <2>1, Leaving DEF Exists
<1>7. CASE ~Leaves(p, h)
  <2>1. At(p, h)' => At(p, h)
    BY <1>2, <1>3 DEF At, Deploys, Leaves
  <2>2. \A v \in Version : Shows(p, h, v) => Shows(p, h, v)'
    BY <1>2, <1>7 DEF Shows, Deploys
  <2> QED
    BY <1>2, <1>4, <1>5, <2>1, <2>2, Onward DEF Exists
<1> QED
  BY <1>6, <1>7

\* The cat that is left goes on bringing the release.
LEMMA StreamLostShows ==
    ASSUME XInv, XInv', NEW p \in Proc, StreamLost(p), NEW h \in Host
    PROVE  Installed(h)!Next
<1>c. PICK c : c = cat[p]
  OBVIOUS
<1>1. IInv /\ CatType /\ ProcType /\ InStep(p)
  BY TypeParts DEF XInv, Ordered, IInv
<1>2. /\ pc[p] = "stream" /\ Return(p, "error") /\ orphan[p] = NoCat
      /\ UNCHANGED <<file, exec, last>> /\ cat' = [cat EXCEPT ![p] = NoCat]
  BY DEF StreamLost, remote
<1>3. /\ c # NoCat /\ IsCat(c) /\ c.host \in Host /\ c.host = dst[p]
      /\ c.data = data[p]
  BY <1>c, <1>1, <1>2, CatAt DEF InStep
<1>4. PICK n \in c.pos..c.upto :
         orphan' = [orphan EXCEPT ![p] = [c EXCEPT !.upto = n]]
  BY <1>c DEF StreamLost
<1>5. PICK d : d = [c EXCEPT !.upto = n]
  OBVIOUS
<1>6. /\ d = [host |-> c.host, data |-> c.data, pos |-> c.pos, upto |-> n]
      /\ IsCat(d)
  <2>1. n \in Nat /\ c.pos <= n /\ n <= c.upto
    BY <1>3 DEF IsCat, CatState
  <2> QED
    BY <1>3, <1>5, <2>1, CatMoves
<1>7. d.host = c.host /\ d.data = c.data /\ d # NoCat
  BY <1>6, MarksAssumption DEF IsCat
<1>8. /\ cat'[p] = NoCat /\ orphan'[p] = d
      /\ \A q \in Proc : q # p => cat'[q] = cat[q] /\ orphan'[q] = orphan[q]
  BY <1>1, <1>2, <1>4, <1>5 DEF CatType
<1>9. /\ Only(p) /\ pc'[p] = "idle" /\ said'[p] = "error" /\ dst' = dst
  <2>1. /\ pc'[p] = "idle" /\ said'[p] = "error" /\ dst' = dst
        /\ \A q \in Proc : q # p =>
              /\ pc'[q] = pc[q] /\ src'[q] = src[q]
              /\ data'[q] = data[q] /\ said'[q] = said[q]
    BY <1>1, <1>2, ReturnFacts
  <2> QED
    BY <1>8, <2>1 DEF Only
<1>10. Succeeded(h)' => Succeeded(h)
  BY <1>2, <1>9, SucceededKept
<1>11. At(p, h)' => At(p, h)
  BY <1>2, <1>3, <1>7, <1>8, <1>9 DEF At, Deploys, Leaves
<1>12. \A v \in Version : Shows(p, h, v) => Shows(p, h, v)'
  BY <1>2, <1>3, <1>7, <1>8 DEF Shows, Deploys, Leaves
<1> QED
  BY <1>2, <1>9, <1>10, <1>11, <1>12, Onward DEF Exists

\* The release is whole when Deploy says so.
LEMMA CompareShows ==
    ASSUME XInv, XInv', NEW p \in Proc, Compare(p), NEW h \in Host
    PROVE  Installed(h)!Next
<1>0. PICK g \in Host : g = dst[p]
  BY DEF XInv, IInv, Types
<1>1. IInv /\ CatType /\ ProcType /\ Solo /\ InCharge(p) /\ pc[p] = "answer"
  BY TypeParts DEF XInv, Ordered, IInv, Compare
<1>2. UNCHANGED <<file, exec, last, cat, orphan>>
  BY DEF Compare, remote
<1>3. CASE Return(p, "error")
  <2>1. cat' = [cat EXCEPT ![p] = NoCat]
    BY <1>1, <1>2, NoCatToLose
  <2> QED
    BY <1>1, <1>2, <1>3, <2>1, ErrorShows DEF Exists
<1>4. CASE Return(p, "ok")
  <2>1. last[g] = p /\ file[g] = data[p]
    BY <1>0, <1>1, AnswerStands
  <2>2. Only(p) /\ pc'[p] = "idle" /\ said'[p] = "ok" /\ dst' = dst
    BY <1>1, <1>2, <1>4, OnlyReturn
  <2>3. CASE h = g
    <3>1. Deploys(p, h) /\ At(p, h) /\ ~At(p, h)'
      BY <1>0, <1>1, <1>2, <2>2, <2>3 DEF Solo, At, Deploys, Leaves
    <3>2. Held(h)' = Held(h) /\ Sent(h)' = "none"
      BY <1>2, <2>2, <3>1, HeldKept, SentGone DEF Exists
    <3>3. Succeeded(h)'
      BY <1>0, <1>2, <2>1, <2>2, <2>3 DEF Succeeded
    <3>4. PICK v \in Version : /\ HostArch[h] \in Released(Native[v])
                               /\ data[p] = Canon[v][HostArch[h]]
      BY <1>0, <1>1, <2>3 DEF InCharge, Sends
    <3>5. Sent(h) = v
      <4>1. Way(h, v)
        BY <3>1, <3>4 DEF Way, Shows
      <4> QED
        BY <4>1, Told DEF SeesSent
    <3>6. Held(h) = v
      <4>1. Exists(h)
        BY <1>0, <1>1, <2>3 DEF IInv, InStep
      <4>2. v \in Targets(h)
        BY <3>4, CanonDomain DEF Targets
      <4> QED
        BY <2>1, <2>3, <3>4, <4>1, <4>2, Told DEF SeesHeld
    <3>7. Sent(h) # "none"
      BY <3>1, SentIs
    <3> QED
      BY <3>2, <3>3, <3>5, <3>6, <3>7, Reports
  <2>4. CASE h # g
    <3>1. Succeeded(h)' => Succeeded(h)
      BY <1>0, <1>2, <2>2, <2>4 DEF Only, Succeeded
    <3>2. At(p, h)' => At(p, h)
      BY <1>2, <2>2 DEF At, Deploys, Leaves
    <3>3. \A v \in Version : Shows(p, h, v) => Shows(p, h, v)'
      BY <1>0, <1>2, <2>4 DEF Shows, Deploys, Leaves
    <3> QED
      BY <1>2, <2>2, <3>1, <3>2, <3>3, Onward DEF Exists
  <2> QED
    BY <2>3, <2>4
<1> QED
  BY <1>3, <1>4 DEF Compare

LEMMA InitShows ==
    ASSUME Init, NEW h \in Host
    PROVE  Installed(h)!Init
<1>1. XInv
  BY InitXInv
<1>2. ~Exists(h) /\ \A p \in Proc : ~At(p, h) /\ said[p] # "ok"
  BY DEF Init, Exists, At, Deploys, Leaves
<1>3. Held(h) = "none" /\ Sent(h) = "none"
  BY <1>1, <1>2, Told DEF SeesHeld, SeesSent
<1>4. ~Succeeded(h)
  BY <1>2 DEF Succeeded
<1> QED
  BY <1>3, <1>4 DEF Installed!Init

LEMMA NextShows ==
    ASSUME Exclusive, XInv, Next, NEW h \in Host
    PROVE  Installed(h)!Next
<1>1. XInv'
  BY NextXInv
<1>2. ASSUME NEW p \in Proc,
             \/ \E v \in Version, g \in Host : RunFromDesk(p, v, g)
             \/ \E s, g \in Host : RunInstalled(p, s, g)
      PROVE  Installed(h)!Next
  <2>1. PICK g \in Host : \E s, image : pc[p] = "idle" /\ Begin(p, s, g, image)
    BY <1>2 DEF RunFromDesk, RunInstalled
  <2> QED
    BY <1>1, <2>1, BeginShows
<1>3. ASSUME NEW p \in Proc, Step(p)
      PROVE  Installed(h)!Next
  BY <1>1, <1>3, UnameShows, MkdirShows, OpenShows, OpenFailsShows, WriteShows,
     PutDoneShows, ChmodShows, Md5ReadsShows, Md5EndsShows, CompareShows
  DEF Step
<1>4. ASSUME NEW p \in Proc, CommandLost(p) \/ StreamLost(p) \/ CatFails(p)
      PROVE  Installed(h)!Next
  BY <1>1, <1>4, CommandLostShows, StreamLostShows, CatFailsShows
<1>5. ASSUME NEW p \in Proc, OrphanStep(p)
      PROVE  Installed(h)!Next
  BY <1>1, <1>5, OrphanWritesShows, OrphanEndsShows DEF OrphanStep
<1> QED
  BY <1>2, <1>3, <1>4, <1>5 DEF Next

\* With one deployment per machine at a time, each machine implements Install:
\* it completes no release but the one on its way to it, holds a part or a
\* release at every moment, and what Deploy reports installed is what was sent
\* and lies there, through lost connections and answers, retries, leftover
\* cats and hops.
THEOREM Implements ==
    ASSUME Exclusive
    PROVE  Spec => ImplementsInstall
<1>1. ASSUME Init
      PROVE  \A h \in Host : Installed(h)!Init
  BY <1>1, InitShows
<1>2. ASSUME XInv, [Next]_vars
      PROVE  [\A h \in Host : [Installed(h)!Next]_(Installed(h)!vars)]_vars
  BY <1>2, NextShows
<1> QED
  BY <1>1, <1>2, XInvariance, PTL DEF Spec, ImplementsInstall
=============================================================================
