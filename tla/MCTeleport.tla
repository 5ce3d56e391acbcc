----------------------------- MODULE MCTeleport -----------------------------
(***************************************************************************)
(* Two releases of different length, each with one native stored           *)
(* compressed and one stored raw; a machine for each architecture and one  *)
(* no toolchain builds for.                                                *)
(***************************************************************************)
EXTENDS Teleport, TLC

CONSTANTS Junk, Dense, amd, intel, risc, v1, v2

MCNative ==
    v1 :> ("386" :> <<ElfMagic, Dense>>
           @@ "amd64" :> <<ElfMagic, Junk, Junk, Junk>>)
    @@ v2 :> ("386" :> <<ElfMagic, Dense, TrailerMagic>>
              @@ "amd64" :> <<ElfMagic, Junk, Dense>>)

MCNatives == {MCNative[v][a] : v \in {v1, v2}, a \in {"386", "amd64"}}

MCXz == [e \in Encoder |->
            MCNative[v1]["386"] :> <<XzMagic, Dense, Dense>>
            @@ MCNative[v1]["amd64"] :> <<XzMagic, Dense>>
            @@ MCNative[v2]["386"] :> <<XzMagic, Junk, Junk>>
            @@ MCNative[v2]["amd64"] :> <<XzMagic, Junk>>]

MCArchOrder == <<"386", "amd64", "riscv32">>
MCSupported == {"386", "amd64"}
MCMachine == amd :> "x86_64" @@ intel :> "i686" @@ risc :> "riscv"
MCHostArch == amd :> "amd64" @@ intel :> "386" @@ risc :> "riscv32"
Procs == Permutations(Proc)
=============================================================================
