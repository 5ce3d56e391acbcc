----------------------------- MODULE MCFatBuild -----------------------------
(***************************************************************************)
(* Two versions; natives that compress and natives that are stored raw,    *)
(* and the beginnings a killed toolchain leaves of each.                   *)
(***************************************************************************)
EXTENDS FatBuild, TLC

CONSTANTS Junk, Dense, v1, v2

MCSource ==
    v1 :> ("386" :> <<ElfMagic, Dense>>
           @@ "amd64" :> <<ElfMagic, Junk, Junk>>)
    @@ v2 :> ("386" :> <<ElfMagic, TrailerMagic>>
              @@ "amd64" :> <<ElfMagic, Junk, Dense>>)

MCNatives ==
    UNION {Beginnings(MCSource[v][a]) \cup {MCSource[v][a]} :
             v \in {v1, v2}, a \in {"386", "amd64"}} \ {<<>>}

\* Only the amd64 native of v1 compresses, and how far depends on the encoder.
MCXz == [e \in Encoder |->
            [n \in MCNatives |->
                IF n = MCSource[v1]["amd64"]
                THEN IF e = "system" THEN <<XzMagic, Dense>>
                     ELSE <<XzMagic, Junk>>
                ELSE <<XzMagic>> \o n]]

MCArchOrder == <<"386", "amd64", "riscv32">>
MCSupported == {"386", "amd64"}
=============================================================================
