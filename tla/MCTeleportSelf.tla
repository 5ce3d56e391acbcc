--------------------------- MODULE MCTeleportSelf ---------------------------
(***************************************************************************)
(* A release with one native stored compressed, one stored raw because its *)
(* stream is not smaller, and the reserved slot.  The amd64 native holds   *)
(* the trailer's magic, as the program's own read-only data does.          *)
(***************************************************************************)
EXTENDS TeleportSelf, TLC

CONSTANTS Junk, Dense

Amd64 == <<ElfMagic, TrailerMagic, Junk, Junk>>
I386 == <<ElfMagic, Dense>>

MCNative == "386" :> I386 @@ "amd64" :> Amd64
MCNatives == {Amd64, I386}
MCXz == [e \in Encoder |->
            (Amd64 :> IF e = "system" THEN <<XzMagic, Dense>>
                      ELSE <<XzMagic, Dense, Dense>>)
            @@ (I386 :> <<XzMagic, Junk, Junk>>)]

MCArchOrder == <<"386", "amd64", "riscv32">>
MCSupported == {"386", "amd64"}
MCProbe == U64
=============================================================================
