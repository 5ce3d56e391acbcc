SPECIFICATION Spec
CONSTANTS
    Magic = Magic
    TrailerMagic = TrailerMagic
    ElfMagic = ElfMagic
    XzMagic = XzMagic
    Junk = Junk
    Dense = Dense
    Word = {Magic, TrailerMagic, ElfMagic, XzMagic, Junk, Dense}
    Name = {"386", "amd64", "riscv32"}
    MaxCount = 3
    MaxInt = 31
    MaxWord = 63
    MaxAlloc = 15
    Encoder = {"system", "go"}
    Natives <- MCNatives
    Xz <- MCXz
    ArchOrder <- MCArchOrder
    Supported <- MCSupported
    v1 = v1
    v2 = v2
    Version = {v1, v2}
    Source <- MCSource
    Unset = Unset
    NoFile = NoFile
    Torn = Torn
    MaxRuns = 3
INVARIANTS
    TypeOK
    BuildWhole
    ListedLaw
    ArtifactSound
