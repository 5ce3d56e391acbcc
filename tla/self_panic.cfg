SPECIFICATION Spec
CONSTANTS
    Magic = Magic
    TrailerMagic = TrailerMagic
    ElfMagic = ElfMagic
    XzMagic = XzMagic
    Junk = Junk
    Dense = Dense
    Word = {Magic, TrailerMagic, ElfMagic, XzMagic, Junk, Dense}
    Name = {"386", "amd64", "riscv32", "mips"}
    MaxCount = 4
    MaxInt = 31
    MaxWord = 63
    MaxAlloc = 15
    Encoder = {"system", "go"}
    Natives <- MCNatives
    Xz <- MCXz
    ArchOrder <- MCArchOrder
    Supported <- MCSupported
    Native <- MCNative
    Enc = "system"
    Probe <- MCProbe
INVARIANT
    NeverPanics
