SPECIFICATION Spec
CONSTANTS
    Magic = Magic
    TrailerMagic = TrailerMagic
    ElfMagic = ElfMagic
    XzMagic = XzMagic
    Junk = Junk
    Dense = Dense
    Zero = Zero
    Word = {Magic, TrailerMagic, ElfMagic, XzMagic, Junk, Dense, Zero}
    Name = {"386", "amd64", "arm", "arm64", "riscv64", "riscv32"}
    MaxCount = 4
    MaxInt = 31
    MaxWord = 63
    MaxAlloc = 15
    Encoder = {"system"}
    Natives <- MCNatives
    Xz <- MCXz
    ArchOrder <- MCArchOrder
    Supported <- MCSupported
    amd = amd
    intel = intel
    risc = risc
    v1 = v1
    v2 = v2
    Host = {amd, risc}
    Proc = {p, q}
    Desk = Desk
    DeskArch = "amd64"
    Machine <- MCMachine
    HostArch <- MCHostArch
    Version = {v1, v2}
    Native <- MCNative
    Enc = "system"
    Chunk = 8
    NoDir = NoDir
    NoFile = NoFile
    NoCat = NoCat
    Exclusive = FALSE
    MaxFaults = 1
PROPERTY
    OkIsWhole
SYMMETRY Procs
