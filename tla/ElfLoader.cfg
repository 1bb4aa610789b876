SPECIFICATION Spec
CONSTANTS
    Word = 16
    UserBase = 4
    NPages = 4
    PageSize = 2
    StackFirst = 3
    HeaderSize = 1
    PhSize = 1
    MaxPhdrs = 2
    Files <- MCFiles
    Elf <- MCElf
    MaxLoads = 2
INVARIANTS KernelIntact PageWXExclusive LoadedImage EntryExecutable
CHECK_DEADLOCK FALSE
