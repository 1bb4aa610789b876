------------------------------ MODULE ElfLoader ------------------------------
(***************************************************************************)
(* The ELF64 loader of the kernel, kernel/process/elf.c, together with the *)
(* page table and the memory of the single user window it fills.           *)
(*                                                                         *)
(* One action per step of mantle_elf_load: the header checks, then one     *)
(* step per program header, then the final decision.  The loader runs with *)
(* interrupts off and is never pre-empted; the steps are separate so that  *)
(* every early return leaves the half-loaded window it leaves in the code. *)
(* Offsets of mem are relative to mantle_user_memory and indices of pt to  *)
(* user_page_table; what lies beyond the window and beyond the table is    *)
(* kernel memory, kept in the same functions so that a stray store shows.  *)
(***************************************************************************)
EXTENDS Integers, Sequences, FiniteSets

CONSTANTS
    Word,        \* modulus of the unsigned address arithmetic (2^64)
    UserBase,    \* USER_BASE
    NPages,      \* pages of the user window (512)
    PageSize,    \* bytes per page (4096)
    StackFirst,  \* first page of the initial stack (496)
    HeaderSize,  \* sizeof(struct elf_header)
    PhSize,      \* sizeof(struct elf_program_header)
    MaxPhdrs,    \* the largest phnum accepted (64)
    Files,       \* identities of the files the loader is given
    Elf,         \* the contents of each file
    MaxLoads     \* bound on the number of loads in a behaviour

WindowSize == NPages * PageSize
UserLimit == UserBase + WindowSize
Window == 0 .. WindowSize - 1
MemIndex == 0 .. Word - 1
PageIndex == 0 .. NPages - 1
PteIndex == 0 .. Word            \* the table and the memory behind it

Phdr == [type : {"LOAD", "OTHER"}, flags : SUBSET {"R", "W", "X"},
         offset : Nat, vaddr : Nat, filesz : Nat, memsz : Nat, align : Nat]

ElfImage == [size : Nat, ident : BOOLEAN, phoff : Nat, entry : Nat,
             phdrs : Seq(Phdr)]

ASSUME SizesAssumption ==
    /\ Word \in Nat /\ UserBase \in Nat
    /\ NPages \in Nat \ {0} /\ PageSize \in Nat \ {0}
    /\ StackFirst \in PageIndex
    /\ UserLimit < Word
    /\ HeaderSize \in Nat /\ PhSize \in Nat /\ MaxPhdrs \in Nat
    /\ MaxLoads \in Nat
ASSUME FilesAssumption == Elf \in [Files -> ElfImage]

VARIABLES
    pc,          \* "idle", or "segments" inside the loop over the headers
    file,        \* the file being, or last, loaded
    index,       \* next program header
    loadCount,   \* load_count
    entryValid,  \* entry_valid
    result,      \* what the last load returned, and whether its program ran
    mem,         \* memory from mantle_user_memory on
    pt,          \* entries from user_page_table on
    loads        \* number of loads so far (bounds the model)

vars == <<pc, file, index, loadCount, entryValid, result, mem, pt, loads>>

-----------------------------------------------------------------------------
(* Contents of a byte of memory, and permissions of a page.  Every entry of *)
(* the table is present and user; "K" marks what is not part of the table.  *)
Zero == <<"zero">>
KernelByte == <<"kernel">>
UserByte == <<"user">>
FileByte(f, o) == <<"file", f, o>>
Byte == {Zero, KernelByte, UserByte} \cup ({"file"} \X Files \X Nat)

NoAccess == {"NX"}               \* readable data
ReadWrite == {"W", "NX"}
KernelEntry == {"K"}
Pte == SUBSET {"W", "NX", "K"}

-----------------------------------------------------------------------------
range64(offset, length, size) == offset <= size /\ length <= size - offset

user_range_noLimit(address, size) ==
    address >= UserBase /\ size <= (UserLimit - address) % Word

user_range(address, size) ==
    /\ address >= UserBase
    /\ address <= UserLimit
    /\ size <= UserLimit - address

PowerOfTwo(a) == \E k \in 0 .. a : a = 2 ^ k

(* The checks made before anything is touched. *)
HeaderOk(e) ==
    /\ e.size >= HeaderSize
    /\ e.ident
    /\ Len(e.phdrs) # 0 /\ Len(e.phdrs) <= MaxPhdrs
    /\ range64(e.phoff, Len(e.phdrs) * PhSize, e.size)
    /\ user_range(e.entry, 1)

SegmentOk(e, s) ==
    /\ s.filesz <= s.memsz
    /\ s.memsz # 0
    /\ range64(s.offset, s.filesz, e.size)
    /\ user_range(s.vaddr, s.memsz)
    /\ ~({"W", "X"} \subseteq s.flags)
    /\ (s.vaddr + s.memsz) % Word >= s.vaddr
    /\ s.align # 0 => PowerOfTwo(s.align)
    /\ s.align > 1 => s.vaddr % s.align = s.offset % s.align

-----------------------------------------------------------------------------
Dest(s) == (s.vaddr - UserBase) % Word
FirstPage(s) == Dest(s) \div PageSize

LastPageTruncated(s) == (Dest(s) + s.memsz) \div PageSize

LastPage(s) == (Dest(s) + s.memsz + PageSize - 1) \div PageSize

(* The pages whose entries the loop over first_page .. last_page rewrites. *)
InPages(s, p) == FirstPage(s) <= p /\ p < LastPage(s)

PermissionsKept(s, old) ==
    (IF "W" \in s.flags THEN {"W"} ELSE old \cap {"W"})
       \cup (IF "X" \in s.flags THEN {} ELSE old \cap {"NX"})

(* The entry a page gets; the value it had is overwritten, not combined. *)
Permissions(s, old) ==
    (IF "W" \in s.flags THEN {"W"} ELSE {})
       \cup (IF "X" \in s.flags THEN {} ELSE {"NX"})

EntryInside_closed(e, s) ==
    "X" \in s.flags /\ e.entry >= s.vaddr /\ e.entry <= s.vaddr + s.memsz

EntryInside(e, s) ==
    "X" \in s.flags /\ e.entry >= s.vaddr /\ e.entry < s.vaddr + s.memsz

(* copy_bytes of the file part followed by clear_bytes of the rest. *)
Stored(f, s) ==
    [o \in MemIndex |->
        IF Dest(s) <= o /\ o < Dest(s) + s.filesz
        THEN FileByte(f, s.offset + (o - Dest(s)))
        ELSE IF Dest(s) + s.filesz <= o /\ o < Dest(s) + s.memsz
             THEN Zero
             ELSE mem[o]]

Protected(s) ==
    [p \in PteIndex |->
        IF InPages(s, p) THEN Permissions(s, pt[p]) ELSE pt[p]]

ClearedMem == [o \in MemIndex |-> IF o \in Window THEN Zero ELSE mem[o]]

ResetTable ==
    [p \in PteIndex |->
        IF p \in PageIndex THEN IF p >= StackFirst THEN ReadWrite ELSE NoAccess
                           ELSE pt[p]]

-----------------------------------------------------------------------------
(* After mantle_arch_user_memory_init: every page mapped read-only and NX. *)
Init ==
    /\ pc = "idle"
    /\ file \in Files
    /\ index = 1 /\ loadCount = 0 /\ entryValid = FALSE
    /\ result = "none"
    /\ mem = [o \in MemIndex |-> IF o \in Window THEN Zero ELSE KernelByte]
    /\ pt = [p \in PteIndex |-> IF p \in PageIndex THEN NoAccess ELSE KernelEntry]
    /\ loads = 0

(* The early returns of the header checks: nothing has been touched. *)
RejectHeader(f) ==
    /\ pc = "idle" /\ loads < MaxLoads
    /\ ~HeaderOk(Elf[f])
    /\ file' = f
    /\ result' = "error"
    /\ loads' = loads + 1
    /\ UNCHANGED <<pc, index, loadCount, entryValid, mem, pt>>

(* The header is good: the window is cleared and every page protected. *)
AcceptHeader(f) ==
    /\ pc = "idle" /\ loads < MaxLoads
    /\ HeaderOk(Elf[f])
    /\ pc' = "segments"
    /\ file' = f
    /\ index' = 1 /\ loadCount' = 0 /\ entryValid' = FALSE
    /\ result' = "none"
    /\ mem' = ClearedMem
    /\ pt' = ResetTable
    /\ loads' = loads + 1

InLoop == pc = "segments" /\ index <= Len(Elf[file].phdrs)
Segment == Elf[file].phdrs[index]

SkipSegment ==
    /\ InLoop
    /\ Segment.type # "LOAD"
    /\ index' = index + 1
    /\ UNCHANGED <<pc, file, loadCount, entryValid, result, mem, pt, loads>>

RejectSegment ==
    /\ InLoop
    /\ Segment.type = "LOAD"
    /\ ~SegmentOk(Elf[file], Segment)
    /\ pc' = "idle"
    /\ result' = "error"
    /\ UNCHANGED <<file, index, loadCount, entryValid, mem, pt, loads>>

LoadSegment ==
    /\ InLoop
    /\ Segment.type = "LOAD"
    /\ SegmentOk(Elf[file], Segment)
    /\ entryValid' = (entryValid \/ EntryInside(Elf[file], Segment))
    /\ mem' = Stored(file, Segment)
    /\ pt' = Protected(Segment)
    /\ loadCount' = loadCount + 1
    /\ index' = index + 1
    /\ UNCHANGED <<pc, file, result, loads>>

Finish ==
    /\ pc = "segments"
    /\ index > Len(Elf[file].phdrs)
    /\ pc' = "idle"
    /\ result' = IF loadCount = 0 \/ ~entryValid THEN "error" ELSE "ok"
    /\ UNCHANGED <<file, index, loadCount, entryValid, mem, pt, loads>>

(* Between two loads user code runs, if there is a page it can execute from, *)
(* and fills a page it may write.                                            *)
UserStores(p) ==
    /\ pc = "idle"
    /\ \E q \in PageIndex : "NX" \notin pt[q]
    /\ "W" \in pt[p]
    /\ mem' = [o \in MemIndex |->
                 IF p * PageSize <= o /\ o < (p + 1) * PageSize THEN UserByte ELSE mem[o]]
    /\ result' = "running"
    /\ UNCHANGED <<pc, file, index, loadCount, entryValid, pt, loads>>

Next ==
    \/ \E f \in Files : RejectHeader(f) \/ AcceptHeader(f)
    \/ SkipSegment \/ RejectSegment \/ LoadSegment \/ Finish
    \/ \E p \in PageIndex : UserStores(p)

Spec == Init /\ [][Next]_vars

-----------------------------------------------------------------------------
(* Types of the loader's locals, of the window and of the page table.       *)
TypeOK ==
    /\ pc \in {"idle", "segments"}
    /\ file \in Files
    /\ index \in Nat \ {0}
    /\ loadCount \in Nat
    /\ entryValid \in BOOLEAN
    /\ result \in {"none", "error", "ok", "running"}
    /\ mem \in [MemIndex -> Byte]
    /\ pt \in [PteIndex -> Pte]
    /\ loads \in Nat

(* No load, whatever its program headers say, and no early return stores    *)
(* outside mantle_user_memory or outside the 512 entries of the page table: *)
(* the range checks of elf.c cannot be defeated by wrap-around and the      *)
(* rounded-up last page never passes the end of the table.                  *)
KernelIntact ==
    /\ \A o \in MemIndex : o \notin Window => mem[o] = KernelByte
    /\ \A p \in PteIndex : p \notin PageIndex => pt[p] = KernelEntry

(* W^X page by page, at every step of every load: though only segments with *)
(* both flags are refused and two segments may share a page, no page is     *)
(* ever writable and executable.                                            *)
PageWXExclusive == \A p \in PageIndex : "W" \in pt[p] => "NX" \in pt[p]

(* What the window should hold: the last PT_LOAD segment that covers a byte *)
(* decides it, and the last one that touches a page decides its protection. *)
LoadSegments(f) == {i \in DOMAIN Elf[f].phdrs : Elf[f].phdrs[i].type = "LOAD"}
LastOf(S) == CHOOSE i \in S : \A j \in S : j <= i

ByteAt(f, o) ==
    LET a == UserBase + o
        S == {i \in LoadSegments(f) :
                LET s == Elf[f].phdrs[i] IN s.vaddr <= a /\ a < s.vaddr + s.memsz}
        s == Elf[f].phdrs[LastOf(S)]
    IN  IF S # {} /\ a < s.vaddr + s.filesz THEN FileByte(f, s.offset + (a - s.vaddr)) ELSE Zero

Touches(s, p) ==
    \E o \in p * PageSize .. (p + 1) * PageSize - 1 :
        s.vaddr <= UserBase + o /\ UserBase + o < s.vaddr + s.memsz

PteAt(f, p) ==
    LET S == {i \in LoadSegments(f) : Touches(Elf[f].phdrs[i], p)}
        s == Elf[f].phdrs[LastOf(S)]
    IN  IF S = {} THEN IF p >= StackFirst THEN ReadWrite ELSE NoAccess
        ELSE {x \in {"W", "NX"} : IF x = "W" THEN "W" \in s.flags ELSE "X" \notin s.flags}

(* A load that reports success has built exactly the image its program      *)
(* headers describe, over whatever the previous program and its stores left *)
(* in the window: no byte and no permission survives from before.           *)
LoadedImage ==
    result = "ok" =>
        /\ \A o \in Window : mem[o] = ByteAt(file, o)
        /\ \A p \in PageIndex : pt[p] = PteAt(file, p)

(* Two PT_LOAD segments of the file never touch the same page. *)
PageDisjoint(f) ==
    \A i, j \in LoadSegments(f) :
        i < j => \A p \in PageIndex : ~(/\ Touches(Elf[f].phdrs[i], p)
                                        /\ Touches(Elf[f].phdrs[j], p))

(* When mantle_elf_load returns 0 for a file whose segments share no page,  *)
(* the entry point it reports lies in an executable page, as the boot-time  *)
(* diagnostics require of /bin/hello and nothing checks for exec.           *)
EntryExecutable ==
    result = "ok" /\ PageDisjoint(file) =>
        "NX" \notin pt[(Elf[file].entry - UserBase) \div PageSize]

(* The inductive form of EntryExecutable: the segments passed so far were    *)
(* accepted; each page one of them touched, and no later one did, has the    *)
(* permissions it asks for; entry_valid was set by one of them.              *)
LastWriterProtects ==
    pc = "segments" \/ result = "ok" =>
        /\ \A i \in LoadSegments(file) : i < index =>
              /\ SegmentOk(Elf[file], Elf[file].phdrs[i])
              /\ \A p \in PageIndex :
                    /\ InPages(Elf[file].phdrs[i], p)
                    /\ \A j \in LoadSegments(file) :
                          i < j /\ j < index => ~InPages(Elf[file].phdrs[j], p)
                    => pt[p] = Permissions(Elf[file].phdrs[i], {})
        /\ entryValid => \E i \in LoadSegments(file) :
                            i < index /\ EntryInside(Elf[file], Elf[file].phdrs[i])
        /\ result = "ok" => entryValid /\ index > Len(Elf[file].phdrs)
=============================================================================
