------------------------------ MODULE EfiBoot ------------------------------
(***************************************************************************)
(* The EFI loader in front of BootInfo: efi_main reads the kernel and the   *)
(* root filesystem, loads the kernel's segments at their physical           *)
(* addresses, builds the boot information, leaves the boot services and     *)
(* jumps to _start.  Another loader starts the kernel with the information   *)
(* in place and the processor in protected mode.                            *)
(* Firmware services are external: they succeed or, where the case at hand  *)
(* has faults, may also fail.                                               *)
(***************************************************************************)
EXTENDS BootInfo

CONSTANTS
    Wide,      \* modulus of UINTN (2^64)
    Page,      \* bytes of a page
    FreePages, \* the pages AllocatePages can give out
    MaxSegs,   \* program headers accepted (32)
    PhSize,    \* bytes of a program header (56)
    Cases      \* what is on the volume and what the firmware does: see efi; not empty

Segment == [load : BOOLEAN, offset : 0 .. Wide - 1, paddr : 0 .. Wide - 1,
            filesz : 0 .. Wide - 1, memsz : 0 .. Wide - 1]
Case == [ident : BOOLEAN, fileSize : 0 .. Wide - 1, phoff : 0 .. Wide - 1, segs : Seq(Segment),
         rootfs : [at : 0 .. Wide - 1, size : 0 .. Wide - 1], gop : BOOLEAN, faults : BOOLEAN]

(* The free pages, the buffer of the kernel file and a table of program       *)
(* headers fit in one memory.                                                 *)
ASSUME EfiAssumption ==
    /\ Wide \in Nat /\ Page \in Nat \ {0} /\ MaxSegs \in Nat /\ PhSize \in Nat /\ FreePages \subseteq Nat
    /\ Page <= Wide /\ Cases # {}
    /\ \A c \in Cases : c \in Case
    /\ \A p \in FreePages, c \in Cases : (p + 1) * Page + c.fileSize < Wide
    /\ \A c \in Cases : c.fileSize + MaxSegs * PhSize < Wide

VARIABLES
    efi,      \* the case: ident (e_ident, machine and phentsize are as expected and the
              \* file holds a header), fileSize, phoff, segs, rootfs (at, size), gop, faults
    epc,      \* where efi_main is; "none" under another loader
    seg,      \* the program header load_kernel is at
    loads,    \* the segments it loaded, each with the pages it was given
    mapId,    \* number of the current memory map: an allocation makes a new one
    map_key   \* number of the map that efi_main holds

evars == <<efi, epc, seg, loads, mapId, map_key>>
allvars == <<vars, evars>>
NoInfo == [magic |-> TRUE, null |-> FALSE, total |-> 0, tags |-> <<>>,
           rest |-> [type |-> "end", size |-> 0, start |-> 0, end |-> 0, named |-> FALSE, fb |-> "empty"],
           mountable |-> FALSE]

NoCase == CHOOSE c \in Cases : TRUE

EfiInit ==
    /\ seg = 1 /\ loads = {} /\ mapId = 0 /\ map_key = 0
    /\ \/ Init /\ epc = "none" /\ efi = NoCase
       \/ /\ epc = "kernel" /\ efi \in Cases /\ info = NoInfo /\ stage = "efi"
          /\ k = 1 /\ readEnd = 0 /\ image = NoImage /\ said = {}

-----------------------------------------------------------------------------
Goto(pc) == epc' = pc
Fails == efi.faults /\ Goto("returned") /\ UNCHANGED <<seg, loads, mapId, map_key>>
Allocates == mapId' = mapId + 1
Quiet == UNCHANGED <<efi, vars>>

(* open_root, and read_file of both files: a buffer as large as the file. *)
ReadKernel ==
    /\ epc = "kernel" /\ Quiet
    /\ Fails \/ (Goto("rootfs") /\ Allocates /\ UNCHANGED <<seg, loads, map_key>>)
ReadRootfs ==
    /\ epc = "rootfs" /\ Quiet /\ UNCHANGED <<seg, loads, map_key>>
    /\ \/ efi.faults /\ Goto("returned") /\ UNCHANGED mapId
       \/ efi.rootfs.size >= Word /\ Goto("returned") /\ Allocates
       \/ efi.rootfs.size < Word /\ Goto("load") /\ Allocates

(* A program header that load_kernel accepts, and the pages it asks for. *)
SegmentOk_noOrder(s) ==
    /\ s.offset <= efi.fileSize
    /\ (s.offset + s.filesz) % Wide <= efi.fileSize
    /\ (s.paddr + s.memsz) % Wide >= s.paddr
SegmentOk(s) ==
    /\ s.filesz <= s.memsz /\ s.offset <= efi.fileSize
    /\ (s.offset + s.filesz) % Wide <= efi.fileSize
    /\ (s.paddr + s.memsz) % Wide >= s.paddr
Pages(s) == ((s.memsz + Page - 1) % Wide) \div Page
PagesAt(s) == {(s.paddr \div Page) + i : i \in 0 .. Pages(s) - 1}

(* AllocatePages(AllocateAddress): whole free pages, and at least one. *)
Given(s) ==
    /\ s.paddr % Page = 0 /\ Pages(s) > 0
    /\ PagesAt(s) \subseteq FreePages
    /\ \A l \in loads : PagesAt(s) \cap l.pages = {}

(* The table of program headers: its end is a sum of 64 bits. *)
HeaderOk ==
    /\ efi.ident
    /\ efi.phoff <= efi.fileSize /\ Len(efi.segs) <= MaxSegs
    /\ (efi.phoff + Len(efi.segs) * PhSize) % Wide <= efi.fileSize
LoadError == Goto("returned") /\ UNCHANGED <<seg, loads, mapId>>

LoadSegment ==
    /\ epc = "load" /\ Quiet /\ UNCHANGED map_key
    /\ \/ ~HeaderOk /\ LoadError
       \/ /\ HeaderOk /\ seg > Len(efi.segs)
          /\ Goto("info") /\ UNCHANGED <<seg, loads, mapId>>
       \/ /\ HeaderOk /\ seg <= Len(efi.segs)
          /\ LET s == efi.segs[seg] IN
             \/ ~s.load /\ seg' = seg + 1 /\ UNCHANGED <<epc, loads, mapId>>
             \/ s.load /\ ~(SegmentOk(s) /\ Given(s)) /\ LoadError
             \/ /\ s.load /\ SegmentOk(s) /\ Given(s)
                /\ loads' = loads \cup {[s |-> s, pages |-> PagesAt(s)]}
                /\ seg' = seg + 1 /\ Allocates /\ UNCHANGED epc

(* build_info: the module tag with the low half of its addresses, and, with a *)
(* graphics protocol, a framebuffer tag.                                      *)
Blank == NoInfo.rest
ModuleTag ==
    [Blank EXCEPT !.type = "module", !.size = 16 + NameSize, !.named = TRUE,
                  !.start = efi.rootfs.at % Word, !.end = (efi.rootfs.at + efi.rootfs.size) % Word]
FramebufferTag == [Blank EXCEPT !.type = "framebuffer", !.size = FbSize, !.fb = "rgb"]
EndTag == [Blank EXCEPT !.size = 8]
BuiltTags == <<ModuleTag>> \o (IF efi.gop THEN <<FramebufferTag>> ELSE <<>>) \o <<EndTag>>
BuiltTotal == 8 + Round8(16 + NameSize) + (IF efi.gop THEN Round8(FbSize) ELSE 0) + 8

BuildInfo ==
    /\ epc = "info" /\ UNCHANGED <<efi, seg, loads, map_key, stage, k, readEnd, image, said>>
    /\ \/ /\ efi.faults /\ Goto("returned") /\ UNCHANGED <<mapId, info>>
       \/ /\ Goto("map") /\ Allocates
          /\ \E found \in IF efi.rootfs.at < Word THEN {TRUE} ELSE BOOLEAN :
               info' = [NoInfo EXCEPT !.total = BuiltTotal, !.tags = BuiltTags, !.mountable = found]

(* The size of the map, the buffer, the map, and the end of the services. *)
RefreshKey_no == map_key
RefreshKey == mapId
MapBuffer ==
    /\ epc = "map" /\ Quiet
    /\ Fails \/ (Goto("map2") /\ Allocates /\ map_key' = mapId /\ UNCHANGED <<seg, loads>>)
GetMap ==
    /\ epc = "map2" /\ Quiet
    /\ Fails \/ (Goto("exit") /\ map_key' = RefreshKey /\ UNCHANGED <<seg, loads, mapId>>)
ExitBootServices ==
    /\ epc = "exit" /\ Quiet /\ UNCHANGED <<seg, loads, mapId, map_key>>
    /\ \/ (efi.faults \/ map_key # mapId) /\ Goto("returned")
       \/ map_key = mapId /\ Goto("jumped")

(* jump_kernel goes to the entry of the ELF header, _start, in the mode in    *)
(* which the firmware called efi_main.  _start is assembled for protected     *)
(* mode; read as 64-bit code its first store goes to an address made of two   *)
(* instructions, which nothing maps, and the processor faults.                *)
JumpMode == "long"
StartMode == "protected"
StartKernel ==
    /\ epc = "jumped" /\ UNCHANGED <<efi, seg, loads, mapId, map_key, info, k, readEnd, image, said>>
    /\ IF JumpMode = StartMode
          THEN Goto("started") /\ stage' = "start"
          ELSE Goto("fault") /\ UNCHANGED stage

EfiStep ==
    \/ ReadKernel \/ ReadRootfs \/ LoadSegment \/ BuildInfo \/ MapBuffer \/ GetMap
    \/ ExitBootServices \/ StartKernel
KernelStep == Next /\ UNCHANGED evars
EfiNext == EfiStep \/ KernelStep
EfiSpec == EfiInit /\ [][EfiNext]_allvars /\ WF_allvars(EfiNext)

-----------------------------------------------------------------------------
(* load_kernel's sums wrap, yet the program headers it looked at lie inside   *)
(* the file it read, what it copies lies inside the file and inside pages the *)
(* firmware gave it, and no two segments share a page: a size whose rounding  *)
(* wraps asks for no page at all and is refused.                              *)
EfiCopiesInside ==
    /\ seg > 1 => efi.phoff + (seg - 1) * PhSize <= efi.fileSize
    /\ \A l \in loads :
        /\ l.s.offset + l.s.filesz <= efi.fileSize
        /\ \A b \in {l.s.paddr, l.s.paddr + l.s.filesz - 1} : l.s.filesz > 0 => (b \div Page) \in l.pages
        /\ l.s.memsz <= Page * Cardinality(l.pages)
        /\ \A o \in loads : o # l => o.pages \cap l.pages = {}

Loadable ==
    /\ HeaderOk
    /\ \A i \in DOMAIN efi.segs : efi.segs[i].load =>
          /\ efi.segs[i].memsz > 0 /\ efi.segs[i].filesz <= efi.segs[i].memsz
          /\ efi.segs[i].offset + efi.segs[i].filesz <= efi.fileSize
          /\ efi.segs[i].paddr % Page = 0 /\ efi.segs[i].paddr + efi.segs[i].memsz < Wide - Page
          /\ PagesAt(efi.segs[i]) \subseteq FreePages
          /\ \A j \in DOMAIN efi.segs : efi.segs[j].load /\ j # i => PagesAt(efi.segs[i]) \cap PagesAt(efi.segs[j]) = {}

SmallRootfs == efi.rootfs.size > 0 /\ efi.rootfs.at + efi.rootfs.size < Word

(* The information holds a list that both walks of the kernel accept, and the *)
(* tag that decides find_rootfs describes the buffer the file was read to.    *)
DescribesRootfs ==
    /\ WellFormed /\ info.magic /\ ~info.null
    /\ LET t == TagNo(Deciding) IN
       t.type = "module" /\ t.named /\ t.start = efi.rootfs.at /\ t.end = efi.rootfs.at + efi.rootfs.size

(* With a loadable kernel, a firmware without faults and a root filesystem    *)
(* that was read to a buffer below 2^32, efi_main gets to its jump and hands  *)
(* over an information by which the kernel would mount exactly that buffer:   *)
(* the key that ends the boot services is that of the last map, and the tags  *)
(* the loader wrote are those the kernel's walks accept.                      *)
EfiHandsOver ==
    epc = "kernel" /\ ~efi.faults /\ Loadable /\ SmallRootfs => <>(epc = "jumped" /\ DescribesRootfs)
=============================================================================
