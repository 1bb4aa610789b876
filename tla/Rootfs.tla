------------------------------- MODULE Rootfs -------------------------------
(***************************************************************************)
(* The root filesystem module: userspace/build-rootfs.py packs it,         *)
(* kernel/fs/rootfs.c mounts it, opens files of it and lists its top       *)
(* directory.                                                              *)
(*                                                                         *)
(* An image is what its bytes parse to: a header, then entries one after   *)
(* the other, each at the offset "at" where the walk of the table meets    *)
(* it.  The offsets, lengths and the comparisons made on them are those of *)
(* the code; the bytes of names and files are not represented.  Names hold *)
(* no space, which mantle_rootfs_list uses as its separator.               *)
(***************************************************************************)
EXTENDS Integers, Sequences, FiniteSets, SequencesExt, FiniteSetsExt

CONSTANTS
    HeaderSize,   \* sizeof(struct rootfs_header)
    EntrySize,    \* sizeof(struct rootfs_entry)
    MaxEntries,   \* MANTLE_ROOTFS_MAX_ENTRIES
    MaxPathLen,   \* the longest path accepted (255)
    Paths,        \* the file names
    PathLen,      \* their lengths
    Top,          \* the first component of each
    NameLen,      \* the length of each first component
    Images,       \* modules that build-rootfs.py did not make
    ItemLists,    \* the DEST=SOURCE arguments given to build-rootfs.py
    OutSizes      \* sizes of the buffer given to readdir

Item == [path : Paths, size : Nat]
Entry == [at : Nat, path : Paths, offset : Nat, size : Nat]
Image == [magic : BOOLEAN, size : Nat, entries : Nat, table : Seq(Entry)]

(* A module parses to as many entries as its header says, when it is accepted. *)
ASSUME RootfsAssumption ==
    /\ HeaderSize \in Nat /\ EntrySize \in Nat
    /\ MaxEntries \in Nat /\ MaxPathLen \in Nat
    /\ PathLen \in [Paths -> Nat]
    /\ OutSizes \subseteq Nat
    /\ \A p \in Paths : PathLen[p] > 1 => NameLen[Top[p]] \in 0 .. PathLen[p] - 1
    /\ \A l \in ItemLists : l \in Seq(Item)
    /\ \A img \in Images : img \in Image /\ (img.entries <= MaxEntries => Len(img.table) = img.entries)

VARIABLES
    module,   \* the boot module given to the kernel
    items,    \* the arguments it was packed from, <<>> when it was not
    state,    \* what is mounted: Unmounted, or an image
    reply     \* the last call of the component and what it returned

vars == <<module, items, state, reply>>

Unmounted == [magic |-> FALSE, size |-> 0, entries |-> 0, table |-> <<>>]
ready == state # Unmounted

NoSlice == [offset |-> 0, size |-> 0]
Reply(o, a, ok, reads) ==
    [op |-> o, arg |-> a, ok |-> ok, reads |-> reads, slice |-> NoSlice,
     names |-> <<>>, written |-> 0, extent |-> 0]

-----------------------------------------------------------------------------
(* build-rootfs.py: the table follows the header, the files follow the table. *)
EntrySizes(list) == [j \in DOMAIN list |-> EntrySize + PathLen[list[j].path]]
FileSizes(list) == [j \in DOMAIN list |-> list[j].size]

PackedAt(list, i) == HeaderSize + SumFunctionOnSet(EntrySizes(list), 1 .. i - 1)

PackedOffset_noHeader(list, i) ==
    SumFunction(EntrySizes(list)) + SumFunctionOnSet(FileSizes(list), 1 .. i - 1)

PackedOffset(list, i) ==
    PackedAt(list, Len(list) + 1) + SumFunctionOnSet(FileSizes(list), 1 .. i - 1)

Packed(list) ==
    [magic |-> TRUE,
     size |-> PackedAt(list, Len(list) + 1) + SumFunction(FileSizes(list)),
     entries |-> Len(list),
     table |-> [i \in DOMAIN list |->
                  [at |-> PackedAt(list, i), path |-> list[i].path,
                   offset |-> PackedOffset(list, i), size |-> list[i].size]]]

-----------------------------------------------------------------------------
range_valid(offset, length, size) == offset <= size /\ length <= size - offset

(* One round of the validation loop of mantle_rootfs_mount. *)
EntryOk_anyName(img, e) ==
    /\ range_valid(e.at, EntrySize, img.size)
    /\ PathLen[e.path] # 0 /\ PathLen[e.path] <= MaxPathLen
    /\ range_valid(e.offset, e.size, img.size)

EntryOk(img, e) ==
    /\ range_valid(e.at, EntrySize, img.size)
    /\ PathLen[e.path] # 0 /\ PathLen[e.path] <= MaxPathLen
    /\ range_valid(e.at + EntrySize, PathLen[e.path], img.size)
    /\ range_valid(e.offset, e.size, img.size)

Mountable(img) ==
    /\ img.size >= HeaderSize
    /\ img.magic
    /\ img.entries # 0 /\ img.entries <= MaxEntries
    /\ \A i \in 1 .. img.entries : EntryOk(img, img.table[i])

(* The byte after the last one that a walk of the first k entries can read. *)
WalkEnd(img, k) == Max({0} \cup {img.table[i].at + EntrySize + PathLen[img.table[i].path] : i \in 1 .. k})

-----------------------------------------------------------------------------
(* mantle_rootfs_list: the names already in the output are not repeated.    *)
ListStep_repeats(acc, e, out) ==
    LET n == Top[e.path] IN
    IF acc.full \/ PathLen[e.path] <= 1
       \/ (acc.names # <<>> /\ Last(acc.names) = n) THEN acc
    ELSE IF acc.written + NameLen[n] + 1 >= out THEN [acc EXCEPT !.full = TRUE]
    ELSE [acc EXCEPT !.names = Append(@, n), !.written = @ + NameLen[n] + 1]

ListStep_unbounded(acc, e, out) ==
    LET n == Top[e.path] IN
    IF PathLen[e.path] <= 1 \/ Contains(acc.names, n) THEN acc
    ELSE [acc EXCEPT !.names = Append(@, n), !.written = @ + NameLen[n] + 1]

ListStep(acc, e, out) ==
    LET n == Top[e.path] IN
    IF acc.full \/ PathLen[e.path] <= 1 \/ Contains(acc.names, n) THEN acc
    ELSE IF acc.written + NameLen[n] + 1 >= out THEN [acc EXCEPT !.full = TRUE]
    ELSE [acc EXCEPT !.names = Append(@, n), !.written = @ + NameLen[n] + 1]

Listing(img, out) ==
    LET acc[i \in 0 .. img.entries] ==
          IF i = 0 THEN [names |-> <<>>, written |-> 0, full |-> FALSE]
          ELSE ListStep(acc[i - 1], img.table[i], out)
    IN  acc[img.entries]

-----------------------------------------------------------------------------
Init ==
    /\ items \in ItemLists \cup {<<>>}
    /\ module \in IF items = <<>> THEN Images ELSE {Packed(items)}
    /\ state = Unmounted
    /\ reply = Reply("boot", "none", TRUE, 0)

(* mantle_rootfs_mount: whatever was mounted is forgotten first. *)
Mount(ok) ==
    /\ ok = Mountable(module)
    /\ state' = IF ok THEN module ELSE Unmounted
    /\ reply' = Reply("mount", "none", ok, 0)
    /\ UNCHANGED <<module, items>>

Matches(path) == {i \in 1 .. state.entries : state.table[i].path = path}

(* mantle_rootfs_open: the first entry of that name, or the whole table read. *)
Open(path) ==
    /\ LET M == Matches(path)
           i == IF M = {} THEN state.entries ELSE Min(M)
       IN  reply' = [Reply("open", path, ready /\ M # {}, WalkEnd(state, i))
                      EXCEPT !.slice = IF M = {} THEN NoSlice
                                       ELSE [offset |-> state.table[i].offset,
                                             size |-> state.table[i].size]]
    /\ UNCHANGED <<module, items, state>>

(* mantle_rootfs_list of "/"; any other path is refused. *)
List(root, out) ==
    /\ LET l == Listing(state, out)
           refused == ~ready \/ out = 0 \/ ~root
           ok == ~refused /\ ~l.full /\ l.written # 0 /\ l.written + 1 < out
       IN  reply' = IF refused THEN Reply("list", out, FALSE, 0)
                    ELSE [Reply("list", out, ok, WalkEnd(state, state.entries))
                           EXCEPT !.names = l.names, !.written = l.written,
                                  !.extent = l.written + (IF ok THEN 1 ELSE 0)]
    /\ UNCHANGED <<module, items, state>>

Next ==
    \/ \E ok \in BOOLEAN : Mount(ok)
    \/ \E path \in Paths : Open(path)
    \/ \E root \in BOOLEAN, out \in OutSizes : List(root, out)

Spec == Init /\ [][Next]_vars

-----------------------------------------------------------------------------
(* The image mounted, when there is one, is the module; replies are typed.   *)
TypeOK ==
    /\ state \in {Unmounted, module}
    /\ items \in ItemLists \cup {<<>>}
    /\ reply.op \in {"boot", "mount", "open", "list"} /\ reply.ok \in BOOLEAN
    /\ reply.reads \in Nat /\ reply.written \in Nat /\ reply.extent \in Nat
    /\ reply.slice.offset \in Nat /\ reply.slice.size \in Nat
    /\ ToSet(reply.names) \subseteq {Top[p] : p \in Paths}

(* open and list walk the table and return slices without any bound check of *)
(* their own: the checks mount made of the same image keep every byte they   *)
(* read, and every byte of the slice they hand out, inside the module.       *)
ReadsInsideModule ==
    reply.op \in {"open", "list"} =>
        /\ reply.reads <= module.size
        /\ reply.ok => reply.slice.offset + reply.slice.size <= module.size

(* readdir never writes past the buffer it was given, whether the listing    *)
(* succeeds or is abandoned half-way.                                        *)
ListInsideBuffer == reply.op = "list" => reply.extent <= reply.arg

TopNames == {Top[state.table[i].path] : i \in {j \in 1 .. state.entries : PathLen[state.table[j].path] > 1}}
ListingSize == SumFunction([n \in TopNames |-> NameLen[n] + 1])

(* A listing that succeeds names every top-level entry exactly once.  On a    *)
(* mounted module it fails only when there is no name, or when the buffer     *)
(* has no byte to spare behind the names, their separators and the final NUL: *)
(* the limit tests are strict, and refuse a buffer that just fits.            *)
ListExact ==
    reply.op = "list" /\ reply.reads # 0 =>
        /\ reply.ok <=> TopNames # {} /\ ListingSize + 1 < reply.arg
        /\ reply.ok => /\ ToSet(reply.names) = TopNames
                       /\ Len(reply.names) = Cardinality(TopNames)
                       /\ reply.written = ListingSize

(* End to end: a module that build-rootfs.py packed, within the kernel's      *)
(* limits on entries and path lengths, mounts, and open finds each path with *)
(* the bytes of the first file packed under it: right behind the table and   *)
(* the files before it.                                                      *)
PackedRoundTrip ==
    items # <<>> /\ Len(items) <= MaxEntries
      /\ (\A i \in DOMAIN items : PathLen[items[i].path] \in 1 .. MaxPathLen) =>
        /\ reply.op = "mount" => reply.ok
        /\ reply.op = "open" /\ ready =>
             LET S == {i \in DOMAIN items : items[i].path = reply.arg}
             IN  /\ reply.ok <=> S # {}
                 /\ reply.ok =>
                      /\ reply.slice.size = items[Min(S)].size
                      /\ reply.slice.offset + reply.slice.size
                           + SumFunctionOnSet(FileSizes(items), Min(S) + 1 .. Len(items)) = module.size
=============================================================================
