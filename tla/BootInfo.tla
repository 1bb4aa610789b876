------------------------------ MODULE BootInfo ------------------------------
(***************************************************************************)
(* The first half of mantle_kernel_main: from the boot loader's magic      *)
(* number and Multiboot2 information to a mounted root filesystem.  Two     *)
(* walks go over the same list of tags: mantle_framebuffer_init looks for   *)
(* a framebuffer, then find_rootfs for the module named "mantle-rootfs".    *)
(* Each turn of each walk is a step.                                       *)
(*                                                                         *)
(* Memory behind the header is a sequence of tags, each where the rounded  *)
(* size of the one before puts it, followed by endless copies of one more. *)
(***************************************************************************)
EXTENDS Integers, Sequences, FiniteSetsExt

CONSTANTS
    Word,      \* modulus of uint32_t
    MaxTotal,  \* the largest total_size accepted (0x100000)
    FbSize,    \* bytes read of a framebuffer tag (38)
    NameSize,  \* the rootfs command line with its NUL (14)
    Infos,     \* the boot informations
    MaxTags    \* bound: a walk that gets this far has left the information

(* A tag: its type, its size field, and what its payload says.              *)
(*   mod  start, end, and whether the command line is "mantle-rootfs"       *)
(*   fb   "rgb", or the field that makes mantle_framebuffer_init refuse it  *)
Tag == [type : {"end", "module", "framebuffer", "other"}, size : 0 .. Word - 1,
        start : 0 .. Word - 1, end : 0 .. Word - 1, named : BOOLEAN,
        fb : {"rgb", "refused", "empty"}]

Info == [magic : BOOLEAN, null : BOOLEAN, total : 0 .. Word - 1, tags : Seq(Tag),
         rest : Tag, mountable : BOOLEAN]

ASSUME BootAssumption ==
    /\ Word \in Nat \ {0} /\ MaxTotal \in Nat /\ FbSize \in Nat /\ NameSize \in Nat
    /\ MaxTags \in Nat /\ MaxTotal <= 8 * MaxTags
    /\ \A i \in Infos : i \in Info /\ Len(i.tags) <= MaxTags

VARIABLES
    info,     \* what the boot loader handed over
    stage,    \* which part of mantle_kernel_main is running
    k,        \* the tag the current walk is at
    readEnd,  \* the byte after the last one the current walk has read
    image,    \* the module find_rootfs found
    said      \* the messages printed

vars == <<info, stage, k, readEnd, image, said>>

NoImage == [start |-> 0, size |-> 0]

-----------------------------------------------------------------------------
(* (size + 7) & ~7 on 32 bits. *)
Round8(size) == (((size + 7) % Word) \div 8) * 8

(* The tags of an information and where each begins. *)
TagOf(inf, i) == IF i <= Len(inf.tags) THEN inf.tags[i] ELSE inf.rest
Places(inf) ==
    LET at[i \in Nat] == IF i <= 1 THEN 8 ELSE at[i - 1] + Round8(TagOf(inf, i - 1).size)
    IN  at
TagNo(i) == TagOf(info, i)
At(i) == Places(info)[i]
tag == TagNo(k)

(* cursor += rounded size: a tag that rounds to nothing is met again. *)
Following == IF Round8(tag.size) = 0 THEN k ELSE k + 1

ReadTo(bytes) == readEnd' = Max({readEnd, At(k) + bytes})

Say(m) == said' = said \cup m

Init ==
    /\ info \in Infos
    /\ stage = "start" /\ k = 1 /\ readEnd = 0
    /\ image = NoImage /\ said = {}

(* rootfs_error. *)
Stop(m) ==
    /\ Say(m \cup {"ROOTFS_ERROR"})
    /\ stage' = "halted"

(* The magic number decides about both walks, a null pointer ends each. *)
Start ==
    /\ stage = "start"
    /\ UNCHANGED <<info, k, readEnd, image>>
    /\ \/ /\ ~info.magic
          /\ Stop({"MAGIC_ERROR", "GRAPHICS_UNAVAILABLE", "NOT_FOUND"})
       \/ /\ info.magic /\ info.null
          /\ Stop({"MAGIC_OK", "GRAPHICS_UNAVAILABLE", "NOT_FOUND"})
       \/ /\ info.magic /\ ~info.null
          /\ Say({"MAGIC_OK"})
          /\ stage' = "framebuffer"

-----------------------------------------------------------------------------
(* mantle_framebuffer_init: the list has no other end than its end tag.      *)
Framebuffer == stage = "framebuffer" /\ k < MaxTags

FbDone(m) ==
    /\ Say({m})
    /\ stage' = "header" /\ k' = 1
    /\ UNCHANGED <<info, image>>

IsEnd_bySize == tag.size = 0
IsEnd == tag.type = "end"

FbEnd ==
    /\ Framebuffer
    /\ IsEnd
    /\ ReadTo(8)
    /\ FbDone("GRAPHICS_UNAVAILABLE")

FbWanted == tag.type = "framebuffer" /\ tag.size >= FbSize

FbFound ==
    /\ Framebuffer
    /\ ~IsEnd /\ FbWanted
    /\ ReadTo(FbSize)
    /\ FbDone(IF tag.fb = "rgb" THEN "GRAPHICS_OK" ELSE "GRAPHICS_UNAVAILABLE")

FbSkip_stays ==
    /\ Framebuffer
    /\ ~IsEnd /\ ~FbWanted
    /\ ReadTo(8)
    /\ UNCHANGED <<info, stage, k, image, said>>

FbSkip ==
    /\ Framebuffer
    /\ ~IsEnd /\ ~FbWanted
    /\ ReadTo(8)
    /\ k' = Following
    /\ UNCHANGED <<info, stage, image, said>>

-----------------------------------------------------------------------------
(* find_rootfs.                                                              *)
TotalOk == info.total >= 8 /\ info.total <= MaxTotal

FindHeader ==
    /\ stage = "header"
    /\ readEnd' = 8
    /\ IF TotalOk
       THEN stage' = "find" /\ UNCHANGED said
       ELSE Stop({"INVALID"})
    /\ UNCHANGED <<info, k, image>>

InList == At(k) + 8 <= info.total

Malformed_unbounded == tag.size < 8
Malformed == tag.size < 8 \/ At(k) + tag.size > info.total

(* The list ended, by its size or by its end tag, without the module. *)
FindNothing ==
    /\ stage = "find"
    /\ ~InList \/ (~Malformed /\ IsEnd)
    /\ IF InList THEN ReadTo(8) ELSE UNCHANGED readEnd
    /\ Stop({"NOT_FOUND"})
    /\ UNCHANGED <<info, k, image>>

FindMalformed ==
    /\ stage = "find" /\ InList
    /\ Malformed
    /\ ReadTo(8)
    /\ Stop({"INVALID"})
    /\ UNCHANGED <<info, k, image>>

(* mantle_mb2_parse_module: a non-empty module with exactly that name. *)
ParsesAsRootfs_anyRange(t) == t.size = 16 + NameSize /\ t.named
ParsesAsRootfs(t) == t.end > t.start /\ t.size = 16 + NameSize /\ t.named

IsModule == tag.type = "module" /\ tag.size >= 16

FindModule ==
    /\ stage = "find" /\ InList /\ ~Malformed
    /\ IsModule /\ ParsesAsRootfs(tag)
    /\ ReadTo(tag.size)
    /\ image' = [start |-> tag.start, size |-> (tag.end - tag.start) % Word]
    /\ stage' = "mount"
    /\ Say({"MODULE_FOUND"})
    /\ UNCHANGED <<info, k>>

FindSkip ==
    /\ stage = "find" /\ InList /\ ~Malformed
    /\ ~IsEnd /\ ~(IsModule /\ ParsesAsRootfs(tag))
    /\ ReadTo(IF IsModule THEN tag.size ELSE 8)
    /\ k' = Following
    /\ UNCHANGED <<info, stage, image, said>>

-----------------------------------------------------------------------------
(* The module is mounted, after one more check of its end. *)
MappingBad == image.size > Word - 1 - image.start

Mount ==
    /\ stage = "mount"
    /\ IF MappingBad THEN Stop({"MAPPING_ERROR"})
       ELSE IF ~info.mountable THEN Stop({"INVALID"})
       ELSE Say({"ROOTFS_OK"}) /\ stage' = "mounted"
    /\ UNCHANGED <<info, k, readEnd, image>>

Next ==
    \/ Start
    \/ FbEnd \/ FbFound \/ FbSkip
    \/ FindHeader \/ FindNothing \/ FindMalformed \/ FindModule \/ FindSkip
    \/ Mount

(* One processor with interrupts off: it goes on while it can. *)
Spec == Init /\ [][Next]_vars /\ WF_vars(Next)
-----------------------------------------------------------------------------
(* Types of the boot state.                                                  *)
TypeOK ==
    /\ stage \in {"start", "framebuffer", "header", "find", "mount", "mounted", "halted"}
    /\ k \in 1 .. MaxTags
    /\ readEnd \in Nat
    /\ image.start \in 0 .. Word - 1 /\ image.size \in 0 .. Word - 1

(* What the Multiboot2 specification asks of a boot loader: sized tags one    *)
(* after the other, an end tag, all within total_size.                        *)
WellFormed ==
    /\ info.total \in 8 .. MaxTotal
    /\ \E n \in DOMAIN info.tags :
          /\ info.tags[n].type = "end"
          /\ \A i \in 1 .. n : info.tags[i].size >= 8 /\ At(i) + info.tags[i].size <= info.total

(* mantle_framebuffer_init knows no bound, yet over a well-formed list it     *)
(* reads nothing behind it.                                                   *)
FramebufferInside == WellFormed /\ stage \in {"framebuffer", "header"} => readEnd <= info.total

(* find_rootfs reads nothing behind total_size whatever the tags say: sizes   *)
(* of zero, sizes past the end, a missing end tag.                            *)
FindInside == stage \in {"find", "mount", "mounted"} => readEnd <= Max({8, info.total})

(* The tags find_rootfs may look at: up to the first end tag, malformed tag   *)
(* or rootfs module, while a header fits.                                     *)
Decides(i) ==
    \/ At(i) + 8 > info.total
    \/ TagNo(i).size < 8 \/ At(i) + TagNo(i).size > info.total
    \/ TagNo(i).type = "end"
    \/ TagNo(i).type = "module" /\ TagNo(i).named /\ TagNo(i).size = 16 + NameSize
         /\ TagNo(i).start < TagNo(i).end
Deciding == Min({i \in 1 .. MaxTags : Decides(i)})

(* The image is that of the first acceptable module of the list, all tags     *)
(* before it being well formed, and a list without one is never mounted; the  *)
(* image lies in the 32-bit space, so the mapping check of mantle_kernel_main *)
(* never fires.                                                               *)
MountsFirstRootfs ==
    /\ stage \in {"mount", "mounted"} =>
         LET t == TagNo(Deciding) IN
         /\ t.type = "module" /\ t.named
         /\ At(Deciding) + t.size <= info.total
         /\ image.start = t.start /\ image.start + image.size = t.end /\ image.size > 0
    /\ "MAPPING_ERROR" \notin said

(* Given a well-formed list the boot never hangs in a walk: it mounts, or     *)
(* halts with the reason it printed.                                          *)
BootEnds == WellFormed => <>(stage = "mounted" \/ (stage = "halted" /\ "ROOTFS_ERROR" \in said))
=============================================================================
