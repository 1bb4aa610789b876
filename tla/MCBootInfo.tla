----------------------------- MODULE MCBootInfo -----------------------------
(* Lists of at most three tags followed by junk, sizes at every limit; the   *)
(* framebuffer tag and the name are shortened to 14 and 6 bytes.             *)
EXTENDS EfiBoot

T(ty, sz) == [type |-> ty, size |-> sz, start |-> 0, end |-> 0, named |-> FALSE, fb |-> "rgb"]
Module(sz, s, e, n) == [T("module", sz) EXCEPT !.start = s, !.end = e, !.named = n]
Fb(sz, f) == [T("framebuffer", sz) EXCEPT !.fb = f]

Junk == {T("end", 8), T("other", 8), T("other", 0)}
MCTags ==
    {T("end", 8), T("end", 0), T("other", 0), T("other", 12), T("other", 127),
     Module(22, 3, 9, TRUE), Module(22, 0, 127, TRUE), Module(22, 9, 9, TRUE), Module(22, 9, 3, TRUE),
     Module(22, 3, 9, FALSE), Module(23, 3, 9, TRUE), Module(15, 3, 9, TRUE),
     Fb(14, "rgb"), Fb(14, "refused"), Fb(16, "empty"), Fb(13, "rgb")}

Lists == UNION {[1 .. n -> MCTags] : n \in 0 .. 3}

MCInfos ==
    [magic : {TRUE}, null : {FALSE}, total : {7, 8, 16, 37, 38, 40, 62, 65, 96}, tags : Lists,
     rest : Junk, mountable : {TRUE}]
    \cup [magic : BOOLEAN, null : BOOLEAN, total : {40}, tags : {<<Module(22, 3, 9, TRUE), T("end", 8)>>},
          rest : {T("end", 8)}, mountable : BOOLEAN]

(* Kernels of up to two segments at the limits of load_kernel's checks, pages *)
(* of 4 bytes, 8 of them free, 256 addresses for the sums to wrap at, and root *)
(* filesystems below, across and above the 32-bit limit.                      *)
S(l, o, p, f, m) == [load |-> l, offset |-> o, paddr |-> p, filesz |-> f, memsz |-> m]
MCSegs == {S(FALSE, 0, 0, 0, 0)}
          \cup {S(TRUE, o, p, f, m) : o \in {0, 3, 10, 11}, p \in {0, 8, 9, 28}, f \in {0, 7, 8, 250, 255}, m \in {0, 5, 8, 250, 253, 255}}
Plain == S(TRUE, 3, 8, 7, 8)
Skipped == S(FALSE, 0, 0, 0, 0)
Base == [ident |-> TRUE, fileSize |-> 10, phoff |-> 0, segs |-> <<Plain>>,
         rootfs |-> [at |-> 40, size |-> 6], gop |-> TRUE, faults |-> FALSE]
Kernels ==
    {[Base EXCEPT !.ident = i, !.segs = l] :
        i \in BOOLEAN, l \in {<<>>} \cup {<<s>> : s \in MCSegs} \cup {<<Plain, s>> : s \in MCSegs}}
    \cup {[Base EXCEPT !.phoff = o, !.segs = l] :
        o \in {0, 2, 3, 7, 10, 11, 248, 255}, l \in {<<>>, <<Skipped, Plain>>, <<Skipped, Skipped, Skipped>>}}
MCCases ==
    Kernels \cup
    {[Base EXCEPT !.rootfs = [at |-> a, size |-> n], !.gop = g, !.faults = f] :
        a \in {40, 125, 126, 130, 168}, n \in {0, 2, 6, 127, 128}, g \in BOOLEAN, f \in BOOLEAN}
=============================================================================
