--------------------------- MODULE ElfLoaderProofs ---------------------------
(* Machine-checked proofs about the ELF loader, for every window, page size, *)
(* set of files and number of loads.                                         *)
EXTENDS ElfLoader, WellFoundedInduction, TLAPS

-----------------------------------------------------------------------------
(* Arithmetic of the window.                                                 *)

(* A value below the modulus is not changed by the wrap-around. *)
LEMMA ModSmall ==
    ASSUME NEW a \in Nat, NEW n \in Nat, a < n
    PROVE  a % n = a
  BY SMT

(* A product is monotone in its left factor. *)
LEMMA TimesMono ==
    ASSUME NEW a \in Nat, NEW b \in Nat, NEW k \in Nat, a <= b
    PROVE  a * k <= b * k
  BY SMT

(* Rounding up something no larger than n units gives at most n units. *)
LEMMA RoundUpBound ==
    ASSUME NEW x \in Nat, NEW n \in Nat, NEW k \in Nat \ {0}, x <= n * k
    PROVE  (x + k - 1) \div k <= n
  BY SMT

(* The sizes of the window are natural numbers below the modulus. *)
LEMMA SizesFacts ==
    /\ WindowSize \in Nat
    /\ UserLimit \in Nat
    /\ WindowSize = NPages * PageSize
    /\ UserLimit = UserBase + WindowSize
    /\ UserLimit < Word
  BY SizesAssumption, SMT DEF WindowSize, UserLimit

(* A segment that passes the checks lies in the window, and so do its pages. *)
LEMMA SegmentFits ==
    ASSUME NEW e \in ElfImage, NEW s \in Phdr, SegmentOk(e, s)
    PROVE  /\ Dest(s) = s.vaddr - UserBase
           /\ Dest(s) \in Nat
           /\ s.filesz <= s.memsz
           /\ Dest(s) + s.memsz <= WindowSize
           /\ FirstPage(s) \in Nat
           /\ LastPage(s) \in Nat
           /\ LastPage(s) <= NPages
<1>1. /\ s.vaddr \in Nat /\ s.memsz \in Nat /\ s.filesz \in Nat
      /\ s.vaddr >= UserBase
      /\ s.vaddr + s.memsz <= UserLimit
      /\ s.filesz <= s.memsz
  BY SizesFacts, SizesAssumption, SMT DEF SegmentOk, user_range, Phdr
<1>2. /\ s.vaddr - UserBase \in Nat
      /\ s.vaddr - UserBase < Word
  BY <1>1, SizesFacts, SizesAssumption, SMT
<1>3. Dest(s) = s.vaddr - UserBase
  BY <1>2, ModSmall, SizesAssumption DEF Dest
<1>4. Dest(s) \in Nat /\ Dest(s) + s.memsz \in Nat /\ Dest(s) + s.memsz <= WindowSize
  BY <1>1, <1>2, <1>3, SizesFacts, SizesAssumption, SMT
<1>5. LastPage(s) <= NPages
  BY <1>4, RoundUpBound, SizesFacts, SizesAssumption DEF LastPage
<1>6. FirstPage(s) \in Nat /\ LastPage(s) \in Nat
  BY <1>1, <1>4, SizesAssumption, SMT DEF FirstPage, LastPage
<1> QED
  BY <1>1, <1>3, <1>4, <1>5, <1>6
-----------------------------------------------------------------------------
(* The file being loaded, and the segment at the loop's index, are typed. *)
LEMMA SegmentTyped ==
    ASSUME TypeOK
    PROVE  /\ Elf[file] \in ElfImage
           /\ Len(Elf[file].phdrs) \in Nat
           /\ \A i \in 1 .. Len(Elf[file].phdrs) : Elf[file].phdrs[i] \in Phdr
           /\ InLoop => Segment \in Phdr
<1>1. Elf[file] \in ElfImage
  BY FilesAssumption DEF TypeOK
<1>2. Elf[file].phdrs \in Seq(Phdr)
  BY <1>1, SMT DEF ElfImage
<1>3. /\ Len(Elf[file].phdrs) \in Nat
      /\ \A i \in 1 .. Len(Elf[file].phdrs) : Elf[file].phdrs[i] \in Phdr
  BY <1>2, SMT
<1>4. ASSUME InLoop PROVE index \in 1 .. Len(Elf[file].phdrs)
  BY <1>3, <1>4, SMT DEF InLoop, TypeOK
<1> QED
  BY <1>1, <1>3, <1>4 DEF Segment

(* The initial state is well typed. *)
LEMMA InitTypeOK == Init => TypeOK
<1> SUFFICES ASSUME Init PROVE TypeOK
  OBVIOUS
<1>1. mem \in [MemIndex -> Byte]
  BY SMT DEF Init, Byte
<1>2. pt \in [PteIndex -> Pte]
  BY SMT DEF Init, Pte, NoAccess, KernelEntry
<1>3. entryValid \in BOOLEAN
  BY Zenon DEF Init
<1>4. index \in Nat \ {0} /\ loadCount \in Nat /\ loads \in Nat
  BY SMT DEF Init
<1> QED
  BY <1>1, <1>2, <1>3, <1>4, Zenon DEF Init, TypeOK

(* What the steps store in memory and in the table is typed. *)
LEMMA StoredTyped ==
    ASSUME TypeOK, InLoop, SegmentOk(Elf[file], Segment)
    PROVE  /\ Stored(file, Segment) \in [MemIndex -> Byte]
           /\ Protected(Segment) \in [PteIndex -> Pte]
<1>1. Segment \in Phdr /\ Elf[file] \in ElfImage
  BY SegmentTyped
<1>2. Dest(Segment) \in Nat
  BY <1>1, SegmentFits
<1>3. Segment.offset \in Nat
  BY <1>1, SMT DEF Phdr
<1>4. ASSUME NEW o \in MemIndex, Dest(Segment) <= o
      PROVE  FileByte(file, Segment.offset + (o - Dest(Segment))) \in Byte
  <2>1. o \in Nat
    BY SizesAssumption, SMT DEF MemIndex
  <2>2. Segment.offset + (o - Dest(Segment)) \in Nat
    BY <1>2, <1>3, <1>4, <2>1, SMT
  <2> QED
    BY <2>2, SMT DEF FileByte, Byte, TypeOK
<1>5. Zero \in Byte
  BY DEF Byte
<1>6. ASSUME NEW o \in MemIndex PROVE mem[o] \in Byte
  BY SMT DEF TypeOK
<1>7. Stored(file, Segment) \in [MemIndex -> Byte]
  BY <1>4, <1>5, <1>6 DEF Stored
<1>8. ASSUME NEW p \in PteIndex
      PROVE  pt[p] \in Pte /\ Permissions(Segment, pt[p]) \in Pte
  BY SMT DEF TypeOK, Pte, Permissions
<1>9. Protected(Segment) \in [PteIndex -> Pte]
  BY <1>8 DEF Protected
<1> QED
  BY <1>7, <1>9

(* Every step preserves the types. *)
LEMMA StepTypeOK == TypeOK /\ [Next]_vars => TypeOK'
<1> SUFFICES ASSUME TypeOK, [Next]_vars PROVE TypeOK'
  OBVIOUS
<1>1. ASSUME NEW f \in Files, RejectHeader(f) PROVE TypeOK'
  BY <1>1, SMT DEF RejectHeader, TypeOK
<1>2. ASSUME NEW f \in Files, AcceptHeader(f) PROVE TypeOK'
  <2>1. mem' \in [MemIndex -> Byte]
    BY <1>2, SMT DEF AcceptHeader, ClearedMem, TypeOK, Byte
  <2>2. pt' \in [PteIndex -> Pte]
    BY <1>2, SMT DEF AcceptHeader, ResetTable, TypeOK, Pte, ReadWrite, NoAccess
  <2>3. entryValid' \in BOOLEAN
    BY <1>2, Zenon DEF AcceptHeader
  <2>4. index' \in Nat \ {0} /\ loadCount' \in Nat /\ loads' \in Nat
    BY <1>2, SMT DEF AcceptHeader, TypeOK
  <2> QED
    BY <1>2, <2>1, <2>2, <2>3, <2>4, Zenon DEF AcceptHeader, TypeOK
<1>3. CASE SkipSegment
  BY <1>3, SMT DEF SkipSegment, TypeOK
<1>4. CASE RejectSegment
  BY <1>4, SMT DEF RejectSegment, TypeOK
<1>5. CASE LoadSegment
  <2>1. mem' \in [MemIndex -> Byte] /\ pt' \in [PteIndex -> Pte]
    BY <1>5, StoredTyped DEF LoadSegment
  <2>2. entryValid' \in BOOLEAN
    BY <1>5, Zenon DEF LoadSegment, EntryInside
  <2> QED
    BY <1>5, <2>1, <2>2, SMT DEF LoadSegment, TypeOK
<1>6. CASE Finish
  BY <1>6, SMT DEF Finish, TypeOK
<1>7. ASSUME NEW p \in PageIndex, UserStores(p) PROVE TypeOK'
  <2>1. mem' \in [MemIndex -> Byte]
    BY <1>7, SMT DEF UserStores, TypeOK, Byte
  <2> QED
    BY <1>7, <2>1, SMT DEF UserStores, TypeOK
<1>8. CASE UNCHANGED vars
  BY <1>8, SMT DEF vars, TypeOK
<1> QED
  BY <1>1, <1>2, <1>3, <1>4, <1>5, <1>6, <1>7, <1>8 DEF Next

(* The loader's locals, the window and the page table keep their types. *)
THEOREM TypeCorrect == Spec => []TypeOK
  BY InitTypeOK, StepTypeOK, PTL DEF Spec
-----------------------------------------------------------------------------
(* Confinement and W^X.                                                      *)

(* A page of the window holds only bytes of the window. *)
LEMMA PageInWindow ==
    ASSUME NEW p \in PageIndex, NEW o \in Nat, o < (p + 1) * PageSize
    PROVE  o \in Window
<1>1. p + 1 \in Nat /\ p + 1 <= NPages
  BY SizesAssumption, SMT DEF PageIndex
<1>2. (p + 1) * PageSize <= NPages * PageSize
  BY <1>1, TimesMono, SizesAssumption
<1> QED
  BY <1>1, <1>2, SizesFacts, SizesAssumption, SMT DEF Window

(* A step keeps everything outside the window and outside the table. *)
LEMMA StepKernelIntact == TypeOK /\ KernelIntact /\ [Next]_vars => KernelIntact'
<1> SUFFICES ASSUME TypeOK, KernelIntact, [Next]_vars PROVE KernelIntact'
  OBVIOUS
<1>1. ASSUME NEW f \in Files, AcceptHeader(f) PROVE KernelIntact'
  BY <1>1, SMT DEF AcceptHeader, ClearedMem, ResetTable, KernelIntact
<1>2. CASE LoadSegment
  <2>1. Segment \in Phdr /\ Elf[file] \in ElfImage /\ SegmentOk(Elf[file], Segment)
    BY <1>2, SegmentTyped DEF LoadSegment
  <2>2. /\ Dest(Segment) \in Nat
        /\ Segment.filesz <= Segment.memsz
        /\ Dest(Segment) + Segment.memsz <= WindowSize
        /\ FirstPage(Segment) \in Nat
        /\ LastPage(Segment) \in Nat
        /\ LastPage(Segment) <= NPages
    BY <2>1, SegmentFits
  <2>3. Segment.filesz \in Nat /\ Segment.memsz \in Nat
    BY <2>1, SMT DEF Phdr
  <2>4. ASSUME NEW o \in MemIndex, o \notin Window
        PROVE  mem'[o] = mem[o]
    <3>1. o \in Nat /\ o >= WindowSize
      BY <2>4, SizesFacts, SizesAssumption, SMT DEF MemIndex, Window
    <3>2. ~(o < Dest(Segment) + Segment.filesz) /\ ~(o < Dest(Segment) + Segment.memsz)
      BY <2>2, <2>3, <3>1, SizesFacts, SMT
    <3> QED
      BY <1>2, <3>2 DEF LoadSegment, Stored
  <2>5. ASSUME NEW p \in PteIndex, p \notin PageIndex
        PROVE  pt'[p] = pt[p]
    <3>1. ~(p < LastPage(Segment))
      BY <2>2, <2>5, SizesAssumption, SMT DEF PteIndex, PageIndex
    <3> QED
      BY <1>2, <3>1 DEF LoadSegment, Protected, InPages
  <2> QED
    BY <2>4, <2>5 DEF KernelIntact
<1>3. ASSUME NEW p \in PageIndex, UserStores(p) PROVE KernelIntact'
  <2>1. ASSUME NEW o \in MemIndex, o \notin Window PROVE mem'[o] = mem[o]
    <3>1. o \in Nat
      BY SizesAssumption, SMT DEF MemIndex
    <3>2. ~(o < (p + 1) * PageSize)
      BY <2>1, <3>1, PageInWindow
    <3> QED
      BY <1>3, <3>2 DEF UserStores
  <2> QED
    BY <1>3, <2>1 DEF UserStores, KernelIntact
<1>4. ASSUME UNCHANGED <<mem, pt>> PROVE KernelIntact'
  BY <1>4 DEF KernelIntact
<1> QED
  BY <1>1, <1>2, <1>3, <1>4
  DEF Next, RejectHeader, SkipSegment, RejectSegment, Finish, vars

(* No load ever stores outside mantle_user_memory or the user page table. *)
THEOREM KernelConfined == Spec => []KernelIntact
<1>1. Init => KernelIntact
  BY SMT DEF Init, KernelIntact
<1> QED
  BY <1>1, StepKernelIntact, TypeCorrect, PTL DEF Spec

(* A step keeps W^X: the segment loaded is not W+X, and its permissions     *)
(* replace those of the pages it touches.                                   *)
LEMMA StepPageWX == TypeOK /\ PageWXExclusive /\ [Next]_vars => PageWXExclusive'
<1> SUFFICES ASSUME TypeOK, PageWXExclusive, [Next]_vars PROVE PageWXExclusive'
  OBVIOUS
<1>0. PageIndex \subseteq PteIndex
  BY SizesAssumption, TimesMono, SMT DEF PageIndex, PteIndex, UserLimit, WindowSize
<1>1. ASSUME NEW f \in Files, AcceptHeader(f) PROVE PageWXExclusive'
  BY <1>0, <1>1, SMT DEF AcceptHeader, ResetTable, PageWXExclusive, ReadWrite, NoAccess
<1>2. CASE LoadSegment
  <2>1. ~({"W", "X"} \subseteq Segment.flags)
    BY <1>2 DEF LoadSegment, SegmentOk
  <2>2. ASSUME NEW p \in PteIndex, "W" \in Permissions(Segment, pt[p])
        PROVE  "NX" \in Permissions(Segment, pt[p])
    BY <2>1, <2>2, SMT DEF Permissions
  <2> QED
    BY <1>0, <1>2, <2>2 DEF LoadSegment, Protected, PageWXExclusive
<1>3. ASSUME UNCHANGED pt PROVE PageWXExclusive'
  BY <1>3 DEF PageWXExclusive
<1> QED
  BY <1>1, <1>2, <1>3
  DEF Next, RejectHeader, SkipSegment, RejectSegment, Finish, UserStores, vars

(* No page of the user window is ever both writable and executable. *)
THEOREM WriteXorExecute == Spec => []PageWXExclusive
<1>1. Init => PageWXExclusive
  <2>1. PageIndex \subseteq PteIndex
    BY SizesAssumption, SMT DEF PageIndex, PteIndex, UserLimit, WindowSize
  <2> QED
    BY <2>1, SMT DEF Init, PageWXExclusive, NoAccess
<1> QED
  BY <1>1, StepPageWX, TypeCorrect, PTL DEF Spec
-----------------------------------------------------------------------------
(* A successful load can be entered.                                         *)

(* The quotient of a division by a positive number. *)
LEMMA DivFacts ==
    ASSUME NEW x \in Nat, NEW k \in Nat \ {0}
    PROVE  /\ x \div k \in Nat
           /\ (x \div k) * k <= x
           /\ x < (x \div k + 1) * k
  BY SMT

(* Between two multiples there is no third. *)
LEMMA TimesCancel ==
    ASSUME NEW a \in Nat, NEW b \in Nat, NEW k \in Nat \ {0}, a * k < b * k
    PROVE  a < b
  BY SMT

(* A page whose entry the loader rewrites for a segment holds a byte of it. *)
LEMMA PagesTouched ==
    ASSUME NEW e \in ElfImage, NEW s \in Phdr, SegmentOk(e, s),
           NEW p \in PageIndex, InPages(s, p)
    PROVE  Touches(s, p)
<1> DEFINE d == Dest(s)
<1>1. /\ d = s.vaddr - UserBase /\ d \in Nat
      /\ s.vaddr \in Nat /\ s.memsz \in Nat /\ s.memsz # 0
      /\ FirstPage(s) \in Nat /\ LastPage(s) \in Nat
  BY SegmentFits, SMT DEF Phdr, SegmentOk
<1>2. p \in Nat /\ p * PageSize \in Nat /\ PageSize \in Nat \ {0} /\ UserBase \in Nat
  BY SizesAssumption, SMT DEF PageIndex
<1>3. d < (p + 1) * PageSize
  <2>1. d < (FirstPage(s) + 1) * PageSize
    BY <1>1, <1>2, DivFacts DEF FirstPage
  <2>2. (FirstPage(s) + 1) * PageSize <= (p + 1) * PageSize
    <3>1. FirstPage(s) + 1 \in Nat /\ p + 1 \in Nat /\ FirstPage(s) + 1 <= p + 1
      BY <1>1, <1>2, SMT DEF InPages
    <3> QED
      BY <3>1, <1>2, TimesMono
  <2>3. /\ (FirstPage(s) + 1) * PageSize \in Nat
        /\ (p + 1) * PageSize \in Nat
    BY <1>1, <1>2, SMT
  <2> HIDE DEF d
  <2> QED
    BY <1>1, <2>1, <2>2, <2>3, SMT
<1>4. p * PageSize < d + s.memsz
  <2>1. p + 1 \in Nat /\ p + 1 <= LastPage(s)
    BY <1>1, <1>2, SMT DEF InPages
  <2>2. (p + 1) * PageSize <= LastPage(s) * PageSize
    BY <1>1, <1>2, <2>1, TimesMono
  <2>3. LastPage(s) * PageSize <= d + s.memsz + PageSize - 1
    <3>1. d + s.memsz + PageSize - 1 \in Nat
      BY <1>1, <1>2, SMT
    <3> QED
      BY <1>2, <3>1, DivFacts DEF LastPage
  <2>4. (p + 1) * PageSize = p * PageSize + PageSize /\ LastPage(s) * PageSize \in Nat
    BY <1>1, <1>2, SMT
  <2> HIDE DEF d
  <2> QED
    BY <1>1, <1>2, <2>2, <2>3, <2>4, SMT
<1> DEFINE o == IF d >= p * PageSize THEN d ELSE p * PageSize
<1>5. (p + 1) * PageSize = p * PageSize + PageSize
  BY <1>2, SMT
<1>6. /\ o \in p * PageSize .. (p + 1) * PageSize - 1
      /\ s.vaddr <= UserBase + o
      /\ UserBase + o < s.vaddr + s.memsz
  <2> HIDE DEF d
  <2> QED
    BY <1>1, <1>2, <1>3, <1>4, <1>5, SMT
<1> QED
  BY <1>6 DEF Touches

(* The entry point lies in a page whose entry the segment holding it sets. *)
LEMMA EntryPage ==
    ASSUME NEW e \in ElfImage, NEW s \in Phdr, SegmentOk(e, s), EntryInside(e, s)
    PROVE  /\ (e.entry - UserBase) \div PageSize \in PageIndex
           /\ InPages(s, (e.entry - UserBase) \div PageSize)
<1> DEFINE x == e.entry - UserBase
           q == x \div PageSize
<1>1. /\ Dest(s) = s.vaddr - UserBase /\ Dest(s) \in Nat
      /\ s.vaddr \in Nat /\ s.memsz \in Nat /\ e.entry \in Nat
      /\ FirstPage(s) \in Nat /\ LastPage(s) \in Nat /\ LastPage(s) <= NPages
  BY SegmentFits, SMT DEF Phdr, ElfImage
<1>2. PageSize \in Nat \ {0} /\ UserBase \in Nat /\ NPages \in Nat
  BY SizesAssumption
<1>3. x \in Nat /\ Dest(s) <= x /\ x < Dest(s) + s.memsz
  BY <1>1, <1>2, SMT DEF EntryInside
<1> HIDE DEF x
<1>4. q \in Nat /\ q * PageSize <= x /\ x < (q + 1) * PageSize
  BY <1>2, <1>3, DivFacts
<1> HIDE DEF q
<1>5. FirstPage(s) <= q
  <2>1. FirstPage(s) * PageSize <= Dest(s)
    BY <1>1, <1>2, DivFacts DEF FirstPage
  <2>2. FirstPage(s) * PageSize \in Nat /\ (q + 1) * PageSize \in Nat /\ q + 1 \in Nat
    BY <1>1, <1>2, <1>4, SMT
  <2>3. FirstPage(s) * PageSize < (q + 1) * PageSize
    BY <1>1, <1>3, <1>4, <2>1, <2>2, SMT
  <2>4. FirstPage(s) < q + 1
    BY <1>1, <1>2, <2>2, <2>3, TimesCancel
  <2> QED
    BY <1>1, <1>4, <2>4, SMT
<1>6. q < LastPage(s)
  <2> DEFINE y == Dest(s) + s.memsz + PageSize - 1
  <2>1. y \in Nat
    BY <1>1, <1>2, SMT
  <2>2. y < (LastPage(s) + 1) * PageSize
    BY <1>2, <2>1, DivFacts DEF LastPage
  <2>3. /\ q * PageSize \in Nat /\ LastPage(s) * PageSize \in Nat
        /\ (LastPage(s) + 1) * PageSize = LastPage(s) * PageSize + PageSize
    BY <1>1, <1>2, <1>4, SMT
  <2>4. q * PageSize < LastPage(s) * PageSize
    BY <1>1, <1>2, <1>3, <1>4, <2>2, <2>3, SMT
  <2> QED
    BY <1>1, <1>2, <1>4, <2>4, TimesCancel
<1>7. q \in PageIndex
  BY <1>1, <1>2, <1>4, <1>6, SMT DEF PageIndex
<1> QED
  BY <1>5, <1>6, <1>7 DEF InPages, q, x
(* The permissions given to a page do not depend on the ones it had. *)
LEMMA PermissionsOverwrite ==
    ASSUME NEW s, NEW old PROVE Permissions(s, old) = Permissions(s, {})
  BY DEF Permissions

(* A step keeps the inductive invariant. *)
LEMMA StepLastWriter ==
    TypeOK /\ LastWriterProtects /\ [Next]_vars => LastWriterProtects'
<1> SUFFICES ASSUME TypeOK, LastWriterProtects, [Next]_vars
             PROVE  LastWriterProtects'
  OBVIOUS
<1>0. /\ index \in Nat /\ Len(Elf[file].phdrs) \in Nat
      /\ \A i \in LoadSegments(file) : i \in Nat /\ i # 0 /\ i <= Len(Elf[file].phdrs)
  <2>1. Elf[file].phdrs \in Seq(Phdr)
    BY SegmentTyped, SMT DEF ElfImage
  <2> QED
    BY <2>1, SegmentTyped, SMT DEF TypeOK, LoadSegments
<1>1. ASSUME NEW f \in Files, RejectHeader(f) PROVE LastWriterProtects'
  BY <1>1 DEF RejectHeader, LastWriterProtects
<1>2. ASSUME NEW f \in Files, AcceptHeader(f) PROVE LastWriterProtects'
  <2>1. Elf[f].phdrs \in Seq(Phdr)
    BY FilesAssumption, SMT DEF ElfImage
  <2>2. \A i \in LoadSegments(f) : i \in Nat /\ ~(i < 1)
    BY <2>1, SMT DEF LoadSegments
  <2>3. file' = f /\ index' = 1 /\ entryValid' = FALSE /\ result' = "none"
    BY <1>2 DEF AcceptHeader
  <2> QED
    BY <2>2, <2>3, Zenon DEF LastWriterProtects, LoadSegments
<1>3. CASE SkipSegment
  <2>1. index \notin LoadSegments(file)
    BY <1>3 DEF SkipSegment, Segment, LoadSegments
  <2>2. /\ pc = "segments" /\ index <= Len(Elf[file].phdrs)
        /\ index' = index + 1
        /\ UNCHANGED <<pc, file, entryValid, result, pt>>
    BY <1>3 DEF SkipSegment, InLoop
  <2>3. \A i \in LoadSegments(file) : i < index + 1 <=> i < index
    BY <1>0, <2>1, SMT
  <2>4. result # "ok"
    BY <1>0, <2>2, SMT DEF LastWriterProtects
  <2> QED
    BY <2>2, <2>3, <2>4 DEF LastWriterProtects, LoadSegments
<1>4. CASE RejectSegment
  BY <1>4 DEF RejectSegment, LastWriterProtects
<1>5. CASE LoadSegment
  <2> DEFINE s(i) == Elf[file].phdrs[i]
  <2>1. /\ pc = "segments" /\ index <= Len(Elf[file].phdrs)
        /\ Segment = s(index) /\ SegmentOk(Elf[file], s(index))
        /\ s(index).type = "LOAD"
        /\ index' = index + 1
        /\ UNCHANGED <<pc, file, result>>
        /\ entryValid' = (entryValid \/ EntryInside(Elf[file], s(index)))
        /\ pt' = Protected(s(index))
    BY <1>5 DEF LoadSegment, InLoop, Segment
  <2>2. index \in LoadSegments(file)
    BY <1>0, <2>1, SegmentTyped, SMT DEF LoadSegments, TypeOK, ElfImage
  <2>3. \A i \in LoadSegments(file) : i < index + 1 <=> i < index \/ i = index
    BY <1>0, SMT
  <2>4. result # "ok"
    BY <1>0, <2>1, SMT DEF LastWriterProtects
  <2>5. PageIndex \subseteq PteIndex
    BY SizesAssumption, SMT DEF PageIndex, PteIndex, UserLimit, WindowSize
  <2>6. \A p \in PageIndex :
          pt'[p] = IF InPages(s(index), p) THEN Permissions(s(index), {}) ELSE pt[p]
    BY <2>1, <2>5, PermissionsOverwrite DEF Protected
  <2>7. ASSUME NEW i \in LoadSegments(file), i < index + 1
        PROVE  /\ SegmentOk(Elf[file], s(i))
               /\ \A p \in PageIndex :
                     /\ InPages(s(i), p)
                     /\ \A j \in LoadSegments(file) :
                           i < j /\ j < index + 1 => ~InPages(s(j), p)
                     => pt'[p] = Permissions(s(i), {})
    <3>1. CASE i = index
      BY <2>1, <2>6, <3>1
    <3>2. CASE i < index
      <4>1. SegmentOk(Elf[file], s(i))
        BY <2>1, <3>2 DEF LastWriterProtects
      <4>2. ASSUME NEW p \in PageIndex, InPages(s(i), p),
                   \A j \in LoadSegments(file) :
                       i < j /\ j < index + 1 => ~InPages(s(j), p)
            PROVE  pt'[p] = Permissions(s(i), {})
        <5>1. ~InPages(s(index), p)
          BY <1>0, <2>2, <2>3, <3>2, <4>2
        <5>2. \A j \in LoadSegments(file) : i < j /\ j < index => ~InPages(s(j), p)
          BY <2>3, <4>2
        <5>3. pt[p] = Permissions(s(i), {})
          BY <2>1, <3>2, <4>2, <5>2 DEF LastWriterProtects
        <5> QED
          BY <2>6, <5>1, <5>3
      <4> QED
        BY <4>1, <4>2
    <3> QED
      BY <2>3, <2>7, <3>1, <3>2
  <2>8. ASSUME entryValid'
        PROVE  \E i \in LoadSegments(file) : i < index + 1 /\ EntryInside(Elf[file], s(i))
    <3>1. CASE entryValid
      <4>1. PICK i \in LoadSegments(file) : i < index /\ EntryInside(Elf[file], s(i))
        BY <2>1, <3>1 DEF LastWriterProtects
      <4> QED
        BY <2>3, <4>1
    <3>2. CASE EntryInside(Elf[file], s(index))
      BY <2>2, <2>3, <3>2
    <3> QED
      BY <2>1, <2>8, <3>1, <3>2
  <2> QED
    BY <2>1, <2>4, <2>7, <2>8 DEF LastWriterProtects, LoadSegments
<1>6. CASE Finish
  <2>1. /\ pc = "segments" /\ index > Len(Elf[file].phdrs)
        /\ result' = "ok" => entryValid
        /\ pc' = "idle"
        /\ UNCHANGED <<file, index, entryValid, pt>>
    BY <1>6 DEF Finish
  <2> QED
    BY <2>1 DEF LastWriterProtects, LoadSegments
<1>7. ASSUME NEW p \in PageIndex, UserStores(p) PROVE LastWriterProtects'
  BY <1>7 DEF UserStores, LastWriterProtects
<1>8. CASE UNCHANGED vars
  BY <1>8 DEF vars, LastWriterProtects, LoadSegments
<1> QED
  BY <1>1, <1>2, <1>3, <1>4, <1>5, <1>6, <1>7, <1>8 DEF Next

(* The inductive invariant gives the property. *)
LEMMA LastWriterEntry == TypeOK /\ LastWriterProtects => EntryExecutable
<1> SUFFICES ASSUME TypeOK, LastWriterProtects, result = "ok", PageDisjoint(file)
             PROVE  "NX" \notin pt[(Elf[file].entry - UserBase) \div PageSize]
  BY DEF EntryExecutable
<1> DEFINE s(i) == Elf[file].phdrs[i]
           q == (Elf[file].entry - UserBase) \div PageSize
<1>1. Elf[file] \in ElfImage /\ \A i \in LoadSegments(file) : s(i) \in Phdr
  <2>1. Elf[file].phdrs \in Seq(Phdr)
    BY SegmentTyped, SMT DEF ElfImage
  <2> QED
    BY <2>1, SegmentTyped, SMT DEF LoadSegments
<1>2. PICK i \in LoadSegments(file) : i < index /\ EntryInside(Elf[file], s(i))
  BY DEF LastWriterProtects
<1>3. \A j \in LoadSegments(file) : j < index => SegmentOk(Elf[file], s(j))
  BY DEF LastWriterProtects
<1>4. q \in PageIndex /\ InPages(s(i), q)
  BY <1>1, <1>2, <1>3, EntryPage
<1> HIDE DEF q
<1>5. ASSUME NEW j \in LoadSegments(file), i < j, j < index PROVE ~InPages(s(j), q)
  <2>1. Touches(s(i), q)
    BY <1>1, <1>2, <1>3, <1>4, PagesTouched
  <2>2. ~Touches(s(j), q)
    BY <1>4, <1>5, <2>1 DEF PageDisjoint
  <2> QED
    BY <1>1, <1>3, <1>4, <1>5, <2>2, PagesTouched
<1>6. pt[q] = Permissions(s(i), {})
  BY <1>2, <1>4, <1>5 DEF LastWriterProtects
<1>7. "X" \in s(i).flags
  BY <1>2 DEF EntryInside
<1>8. "NX" \notin Permissions(s(i), {})
  BY <1>7, SMT DEF Permissions
<1> QED
  BY <1>6, <1>8 DEF q

(* A load that succeeds on a file whose segments share no page can be       *)
(* entered: its entry point is in an executable page.                       *)
THEOREM EntryReachable == Spec => []EntryExecutable
<1>1. Init => LastWriterProtects
  BY DEF Init, LastWriterProtects
<1> QED
  BY <1>1, StepLastWriter, LastWriterEntry, TypeCorrect, PTL DEF Spec
-----------------------------------------------------------------------------
(* A successful load built the image its headers describe.                   *)

(* What a segment says of a byte of the window. *)
Covers(s, o) == s.vaddr <= UserBase + o /\ UserBase + o < s.vaddr + s.memsz
ByteOf(f, s, o) ==
    IF UserBase + o < s.vaddr + s.filesz THEN FileByte(f, s.offset + ((UserBase + o) - s.vaddr)) ELSE Zero
Fresh(p) == IF p >= StackFirst THEN ReadWrite ELSE NoAccess

(* The inductive form of LoadedImage: after the headers before index, a byte  *)
(* that none of them covers is zero and a page none of them touches is as     *)
(* reset; a byte is what the last of them that covers it says.                *)
BytesSoFar ==
    \A o \in Window :
        /\ (\A i \in LoadSegments(file) : i < index => ~Covers(Elf[file].phdrs[i], o)) => mem[o] = Zero
        /\ \A i \in LoadSegments(file) :
              /\ i < index /\ Covers(Elf[file].phdrs[i], o)
              /\ \A j \in LoadSegments(file) : i < j /\ j < index => ~Covers(Elf[file].phdrs[j], o)
              => mem[o] = ByteOf(file, Elf[file].phdrs[i], o)
PagesSoFar ==
    \A p \in PageIndex :
        (\A i \in LoadSegments(file) : i < index => ~InPages(Elf[file].phdrs[i], p)) => pt[p] = Fresh(p)
ImageSoFar == pc = "segments" \/ result = "ok" => BytesSoFar /\ PagesSoFar

(* A non-empty set of numbers up to a bound has a largest one. *)
LEMMA LastOfFacts ==
    ASSUME NEW n \in Nat, NEW S \in SUBSET (1 .. n), S # {}
    PROVE  LastOf(S) \in S /\ \A j \in S : j <= LastOf(S)
<1> DEFINE T == {n - i : i \in S}
           R == OpToRel(<, Nat)
<1>1. IsWellFoundedOn(R, Nat)
  BY NatLessThanWellFounded
<1>2. \A x, y \in Nat : y < x => <<y, x>> \in R
  BY DEF OpToRel
<1> HIDE DEF R
<1>3. T \subseteq Nat /\ T # {}
  <2>1. \A i \in S : n - i \in Nat
    <3>1. \A i \in S : i \in 1 .. n
      OBVIOUS
    <3> QED
      BY <3>1
  <2>2. PICK i \in S : TRUE
    OBVIOUS
  <2>3. n - i \in T
    OBVIOUS
  <2> QED
    BY <2>1, <2>3
<1> HIDE DEF T
<1>4. \E x \in T : \A y \in T : ~(<<y, x>> \in R)
  BY <1>1, <1>3, WFMin
<1>5. PICK x \in T : \A y \in T : ~(<<y, x>> \in R)
  BY <1>4
<1>6. \A y \in T : x <= y
  <2>1. \A y \in T : x \in Nat /\ y \in Nat /\ ~(y < x)
    BY <1>2, <1>3, <1>5
  <2> QED
    BY <2>1
<1>7. PICK i \in S : x = n - i
  BY DEF T
<1>8. ASSUME NEW j \in S PROVE j <= i
  <2>1. n - j \in T
    BY DEF T
  <2>2. n - i <= n - j
    BY <1>6, <1>7, <2>1
  <2>3. i \in 1 .. n /\ j \in 1 .. n
    OBVIOUS
  <2> QED
    BY <2>2, <2>3
<1> QED
  BY <1>8, Zenon DEF LastOf

(* One segment is stored where it says, and nothing else changes. *)
LEMMA StoredAt ==
    ASSUME NEW f, NEW e \in ElfImage, NEW s \in Phdr, SegmentOk(e, s), NEW o \in Window
    PROVE  Stored(f, s)[o] = IF Covers(s, o) THEN ByteOf(f, s, o) ELSE mem[o]
<1> DEFINE d == Dest(s)
<1>1. /\ d = s.vaddr - UserBase /\ d \in Nat /\ s.filesz <= s.memsz
      /\ s.vaddr \in Nat /\ s.memsz \in Nat /\ s.filesz \in Nat
  BY SegmentFits DEF Phdr
<1>2. o \in Nat /\ o \in MemIndex /\ UserBase \in Nat
  BY SizesFacts, SizesAssumption DEF Window, MemIndex
<1>3. Stored(f, s)[o] =
        IF d <= o /\ o < d + s.filesz THEN FileByte(f, s.offset + (o - d))
        ELSE IF d + s.filesz <= o /\ o < d + s.memsz THEN Zero ELSE mem[o]
  BY <1>2 DEF Stored
<1> HIDE DEF d
<1>4. /\ o - d = (UserBase + o) - s.vaddr
      /\ Covers(s, o) <=> (d <= o /\ o < d + s.memsz)
      /\ (UserBase + o < s.vaddr + s.filesz) <=> o < d + s.filesz
  BY <1>1, <1>2 DEF Covers
<1>5. CASE d <= o /\ o < d + s.filesz
  <2>1. Covers(s, o) /\ UserBase + o < s.vaddr + s.filesz
    BY <1>1, <1>2, <1>4, <1>5
  <2> QED
    BY <1>3, <1>4, <1>5, <2>1 DEF ByteOf
<1>6. CASE d + s.filesz <= o /\ o < d + s.memsz
  <2>1. Covers(s, o) /\ ~(UserBase + o < s.vaddr + s.filesz) /\ ~(o < d + s.filesz)
    BY <1>1, <1>2, <1>4, <1>6
  <2> QED
    BY <1>3, <1>6, <2>1 DEF ByteOf
<1>7. CASE ~(d <= o /\ o < d + s.filesz) /\ ~(d + s.filesz <= o /\ o < d + s.memsz)
  <2>1. ~Covers(s, o)
    BY <1>1, <1>2, <1>4, <1>7
  <2> QED
    BY <1>3, <1>7, <2>1
<1> QED
  BY <1>5, <1>6, <1>7

(* A page that holds a byte of an accepted segment is one the loader          *)
(* protects for it.                                                           *)
LEMMA TouchedPages ==
    ASSUME NEW e \in ElfImage, NEW s \in Phdr, SegmentOk(e, s), NEW p \in PageIndex, Touches(s, p)
    PROVE  InPages(s, p)
<1> DEFINE d == Dest(s)
           first == FirstPage(s)
           last == LastPage(s)
           a == p * PageSize
<1>1. /\ d = s.vaddr - UserBase /\ d \in Nat /\ s.vaddr \in Nat /\ s.memsz \in Nat
      /\ first \in Nat /\ last \in Nat
  BY SegmentFits DEF Phdr
<1>2. p \in Nat /\ a \in Nat /\ PageSize \in Nat \ {0} /\ UserBase \in Nat
      /\ (p + 1) * PageSize = a + PageSize /\ (p + 1) * PageSize \in Nat
  BY SizesAssumption, SMT DEF PageIndex
<1>3. PICK o \in a .. (p + 1) * PageSize - 1 : s.vaddr <= UserBase + o /\ UserBase + o < s.vaddr + s.memsz
  BY DEF Touches
<1>4. o \in Nat /\ a <= o /\ o < a + PageSize /\ d <= o /\ o < d + s.memsz
  <2> HIDE DEF a, d
  <2> QED
    BY <1>1, <1>2, <1>3
<1>5. first <= p
  <2>1. first * PageSize <= d
    BY <1>1, <1>2, DivFacts DEF FirstPage
  <2>2. first * PageSize \in Nat /\ p + 1 \in Nat
    BY <1>1, <1>2, SMT
  <2>3. first * PageSize < (p + 1) * PageSize
    <3> HIDE DEF d, first, a
    <3> QED
      BY <1>1, <1>2, <1>4, <2>1, <2>2
  <2>4. first < p + 1
    BY <1>1, <1>2, <2>2, <2>3, TimesCancel
  <2> HIDE DEF first
  <2> QED
    BY <1>1, <1>2, <2>4
<1>6. p < last
  <2> DEFINE y == d + s.memsz + PageSize - 1
  <2>1. y \in Nat
    BY <1>1, <1>2
  <2>2. y < (last + 1) * PageSize
    BY <1>2, <2>1, DivFacts DEF LastPage
  <2>3. last * PageSize \in Nat /\ (last + 1) * PageSize = last * PageSize + PageSize
    BY <1>1, <1>2, SMT
  <2>4. a < last * PageSize
    <3> DEFINE z == last * PageSize
    <3>1. y = d + s.memsz + PageSize - 1 /\ y < z + PageSize /\ z \in Nat
      BY <2>2, <2>3
    <3> HIDE DEF z, y, d, a, last
    <3>2. a < z
      BY <1>1, <1>2, <1>4, <3>1
    <3> QED
      BY <3>2 DEF z
  <2> QED
    BY <1>1, <1>2, <2>4, TimesCancel
<1> QED
  BY <1>5, <1>6 DEF InPages

(* A step keeps the inductive form. *)
LEMMA StepImageSoFar ==
    ASSUME TypeOK, LastWriterProtects, ImageSoFar, [Next]_vars
    PROVE  ImageSoFar'
<1>0. /\ index \in Nat /\ Len(Elf[file].phdrs) \in Nat
      /\ \A i \in LoadSegments(file) : i \in Nat /\ i # 0 /\ i <= Len(Elf[file].phdrs)
  <2>1. Elf[file].phdrs \in Seq(Phdr)
    BY SegmentTyped, SMT DEF ElfImage
  <2> QED
    BY <2>1, SegmentTyped, SMT DEF TypeOK, LoadSegments
<1>a. PageIndex \subseteq PteIndex /\ Window \subseteq MemIndex
  BY SizesFacts, SizesAssumption, SMT DEF PageIndex, PteIndex, UserLimit, WindowSize, Window, MemIndex
<1>1. ASSUME NEW f \in Files, RejectHeader(f) PROVE ImageSoFar'
  BY <1>1 DEF RejectHeader, ImageSoFar
<1>2. ASSUME NEW f \in Files, AcceptHeader(f) PROVE ImageSoFar'
  <2>1. Elf[f].phdrs \in Seq(Phdr)
    BY FilesAssumption, SMT DEF ElfImage
  <2>2. \A i \in LoadSegments(f) : i \in Nat /\ ~(i < 1)
    BY <2>1, SMT DEF LoadSegments
  <2>3. file' = f /\ index' = 1 /\ mem' = ClearedMem /\ pt' = ResetTable
    BY <1>2 DEF AcceptHeader
  <2>4. \A o \in Window : mem'[o] = Zero
    BY <1>a, <2>3 DEF ClearedMem
  <2>5. \A p \in PageIndex : pt'[p] = Fresh(p)
    BY <1>a, <2>3 DEF ResetTable, Fresh
  <2>6. BytesSoFar'
    BY <2>2, <2>3, <2>4, Zenon DEF BytesSoFar, LoadSegments
  <2>7. PagesSoFar'
    BY <2>5, Zenon DEF PagesSoFar, Fresh
  <2> QED
    BY <2>6, <2>7 DEF ImageSoFar
<1>3. CASE SkipSegment
  <2>1. index \notin LoadSegments(file)
    BY <1>3 DEF SkipSegment, Segment, LoadSegments
  <2>2. /\ pc = "segments" /\ index' = index + 1
        /\ UNCHANGED <<file, mem, pt>>
    BY <1>3 DEF SkipSegment, InLoop
  <2>3. \A i \in LoadSegments(file) : i < index + 1 <=> i < index
    BY <1>0, <2>1, SMT
  <2>4. BytesSoFar /\ PagesSoFar
    BY <2>2 DEF ImageSoFar
  <2>5. LoadSegments(file)' = LoadSegments(file)
    BY <2>2 DEF LoadSegments
  <2>6. BytesSoFar' /\ PagesSoFar'
    BY <2>2, <2>3, <2>4, <2>5 DEF BytesSoFar, PagesSoFar
  <2> QED
    BY <2>6 DEF ImageSoFar
<1>4. CASE RejectSegment
  BY <1>4 DEF RejectSegment, ImageSoFar
<1>5. CASE LoadSegment
  <2> DEFINE L == LoadSegments(file)
             s(i) == Elf[file].phdrs[i]
  <2>1. /\ pc = "segments" /\ Segment = s(index) /\ SegmentOk(Elf[file], s(index))
        /\ s(index).type = "LOAD" /\ index' = index + 1 /\ file' = file
        /\ mem' = Stored(file, s(index)) /\ pt' = Protected(s(index))
        /\ s(index) \in Phdr /\ Elf[file] \in ElfImage
    BY <1>5, SegmentTyped DEF LoadSegment, InLoop, Segment
  <2>2. index \in L
    BY <1>0, <1>5, <2>1, SegmentTyped, SMT DEF LoadSegments, TypeOK, ElfImage, LoadSegment, InLoop
  <2>3. \A i \in L : i < index + 1 <=> i < index \/ i = index
    BY <1>0, SMT
  <2>4. BytesSoFar /\ PagesSoFar
    BY <2>1 DEF ImageSoFar
  <2>5. LoadSegments(file)' = L /\ \A i : s(i)' = s(i)
    BY <2>1 DEF LoadSegments
  <2>6. \A o \in Window : mem'[o] = IF Covers(s(index), o) THEN ByteOf(file, s(index), o) ELSE mem[o]
    BY <2>1, StoredAt
  <2>7. \A p \in PageIndex : ~InPages(s(index), p) => pt'[p] = pt[p]
    BY <1>a, <2>1 DEF Protected
  <2>8. BytesSoFar'
    <3> SUFFICES ASSUME NEW o \in Window
                 PROVE  /\ (\A i \in L : i < index + 1 => ~Covers(s(i), o)) => mem'[o] = Zero
                        /\ \A i \in L :
                              /\ i < index + 1 /\ Covers(s(i), o)
                              /\ \A j \in L : i < j /\ j < index + 1 => ~Covers(s(j), o)
                              => mem'[o] = ByteOf(file, s(i), o)
      BY <2>1, <2>5 DEF BytesSoFar
    <3>1. ASSUME \A i \in L : i < index + 1 => ~Covers(s(i), o) PROVE mem'[o] = Zero
      <4>1. ~Covers(s(index), o) /\ \A i \in L : i < index => ~Covers(s(i), o)
        BY <2>2, <2>3, <3>1
      <4>2. mem[o] = Zero
        BY <2>4, <4>1 DEF BytesSoFar
      <4> QED
        BY <2>6, <4>1, <4>2
    <3>2. ASSUME NEW i \in L, i < index + 1, Covers(s(i), o),
                 \A j \in L : i < j /\ j < index + 1 => ~Covers(s(j), o)
          PROVE  mem'[o] = ByteOf(file, s(i), o)
      <4>1. CASE i = index
        BY <2>6, <3>2, <4>1
      <4>2. CASE i # index
        <5>1. i < index
          BY <2>3, <3>2, <4>2
        <5>2. ~Covers(s(index), o) /\ \A j \in L : i < j /\ j < index => ~Covers(s(j), o)
          BY <2>2, <2>3, <3>2, <5>1
        <5>3. mem[o] = ByteOf(file, s(i), o)
          BY <2>4, <3>2, <5>1, <5>2 DEF BytesSoFar
        <5> QED
          BY <2>6, <5>2, <5>3
      <4> QED
        BY <4>1, <4>2
    <3> QED
      BY <3>1, <3>2
  <2>9. PagesSoFar'
    <3> SUFFICES ASSUME NEW p \in PageIndex, \A i \in L : i < index + 1 => ~InPages(s(i), p)
                 PROVE  pt'[p] = Fresh(p)
      BY <2>1, <2>5 DEF PagesSoFar, Fresh
    <3>1. ~InPages(s(index), p) /\ \A i \in L : i < index => ~InPages(s(i), p)
      BY <2>2, <2>3
    <3>2. pt[p] = Fresh(p)
      BY <2>4, <3>1 DEF PagesSoFar
    <3> QED
      BY <2>7, <3>1, <3>2
  <2> QED
    BY <2>8, <2>9 DEF ImageSoFar
<1>6. CASE Finish
  <2>1. BytesSoFar /\ PagesSoFar /\ UNCHANGED <<file, index, mem, pt>>
    BY <1>6 DEF Finish, ImageSoFar
  <2>2. BytesSoFar' /\ PagesSoFar'
    BY <2>1 DEF BytesSoFar, PagesSoFar, LoadSegments
  <2> QED
    BY <2>2 DEF ImageSoFar
<1>7. ASSUME NEW p \in PageIndex, UserStores(p) PROVE ImageSoFar'
  BY <1>7 DEF UserStores, ImageSoFar
<1>8. CASE UNCHANGED vars
  BY <1>8 DEF vars, ImageSoFar, BytesSoFar, PagesSoFar, LoadSegments
<1> QED
  BY <1>1, <1>2, <1>3, <1>4, <1>5, <1>6, <1>7, <1>8 DEF Next

(* At the end all headers are behind the loop. *)
LEMMA ImageComplete ==
    ASSUME TypeOK, LastWriterProtects, ImageSoFar
    PROVE  LoadedImage
<1> SUFFICES ASSUME result = "ok"
             PROVE  /\ \A o \in Window : mem[o] = ByteAt(file, o)
                    /\ \A p \in PageIndex : pt[p] = PteAt(file, p)
  BY DEF LoadedImage
<1> DEFINE L == LoadSegments(file)
           s(i) == Elf[file].phdrs[i]
           n == Len(Elf[file].phdrs)
<1>1. /\ Elf[file] \in ElfImage /\ n \in Nat /\ L \subseteq 1 .. n
      /\ \A i \in L : s(i) \in Phdr
  <2>1. Elf[file].phdrs \in Seq(Phdr)
    BY SegmentTyped, SMT DEF ElfImage
  <2> QED
    BY <2>1, SegmentTyped, SMT DEF LoadSegments
<1>2. \A i \in L : i < index /\ SegmentOk(Elf[file], s(i))
  <2>1. index > n /\ index \in Nat
    BY DEF LastWriterProtects, TypeOK
  <2>2. \A i \in L : i < index
    BY <1>1, <2>1
  <2> QED
    BY <2>2 DEF LastWriterProtects
<1>3. BytesSoFar /\ PagesSoFar
  BY DEF ImageSoFar
<1>4. ASSUME NEW o \in Window PROVE mem[o] = ByteAt(file, o)
  <2> DEFINE S == {i \in L : s(i).vaddr <= UserBase + o /\ UserBase + o < s(i).vaddr + s(i).memsz}
             k == LastOf(S)
  <2>1. ByteAt(file, o) =
          IF S # {} /\ UserBase + o < s(k).vaddr + s(k).filesz
          THEN FileByte(file, s(k).offset + ((UserBase + o) - s(k).vaddr)) ELSE Zero
    BY DEF ByteAt
  <2>2. \A i \in L : i \in S <=> Covers(s(i), o)
    BY DEF Covers
  <2>3. S \in SUBSET (1 .. n) /\ S \subseteq L
    BY <1>1
  <2> HIDE DEF S
  <2>4. CASE S = {}
    <3>1. mem[o] = Zero
      BY <1>3, <2>2, <2>4 DEF BytesSoFar
    <3> QED
      BY <2>1, <2>4, <3>1
  <2>5. CASE S # {}
    <3>1. k \in S /\ \A j \in S : j <= k
      BY <1>1, <2>3, <2>5, LastOfFacts
    <3> HIDE DEF k
    <3>2. k \in L /\ k < index /\ Covers(s(k), o)
      BY <1>2, <2>2, <2>3, <3>1
    <3>3. \A j \in L : k < j => ~Covers(s(j), o)
      BY <1>1, <2>2, <3>1, <3>2
    <3>4. mem[o] = ByteOf(file, s(k), o)
      BY <1>3, <3>2, <3>3 DEF BytesSoFar
    <3> QED
      BY <2>1, <2>5, <3>4 DEF ByteOf, k
  <2> QED
    BY <2>4, <2>5
<1>5. ASSUME NEW p \in PageIndex PROVE pt[p] = PteAt(file, p)
  <2> DEFINE S == {i \in L : Touches(s(i), p)}
             k == LastOf(S)
             Perm(x) == {y \in {"W", "NX"} : IF y = "W" THEN "W" \in x.flags ELSE "X" \notin x.flags}
  <2>1. PteAt(file, p) = IF S = {} THEN Fresh(p) ELSE Perm(s(k))
    BY DEF PteAt, Fresh
  <2>2. \A i \in L : i \in S <=> InPages(s(i), p)
    BY <1>1, <1>2, PagesTouched, TouchedPages
  <2>3. S \in SUBSET (1 .. n) /\ S \subseteq L
    BY <1>1
  <2> HIDE DEF S
  <2>4. CASE S = {}
    <3>1. pt[p] = Fresh(p)
      BY <1>3, <2>2, <2>4 DEF PagesSoFar
    <3> QED
      BY <2>1, <2>4, <3>1
  <2>5. CASE S # {}
    <3>1. k \in S /\ \A j \in S : j <= k
      BY <1>1, <2>3, <2>5, LastOfFacts
    <3> HIDE DEF k
    <3>2. k \in L /\ k < index /\ InPages(s(k), p)
      BY <1>2, <2>2, <2>3, <3>1
    <3>3. \A j \in L : k < j => ~InPages(s(j), p)
      BY <1>1, <2>2, <3>1, <3>2
    <3>4. pt[p] = Permissions(s(k), {})
      BY <3>2, <3>3 DEF LastWriterProtects
    <3>5. Permissions(s(k), {}) = Perm(s(k))
      BY DEF Permissions
    <3> QED
      BY <2>1, <2>5, <3>4, <3>5 DEF k
  <2> QED
    BY <2>4, <2>5
<1> QED
  BY <1>4, <1>5

(* A load that returns 0 left exactly the bytes and the page permissions that  *)
(* the program headers describe, whatever the program before it left.          *)
THEOREM ImageExact == Spec => []LoadedImage
<1>1. Init => LastWriterProtects /\ ImageSoFar
  BY DEF Init, LastWriterProtects, ImageSoFar
<1> QED
  BY <1>1, StepLastWriter, StepImageSoFar, ImageComplete, TypeCorrect, PTL DEF Spec
=============================================================================
