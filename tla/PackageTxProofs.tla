-------------------------- MODULE PackageTxProofs --------------------------
(* Machine-checked proofs about the package manager, for any packages,        *)
(* manifests, transactions and commands, any failures and kills.              *)
EXTENDS PackageTx, SequenceTheorems, TLAPS

ProcRec == IdleRec \cup InstallRec \cup RollbackRec \cup RemoveRec

(* The first names of a manifest, as fclose leaves them in the list. *)
LEMMA PrefixFacts ==
    ASSUME NEW m \in Seq(Files), NEW n \in 0 .. Len(m)
    PROVE  /\ SubSeq(m, 1, n) \in Seq(Files)
           /\ Len(SubSeq(m, 1, n)) = n
           /\ \A j \in 1 .. n : SubSeq(m, 1, n)[j] = m[j]
           /\ n = Len(m) => SubSeq(m, 1, n) = m
  BY SubSeqProperties

(* The critical paths no manifest spells in another way. *)
Guarded == Critical \ Aliased

(* A list that holds the first names of a manifest; all of them unless the    *)
(* list file could not be written.                                            *)
Faithful(k, list, s) ==
    list \in Prefixes(Manifest[k]) /\ ("list" \notin s.faults => list = Manifest[k])

(* A list of the database: all names unless a file of the list could not be   *)
(* written or a command was killed.                                           *)
Recoverable(k, list, s) ==
    /\ list \in Prefixes(Manifest[k])
    /\ s.faults \cap {"list", "db", "kill"} = {} => list = Manifest[k]

(* The first names of the first names are the first names. *)
LEMMA PartFacts ==
    ASSUME NEW k \in Packages, NEW list \in Prefixes(Manifest[k])
    PROVE  /\ list \in Seq(Files) /\ Len(list) \in 0 .. Len(Manifest[k])
           /\ \A j \in 1 .. Len(list) : list[j] = Manifest[k][j]
           /\ Len(list) = Len(Manifest[k]) => list = Manifest[k]
           /\ Elems(list) \subseteq Targets[k]
           /\ Manifest[k] \in Prefixes(Manifest[k])
<1>1. Manifest[k] \in Seq(Files)
  BY PackageAssumption
<1>2. PICK n \in 0 .. Len(Manifest[k]) : list = SubSeq(Manifest[k], 1, n)
  BY DEF Prefixes
<1>3. /\ list \in Seq(Files) /\ Len(list) = n /\ \A j \in 1 .. n : list[j] = Manifest[k][j]
      /\ n = Len(Manifest[k]) => list = Manifest[k]
  BY <1>1, <1>2, PrefixFacts
<1>4. Elems(list) \subseteq Targets[k]
  BY <1>1, <1>3 DEF Elems, Targets
<1>5. Manifest[k] \in Prefixes(Manifest[k])
  <2>1. Len(Manifest[k]) \in 0 .. Len(Manifest[k])
    BY <1>1
  <2>2. SubSeq(Manifest[k], 1, Len(Manifest[k])) = Manifest[k]
    BY <1>1, <2>1, PrefixFacts
  <2> QED
    BY <2>1, <2>2 DEF Prefixes
<1> QED
  BY <1>3, <1>4, <1>5

LEMMA PartOfPart ==
    ASSUME NEW k \in Packages, NEW list \in Prefixes(Manifest[k]), NEW part \in Prefixes(list)
    PROVE  part \in Prefixes(Manifest[k]) /\ Elems(part) \subseteq Elems(list)
<1> DEFINE m == Manifest[k]
<1>1. m \in Seq(Files)
  BY PackageAssumption
<1>2. PICK n \in 0 .. Len(m) : list = SubSeq(m, 1, n)
  BY DEF Prefixes
<1>3. list \in Seq(Files) /\ Len(list) = n /\ \A j \in 1 .. n : list[j] = m[j]
  BY <1>1, <1>2, PrefixFacts
<1>4. PICK w \in 0 .. Len(list) : part = SubSeq(list, 1, w)
  BY DEF Prefixes
<1>5. part \in Seq(Files) /\ Len(part) = w /\ \A j \in 1 .. w : part[j] = list[j]
  BY <1>3, <1>4, PrefixFacts
<1>6. w \in 0 .. Len(m) /\ w <= n
  BY <1>1, <1>2, <1>3, <1>4
<1> DEFINE q == SubSeq(m, 1, w)
<1>7. q \in Seq(Files) /\ Len(q) = w /\ \A j \in 1 .. w : q[j] = m[j]
  BY <1>1, <1>6, PrefixFacts
<1>8. part = q
  <2> HIDE DEF q, m
  <2>1. \A j \in 1 .. w : part[j] = q[j]
    BY <1>3, <1>5, <1>6, <1>7
  <2> QED
    BY <1>5, <1>7, <2>1, SeqEqual
<1>9. Elems(part) \subseteq Elems(list)
  BY <1>3, <1>5, <1>6 DEF Elems
<1> QED
  BY <1>6, <1>8, <1>9 DEF Prefixes

(* A name that critical_path lets through is none of the guarded paths. *)
LEMMA NotGuarded ==
    ASSUME NEW k \in Packages, NEW i \in 1 .. Len(Manifest[k]), ~critical_path(k, i)
    PROVE  Manifest[k][i] \notin Guarded
<1>1. Manifest[k] \in Seq(Files) /\ i \in DOMAIN Manifest[k]
  BY PackageAssumption
<1>2. CASE i \in Plain[k]
  BY <1>2 DEF critical_path, Guarded
<1>3. CASE i \notin Plain[k]
  BY <1>1, <1>3 DEF Guarded, Aliased
<1> QED
  BY <1>2, <1>3

(* Which records stand at which point of a command. *)
LEMMA KindOfProc ==
    ASSUME TypeOK, NEW p \in Procs
    PROVE  /\ proc[p] \in ProcRec
           /\ proc[p].pc \in {"record", "copy", "save", "mark"} => proc[p] \in InstallRec
           /\ proc[p].pc = "undo" => proc[p] \in InstallRec \cup RollbackRec
           /\ proc[p].pc = "unlink" => proc[p] \in RemoveRec
           /\ proc[p].pc = "idle" => proc[p] \in IdleRec
  BY DEF TypeOK, ProcRec, IdleRec, InstallRec, RollbackRec, RemoveRec

(* A command goes on with its next file, having failed on this one or not. *)
LEMMA AdvanceFacts ==
    ASSUME TypeOK, NEW p \in Procs, Running(p), Advance(p) \/ AdvanceFailed(p)
    PROVE  /\ proc' \in [Procs -> ProcRec]
           /\ \A q \in Procs \ {p} : proc'[q] = proc[q]
           /\ proc'[p].pc = proc[p].pc /\ proc'[p].i = proc[p].i + 1
           /\ proc'[p].cmd = proc[p].cmd /\ proc'[p].paths = proc[p].paths
           /\ proc[p] \in InstallRec => /\ proc'[p] \in InstallRec /\ proc'[p].pkg = proc[p].pkg
                                       /\ proc'[p].before = proc[p].before
           /\ proc[p] \in RollbackRec => proc'[p] \in RollbackRec
           /\ proc[p] \in InstallRec \cup RollbackRec => proc'[p].id = proc[p].id
           /\ proc[p] \in RemoveRec => /\ proc'[p] \in RemoveRec
                                      /\ proc'[p].pkg = proc[p].pkg /\ proc'[p].list = proc[p].list
<1>1. proc \in [Procs -> ProcRec]
  BY DEF TypeOK, ProcRec
<1> DEFINE r == [proc[p] EXCEPT !.i = proc[p].i + 1]
<1>2. \/ proc' = [proc EXCEPT ![p] = r]
      \/ proc' = [proc EXCEPT ![p] = [r EXCEPT !.bad = TRUE]]
  BY <1>1 DEF Advance, AdvanceFailed
<1>3. proc'[p] \in {r, [r EXCEPT !.bad = TRUE]} /\ \A q \in Procs \ {p} : proc'[q] = proc[q]
  BY <1>1, <1>2
<1>4. CASE proc[p] \in InstallRec
  <2>1. /\ r \in InstallRec /\ r.pc = proc[p].pc /\ r.i = proc[p].i + 1 /\ r.cmd = proc[p].cmd
        /\ r.paths = proc[p].paths /\ r.pkg = proc[p].pkg /\ r.id = proc[p].id
        /\ r.before = proc[p].before
    BY <1>4 DEF InstallRec
  <2> HIDE DEF r
  <2>2. /\ proc'[p] \in InstallRec /\ proc'[p].pc = r.pc /\ proc'[p].i = r.i /\ proc'[p].cmd = r.cmd
        /\ proc'[p].paths = r.paths /\ proc'[p].pkg = r.pkg /\ proc'[p].id = r.id
        /\ proc'[p].before = r.before
    BY <1>3, <2>1 DEF InstallRec
  <2> QED
    BY <1>1, <1>2, <1>3, <1>4, <2>1, <2>2 DEF InstallRec, RollbackRec, RemoveRec, ProcRec
<1>5. CASE proc[p] \in RollbackRec
  <2>1. /\ r \in RollbackRec /\ r.pc = proc[p].pc /\ r.i = proc[p].i + 1 /\ r.cmd = proc[p].cmd
        /\ r.paths = proc[p].paths /\ r.id = proc[p].id
    BY <1>5 DEF RollbackRec
  <2> HIDE DEF r
  <2>2. /\ proc'[p] \in RollbackRec /\ proc'[p].pc = r.pc /\ proc'[p].i = r.i /\ proc'[p].cmd = r.cmd
        /\ proc'[p].paths = r.paths /\ proc'[p].id = r.id
    BY <1>3, <2>1 DEF RollbackRec
  <2> QED
    BY <1>1, <1>2, <1>3, <1>5, <2>1, <2>2 DEF InstallRec, RollbackRec, RemoveRec, ProcRec
<1>6. CASE proc[p] \in RemoveRec
  <2>1. /\ r \in RemoveRec /\ r.pc = proc[p].pc /\ r.i = proc[p].i + 1 /\ r.cmd = proc[p].cmd
        /\ r.paths = proc[p].paths /\ r.pkg = proc[p].pkg /\ r.list = proc[p].list
    BY <1>6 DEF RemoveRec
  <2> HIDE DEF r
  <2>2. /\ proc'[p] \in RemoveRec /\ proc'[p].pc = r.pc /\ proc'[p].i = r.i /\ proc'[p].cmd = r.cmd
        /\ proc'[p].paths = r.paths /\ proc'[p].pkg = r.pkg /\ proc'[p].list = r.list
    BY <1>3, <2>1 DEF RemoveRec
  <2> QED
    BY <1>1, <1>2, <1>3, <1>6, <2>1, <2>2 DEF InstallRec, RollbackRec, RemoveRec, ProcRec
<1> QED
  BY <1>1, <1>4, <1>5, <1>6 DEF ProcRec, IdleRec, Running

(* A command goes on to its next phase. *)
LEMMA GotoFacts ==
    ASSUME TypeOK, NEW p \in Procs, proc[p] \in InstallRec, NEW pc \in {"copy", "save", "mark", "undo"},
           Goto(p, pc)
    PROVE  /\ proc' \in [Procs -> ProcRec]
           /\ \A q \in Procs \ {p} : proc'[q] = proc[q]
           /\ proc'[p] \in InstallRec
           /\ proc'[p].pc = pc /\ proc'[p].i = 0 /\ proc'[p].cmd = "install"
           /\ proc'[p].paths = proc[p].paths /\ proc'[p].id = proc[p].id
           /\ proc'[p].pkg = proc[p].pkg /\ proc'[p].before = proc[p].before
<1>1. proc \in [Procs -> ProcRec]
  BY DEF TypeOK, ProcRec
<1>2. proc' = [proc EXCEPT ![p] = [proc[p] EXCEPT !.pc = pc, !.i = 0]]
  BY <1>1 DEF Goto
<1>3. proc'[p] = [proc[p] EXCEPT !.pc = pc, !.i = 0] /\ \A q \in Procs \ {p} : proc'[q] = proc[q]
  BY <1>1, <1>2
<1>4. proc'[p] \in InstallRec
  <2> DEFINE r == [proc[p] EXCEPT !.pc = pc]
  <2>1. r \in InstallRec
    BY DEF InstallRec
  <2>2. proc'[p] = [r EXCEPT !.i = 0]
    BY <1>3
  <2> HIDE DEF r
  <2> QED
    BY <2>1, <2>2 DEF InstallRec
<1> QED
  BY <1>1, <1>2, <1>3, <1>4 DEF InstallRec, ProcRec

(* A command ends. *)
LEMMA EndFacts ==
    ASSUME TypeOK, NEW p \in Procs, NEW r \in {0, 1, 2, 3, 137}, proc' = [proc EXCEPT ![p] = Idle(r)]
    PROVE  /\ proc' \in [Procs -> ProcRec]
           /\ \A q \in Procs \ {p} : proc'[q] = proc[q]
           /\ proc'[p].pc = "idle"
<1>1. proc \in [Procs -> ProcRec]
  BY DEF TypeOK, ProcRec
<1>2. Idle(r) \in IdleRec /\ Idle(r).pc = "idle"
  BY DEF IdleRec, Idle
<1>3. Idle(r) \in ProcRec
  BY <1>2 DEF ProcRec
<1> HIDE DEF Idle
<1> QED
  BY <1>1, <1>2, <1>3
-----------------------------------------------------------------------------
Names(m, n) == {m[j] : j \in 1 .. n}

(* While a manifest is recorded, the list on the disk is empty and of the     *)
(* names read so far none is critical.                                        *)
Recording ==
    \A p \in Procs : At(p, "record") =>
        /\ proc[p].i <= Len(Manifest[proc[p].pkg])
        /\ tx[proc[p].id].made /\ tx[proc[p].id].list = <<>>
        /\ Names(Manifest[proc[p].pkg], proc[p].i) \cap Guarded = {}

(* What is copied is the manifest, or what was written of it, from a          *)
(* transaction of one's own.                                                  *)
WholeList ==
    \A p \in Procs : proc[p].pc \in {"copy", "save", "mark"} =>
        Faithful(proc[p].pkg, tx[proc[p].id].list, setting)
OwnTransaction ==
    \A p, q \in Procs :
        p # q /\ Running(p) /\ Running(q) /\ proc[p].cmd = "install" /\ proc[q].cmd = "install"
          => proc[p].id # proc[q].id

(* The database holds manifests or their first names, and so does a command   *)
(* that removes.                                                              *)
DbWhole ==
    /\ \A k \in Packages : db[k] = NoList \/ Recoverable(k, db[k], setting)
    /\ \A p \in Procs : At(p, "unlink") => Recoverable(proc[p].pkg, proc[p].list, setting)

(* No list that some command may follow names a critical path.                *)
CleanLists ==
    /\ \A id \in Ids : Elems(tx[id].list) \cap Guarded = {}
    /\ \A k \in Packages : db[k] = NoList \/ Elems(db[k]) \cap Guarded = {}
    /\ \A p \in Procs : At(p, "unlink") => Elems(proc[p].list) \cap Guarded = {}

(* A transaction whose list was never opened is empty.                        *)
Unmade ==
    /\ \A id \in Ids : ~tx[id].made => tx[id].list = <<>> /\ \A f \in Files : tx[id].backup[f] = Absent
    /\ \A p \in Procs : Running(p) => p \in setting.procs
    /\ \A p \in Procs : Running(p) /\ proc[p].cmd = "rollback" => tx[proc[p].id].made

ListInv == TypeOK /\ Recording /\ WholeList /\ OwnTransaction /\ DbWhole /\ CleanLists /\ Unmade
           /\ CriticalUntouched

(* The file in hand is one of the list. *)
LEMMA CurrentFacts ==
    ASSUME NEW p \in Procs, NEW list \in Seq(Files), proc[p].i \in Nat, More(p, list)
    PROVE  /\ Current(p, list) \in Files /\ Current(p, list) \in Elems(list)
           /\ Current(p, list) = list[proc[p].i + 1] /\ proc[p].i + 1 \in 1 .. Len(list)
  BY DEF More, Current, Elems

(* One file is written, the others are not. *)
LEMMA PutFacts ==
    ASSUME fs \in [Files -> Content], NEW f \in Files, NEW C \in SUBSET Content, Put(f, C)
    PROVE  /\ fs' \in [Files -> Content]
           /\ fs'[f] \in C /\ \A g \in Files \ {f} : fs'[g] = fs[g]
  BY DEF Put

(* A file that is on no critical list is written. *)
LEMMA PutNotCritical ==
    ASSUME TypeOK, CriticalUntouched, NEW f \in Files \ Guarded, NEW C \in SUBSET Content, Put(f, C)
    PROVE  CriticalUntouched' /\ fs' \in [Files -> Content]
  BY PutFacts, PackageAssumption DEF CriticalUntouched, TypeOK, Guarded

(* The initial state. *)
LEMMA ListInvInit == Init => ListInv
<1> SUFFICES ASSUME Init PROVE ListInv
  OBVIOUS
<1>1. NewTx \in TxRec
  BY DEF NewTx, TxRec, Content
<1>2. Idle(0) \in IdleRec
  BY DEF Idle, IdleRec
<1>3. fs \in [Files -> Content]
  BY PackageAssumption DEF Init, Content
<1>4. TypeOK
  BY <1>1, <1>2, <1>3 DEF Init, TypeOK
<1>5. \A p \in Procs : proc[p].pc = "idle"
  BY DEF Init, Idle
<1>6. Recording /\ WholeList /\ OwnTransaction
  BY <1>5 DEF Recording, WholeList, OwnTransaction, At, Running
<1>7. DbWhole
  BY <1>5 DEF DbWhole, At, Init
<1>8. \A id \in Ids : tx[id].list = <<>> /\ \A f \in Files : tx[id].backup[f] = Absent
  BY DEF Init, NewTx
<1>9. CleanLists
  BY <1>5, <1>8 DEF CleanLists, At, Init, Elems
<1>10. Unmade
  BY <1>5, <1>8 DEF Unmade, Running
<1>11. CriticalUntouched
  <2>1. Critical \subseteq Files
    BY PackageAssumption
  <2> QED
    BY <2>1 DEF CriticalUntouched, Init
<1> QED
  BY <1>4, <1>6, <1>7, <1>9, <1>10, <1>11 DEF ListInv

(* A command past its record phase goes on, or ends, and leaves lists and     *)
(* database alone.                                                            *)
GoesOn(p) ==
    /\ p \in setting.procs /\ UNCHANGED <<setting, tx, db>>
    /\ fs' \in [Files -> Content] /\ CriticalUntouched'
    /\ dirty' \subseteq Ids /\ removing' \subseteq Packages
    /\ proc' \in [Procs -> ProcRec] /\ \A q \in Procs \ {p} : proc'[q] = proc[q]
    /\ \/ proc'[p].pc = "idle"
       \/ /\ proc[p] \in InstallRec /\ proc'[p] \in InstallRec
          /\ proc'[p].id = proc[p].id /\ proc'[p].pkg = proc[p].pkg
          /\ proc[p].pc # "record" /\ proc'[p].pc # "record"
          /\ proc[p].pc \in {"copy", "save", "mark"} \/ proc'[p].pc = "undo"
       \/ /\ proc[p] \in RollbackRec /\ proc'[p] \in RollbackRec
          /\ proc'[p].id = proc[p].id
       \/ /\ proc[p] \in RemoveRec /\ proc'[p] \in RemoveRec
          /\ proc'[p].pkg = proc[p].pkg /\ proc'[p].list = proc[p].list

LEMMA GoesOnKeeps ==
    ASSUME ListInv, NEW p \in Procs, GoesOn(p)
    PROVE  ListInv'
<1> USE DEF GoesOn
<1>1. TypeOK'
  BY DEF ListInv, TypeOK, ProcRec
<1>2. Recording'
  <2> SUFFICES ASSUME NEW q \in Procs, At(q, "record")'
               PROVE  (/\ proc[q].i <= Len(Manifest[proc[q].pkg])
                       /\ tx[proc[q].id].made /\ tx[proc[q].id].list = <<>>
                       /\ Names(Manifest[proc[q].pkg], proc[q].i) \cap Guarded = {})'
    BY DEF Recording
  <2>1. q # p
    BY DEF GoesOn, At, RollbackRec, RemoveRec
  <2> QED
    BY <2>1 DEF ListInv, Recording, At
<1>3. WholeList' /\ OwnTransaction'
  <2>1. WholeList'
    BY DEF ListInv, WholeList, InstallRec, RollbackRec, RemoveRec
  <2>2. OwnTransaction'
    BY DEF ListInv, OwnTransaction, Running, InstallRec, RollbackRec, RemoveRec
  <2> QED
    BY <2>1, <2>2
<1>4. DbWhole' /\ CleanLists'
  BY DEF ListInv, DbWhole, CleanLists, GoesOn, At, InstallRec, RollbackRec, RemoveRec
<1>5. Unmade'
  BY DEF ListInv, Unmade, GoesOn, Running, InstallRec, RollbackRec, RemoveRec
<1> QED
  BY <1>1, <1>2, <1>3, <1>4, <1>5 DEF ListInv

(* One transaction gets a list and backups; the others are left alone. *)
LEMMA TxFacts ==
    ASSUME TypeOK, NEW id \in Ids, NEW list \in Seq(Files), NEW backup \in [Files -> Content],
           Log(id, list, backup)
    PROVE  /\ tx' \in [Ids -> TxRec]
           /\ \A j \in Ids \ {id} : tx'[j] = tx[j]
           /\ tx'[id].list = list /\ tx'[id].backup = backup /\ tx'[id].made = tx[id].made
<1>1. tx \in [Ids -> TxRec]
  BY DEF TypeOK
<1>2. tx'[id] = [tx[id] EXCEPT !.list = list, !.backup = backup] /\ \A j \in Ids \ {id} : tx'[j] = tx[j]
  BY <1>1 DEF Log
<1>3. tx'[id] \in TxRec /\ tx'[id].list = list /\ tx'[id].backup = backup /\ tx'[id].made = tx[id].made
  <2> DEFINE r == [tx[id] EXCEPT !.list = list]
  <2>1. r \in TxRec /\ r.list = list /\ r.made = tx[id].made
    BY <1>1 DEF TxRec
  <2>2. tx'[id] = [r EXCEPT !.backup = backup]
    BY <1>2
  <2> HIDE DEF r
  <2> QED
    BY <2>1, <2>2 DEF TxRec
<1> QED
  BY <1>1, <1>2, <1>3 DEF Log

(* What closing the list leaves: the transaction holds the first n names. *)
Closed(p, n, backup, pc) ==
    /\ proc[p] \in InstallRec /\ proc'[p] \in InstallRec
    /\ proc' \in [Procs -> ProcRec] /\ \A q \in Procs \ {p} : proc'[q] = proc[q]
    /\ proc'[p].pc = pc /\ proc'[p].i = 0 /\ proc'[p].paths = proc[p].paths
    /\ proc'[p].id = proc[p].id /\ proc'[p].pkg = proc[p].pkg
    /\ proc'[p].cmd = "install" /\ proc'[p].before = proc[p].before
    /\ tx' \in [Ids -> TxRec] /\ \A j \in Ids \ {proc[p].id} : tx'[j] = tx[j]
    /\ tx'[proc[p].id].list = SubSeq(Manifest[proc[p].pkg], 1, n)
    /\ tx'[proc[p].id].backup = backup /\ tx'[proc[p].id].made = tx[proc[p].id].made
    /\ Elems(tx'[proc[p].id].list) = Names(Manifest[proc[p].pkg], n)
    /\ tx'[proc[p].id].list \in Prefixes(Manifest[proc[p].pkg])
    /\ n = Len(Manifest[proc[p].pkg]) => tx'[proc[p].id].list = Manifest[proc[p].pkg]

(* fclose of the list, and where the installation goes on. *)
LEMMA CloseFacts ==
    ASSUME ListInv, NEW p \in Procs, At(p, "record"),
           NEW n \in 0 .. Len(Manifest[proc[p].pkg]), NEW backup \in [Files -> Content],
           NEW pc \in {"copy", "save", "undo"}, Close(p, n, backup, pc)
    PROVE  \E w \in 0 .. n : (~Fault("list") => w = n) /\ Closed(p, w, backup, pc)
<1>1. TypeOK
  BY DEF ListInv
<1>2. proc[p] \in InstallRec
  BY <1>1, KindOfProc DEF At
<1>3. proc[p].id \in Ids /\ proc[p].pkg \in Packages /\ Manifest[proc[p].pkg] \in Seq(Files)
  BY <1>2, PackageAssumption DEF InstallRec
<1>0. Goto(p, pc) /\ \E w \in (IF Fault("list") THEN 0 .. n ELSE {n}) :
         Log(proc[p].id, SubSeq(Manifest[proc[p].pkg], 1, w), backup)
  BY DEF Close
<1>0a. PICK w \in (IF Fault("list") THEN 0 .. n ELSE {n}) :
         Log(proc[p].id, SubSeq(Manifest[proc[p].pkg], 1, w), backup)
  BY <1>0
<1>0b. w \in 0 .. n /\ w \in 0 .. Len(Manifest[proc[p].pkg]) /\ (~Fault("list") => w = n)
  BY <1>3
<1> DEFINE list == SubSeq(Manifest[proc[p].pkg], 1, w)
<1>4. /\ list \in Seq(Files) /\ Len(list) = w /\ \A j \in 1 .. w : list[j] = Manifest[proc[p].pkg][j]
      /\ w = Len(Manifest[proc[p].pkg]) => list = Manifest[proc[p].pkg]
      /\ list \in Prefixes(Manifest[proc[p].pkg])
  BY <1>0b, <1>3, PrefixFacts DEF Prefixes
<1>5. Log(proc[p].id, list, backup) /\ Goto(p, pc)
  BY <1>0, <1>0a
<1> HIDE DEF list
<1>6. /\ tx' \in [Ids -> TxRec] /\ \A j \in Ids \ {proc[p].id} : tx'[j] = tx[j]
      /\ tx'[proc[p].id].list = list
      /\ tx'[proc[p].id].backup = backup /\ tx'[proc[p].id].made = tx[proc[p].id].made
  BY <1>1, <1>3, <1>4, <1>5, TxFacts
<1>7. Elems(list) = Names(Manifest[proc[p].pkg], w)
  BY <1>4 DEF Elems, Names
<1>8. /\ proc'[p] \in InstallRec
      /\ proc' \in [Procs -> ProcRec] /\ \A q \in Procs \ {p} : proc'[q] = proc[q]
      /\ proc'[p].pc = pc /\ proc'[p].i = 0 /\ proc'[p].paths = proc[p].paths
      /\ proc'[p].id = proc[p].id /\ proc'[p].pkg = proc[p].pkg
      /\ proc'[p].cmd = "install" /\ proc'[p].before = proc[p].before
  BY <1>1, <1>2, <1>5, GotoFacts
<1>9. Closed(p, w, backup, pc)
  BY <1>2, <1>4, <1>6, <1>7, <1>8 DEF list, Closed
<1> QED
  BY <1>0b, <1>9

(* An installation changes its own transaction, which it has opened. *)
OwnStep(p, id) ==
    /\ p \in setting.procs /\ UNCHANGED <<setting, fs, db>>
    /\ dirty' \subseteq Ids /\ removing' \subseteq Packages
    /\ proc' \in [Procs -> ProcRec] /\ \A q \in Procs \ {p} : proc'[q] = proc[q]
    /\ \A q \in Procs \ {p} : Running(q) /\ proc[q].cmd = "install" => proc[q].id # id
    /\ tx' \in [Ids -> TxRec] /\ \A j \in Ids \ {id} : tx'[j] = tx[j]
    /\ tx'[id].made = TRUE /\ Elems(tx'[id].list) \cap Guarded = {}
    /\ \/ proc'[p].pc = "idle"
       \/ /\ proc'[p] \in InstallRec /\ proc'[p].id = id
          /\ proc'[p].pc = "record" =>
                /\ proc'[p].i <= Len(Manifest[proc'[p].pkg]) /\ tx'[id].list = <<>>
                /\ Names(Manifest[proc'[p].pkg], proc'[p].i) \cap Guarded = {}
          /\ proc'[p].pc \in {"copy", "save", "mark"} => Faithful(proc'[p].pkg, tx'[id].list, setting)

LEMMA OwnTxKeeps ==
    ASSUME ListInv, NEW p \in Procs, NEW id \in Ids, OwnStep(p, id)
    PROVE  ListInv'
<1> USE DEF OwnStep
<1>0. TypeOK /\ Recording /\ WholeList /\ OwnTransaction /\ DbWhole /\ CleanLists /\ Unmade /\ CriticalUntouched
  BY DEF ListInv
<1>1. TypeOK'
  BY <1>0 DEF TypeOK, ProcRec
<1>2. \A q \in Procs \ {p} : proc[q].pc \in {"record", "copy", "save", "mark"} =>
         proc[q].id \in Ids \ {id} /\ tx'[proc[q].id] = tx[proc[q].id]
  BY <1>0, KindOfProc DEF InstallRec, Running
<1>3. Recording'
  <2>1. ASSUME NEW q \in Procs \ {p}, proc'[q].pc = "record"
        PROVE  /\ proc'[q].i <= Len(Manifest[proc'[q].pkg]) /\ tx'[proc'[q].id].made
               /\ tx'[proc'[q].id].list = <<>>
               /\ Names(Manifest[proc'[q].pkg], proc'[q].i) \cap Guarded = {}
    BY <1>0, <1>2, <2>1 DEF Recording, At
  <2> QED
    BY <2>1 DEF Recording, At
<1>4. WholeList'
  BY <1>0, <1>2 DEF WholeList
<1>5. OwnTransaction'
  BY <1>0 DEF OwnTransaction, Running, InstallRec
<1>6. DbWhole' /\ CleanLists'
  <2>1. \A q \in Procs : At(q, "unlink")' => q # p /\ At(q, "unlink") /\ proc'[q] = proc[q]
    BY DEF At, InstallRec
  <2>2. \A j \in Ids : Elems(tx'[j].list) \cap Guarded = {}
    BY <1>0 DEF CleanLists
  <2>3. DbWhole'
    BY <1>0, <2>1 DEF DbWhole
  <2>4. CleanLists'
    BY <1>0, <2>1, <2>2 DEF CleanLists
  <2> QED
    BY <2>3, <2>4
<1>7. Unmade'
  <2>1. ASSUME NEW j \in Ids, ~tx'[j].made
        PROVE  tx'[j].list = <<>> /\ \A f \in Files : tx'[j].backup[f] = Absent
    <3>1. j # id
      BY <2>1
    <3>2. tx'[j] = tx[j] /\ ~tx[j].made
      BY <2>1, <3>1
    <3> QED
      BY <1>0, <3>2 DEF Unmade
  <2>2. \A q \in Procs : Running(q)' => q \in setting.procs
    BY <1>0 DEF Unmade, Running
  <2>3. ASSUME NEW q \in Procs, Running(q)', proc'[q].cmd = "rollback" PROVE tx'[proc'[q].id].made
    <3>1. q # p /\ proc'[q] = proc[q]
      BY <2>3 DEF Running, InstallRec
    <3>2. proc[q].id \in Ids /\ tx[proc[q].id].made
      BY <1>0, <2>3, <3>1, KindOfProc
         DEF Unmade, Running, ProcRec, IdleRec, InstallRec, RollbackRec, RemoveRec
    <3> QED
      BY <3>1, <3>2
  <2> QED
    BY <2>1, <2>2, <2>3 DEF Unmade
<1>8. CriticalUntouched'
  BY <1>0 DEF CriticalUntouched
<1> QED
  BY <1>1, <1>3, <1>4, <1>5, <1>6, <1>7, <1>8 DEF ListInv

(* What holds of a command that records. *)
LEMMA RecordFacts ==
    ASSUME ListInv, NEW p \in Procs, At(p, "record")
    PROVE  /\ proc[p] \in InstallRec /\ proc[p].id \in Ids /\ proc[p].pkg \in Packages
           /\ proc[p].i \in Nat /\ proc[p].i <= Len(Manifest[proc[p].pkg])
           /\ Manifest[proc[p].pkg] \in Seq(Files) /\ Running(p) /\ proc[p].cmd = "install"
           /\ tx[proc[p].id].backup \in [Files -> Content] /\ Listed(p) = <<>>
           /\ Names(Manifest[proc[p].pkg], proc[p].i) \cap Guarded = {}
           /\ tx[proc[p].id].made = TRUE
           /\ \A f \in Files, c \in Content : Backup(p, f, c) \in [Files -> Content]
           /\ \A q \in Procs \ {p} : Running(q) /\ proc[q].cmd = "install" => proc[q].id # proc[p].id
<1>1. TypeOK /\ proc[p] \in InstallRec
  BY KindOfProc DEF ListInv, At
<1>2. /\ proc[p].id \in Ids /\ proc[p].pkg \in Packages /\ proc[p].i \in Nat /\ Running(p)
      /\ proc[p].cmd = "install"
  BY <1>1 DEF InstallRec, At, Running
<1>3. tx[proc[p].id].backup \in [Files -> Content] /\ tx[proc[p].id].made \in BOOLEAN
  BY <1>1, <1>2 DEF TypeOK, TxRec
<1>4. Manifest[proc[p].pkg] \in Seq(Files)
  BY <1>2, PackageAssumption
<1>5. /\ proc[p].i <= Len(Manifest[proc[p].pkg]) /\ Listed(p) = <<>>
      /\ Names(Manifest[proc[p].pkg], proc[p].i) \cap Guarded = {}
      /\ tx[proc[p].id].made
  BY DEF ListInv, Recording, Listed
<1>6. \A f \in Files, c \in Content : Backup(p, f, c) \in [Files -> Content]
  BY <1>3 DEF Backup
<1>7. \A q \in Procs \ {p} : Running(q) /\ proc[q].cmd = "install" => proc[q].id # proc[p].id
  BY <1>2 DEF ListInv, OwnTransaction
<1> QED
  BY <1>1, <1>2, <1>3, <1>4, <1>5, <1>6, <1>7

LEMMA CloseKeeps ==
    ASSUME ListInv, NEW p \in Procs, At(p, "record"), p \in setting.procs, UNCHANGED setting,
           NEW n \in 0 .. Len(Manifest[proc[p].pkg]), NEW backup \in [Files -> Content],
           Names(Manifest[proc[p].pkg], n) \cap Guarded = {},
           NEW pc \in {"copy", "save", "undo"}, pc # "undo" => n = Len(Manifest[proc[p].pkg]),
           Close(p, n, backup, pc)
    PROVE  ListInv'
<1>1. /\ proc'[p] \in InstallRec
      /\ proc' \in [Procs -> ProcRec] /\ \A q \in Procs \ {p} : proc'[q] = proc[q]
      /\ proc'[p].pc = pc /\ proc'[p].id = proc[p].id /\ proc'[p].pkg = proc[p].pkg
      /\ tx' \in [Ids -> TxRec] /\ \A j \in Ids \ {proc[p].id} : tx'[j] = tx[j]
      /\ tx'[proc[p].id].made = tx[proc[p].id].made
      /\ Elems(tx'[proc[p].id].list) \cap Guarded = {}
      /\ pc # "undo" => Faithful(proc[p].pkg, tx'[proc[p].id].list, setting)
  <2>1. PICK w \in 0 .. n : (~Fault("list") => w = n) /\ Closed(p, w, backup, pc)
    BY CloseFacts
  <2>2. Names(Manifest[proc[p].pkg], w) \subseteq Names(Manifest[proc[p].pkg], n)
    BY <2>1 DEF Names
  <2>3. pc # "undo" => Faithful(proc[p].pkg, tx'[proc[p].id].list, setting)
    BY <2>1 DEF Closed, Faithful, Fault
  <2> QED
    BY <2>1, <2>2, <2>3 DEF Closed
<1>2. /\ proc[p].id \in Ids /\ tx[proc[p].id].made = TRUE
      /\ \A q \in Procs \ {p} : Running(q) /\ proc[q].cmd = "install" => proc[q].id # proc[p].id
  BY RecordFacts
<1>3. UNCHANGED <<fs, db, removing>> /\ dirty' = dirty \cup {proc[p].id}
  BY DEF Close
<1>4. dirty' \subseteq Ids /\ removing' \subseteq Packages
  BY <1>2, <1>3 DEF ListInv, TypeOK
<1>5. OwnStep(p, proc[p].id)
  BY <1>1, <1>2, <1>3, <1>4 DEF OwnStep
<1> QED
  BY <1>2, <1>5, OwnTxKeeps
-----------------------------------------------------------------------------
(* The steps of an installation keep the lists in order. *)
LEMMA BeginKeeps ==
    ASSUME ListInv, NEW p \in setting.procs, p \in Procs, UNCHANGED setting,
           NEW k \in Packages, NEW id \in Ids, InstallBegin(p, k, id)
    PROVE  ListInv'
<1>0. TypeOK /\ Recording /\ WholeList /\ OwnTransaction /\ DbWhole /\ CleanLists /\ Unmade /\ CriticalUntouched
  BY DEF ListInv
<1> DEFINE rec(pc) == [pc |-> pc, cmd |-> "install", pkg |-> k, id |-> id, i |-> 0, bad |-> FALSE,
                       paths |-> Targets[k], before |-> [f \in Targets[k] |-> fs[f]]]
<1>1. ~Running(p) /\ FreeId(id) /\ UNCHANGED <<fs, db, removing>>
  BY DEF InstallBegin
<1>2. Targets[k] \in SUBSET Files
  BY PackageAssumption DEF Targets, Elems
<1>3. \A pc \in {"record", "undo"} : rec(pc) \in InstallRec
  BY <1>0, <1>2 DEF InstallRec, TypeOK
<1>4. ASSUME NEW pc \in {"record", "undo"}, proc' = [proc EXCEPT ![p] = rec(pc)]
      PROVE  /\ proc' \in [Procs -> ProcRec] /\ \A q \in Procs \ {p} : proc'[q] = proc[q]
             /\ proc'[p] = rec(pc)
  <2>1. proc \in [Procs -> ProcRec] /\ rec(pc) \in ProcRec
    BY <1>0, <1>3 DEF TypeOK, ProcRec
  <2> HIDE DEF rec
  <2> QED
    BY <1>4, <2>1
<1>5. \A q \in Procs \ {p} : Running(q) /\ proc[q].cmd = "install" => proc[q].id # id
  BY <1>1 DEF FreeId
<1>6. CASE /\ proc' = [proc EXCEPT ![p] = rec("record")]
           /\ tx' = [tx EXCEPT ![id].made = TRUE, ![id].list = <<>>]
           /\ UNCHANGED dirty
  <2>1. /\ proc' \in [Procs -> ProcRec] /\ \A q \in Procs \ {p} : proc'[q] = proc[q]
        /\ proc'[p] \in InstallRec /\ proc'[p].id = id /\ proc'[p].pkg = k /\ proc'[p].i = 0
        /\ proc'[p].pc = "record"
    BY <1>3, <1>4, <1>6
  <2>2. /\ tx' \in [Ids -> TxRec] /\ \A j \in Ids \ {id} : tx'[j] = tx[j]
        /\ tx'[id].made = TRUE /\ tx'[id].list = <<>>
    <3>1. tx \in [Ids -> TxRec]
      BY <1>0 DEF TypeOK
    <3> DEFINE r == [tx[id] EXCEPT !.made = TRUE]
    <3>2. r \in TxRec /\ r.made = TRUE
      BY <3>1 DEF TxRec
    <3>3. tx'[id] = [r EXCEPT !.list = <<>>] /\ \A j \in Ids \ {id} : tx'[j] = tx[j]
      BY <1>6, <3>1
    <3> HIDE DEF r
    <3>4. tx'[id] \in TxRec /\ tx'[id].list = <<>>
      <4>1. \A e \in Seq(Files) : [r EXCEPT !.list = e] \in TxRec /\ [r EXCEPT !.list = e].list = e
        BY <3>2 DEF TxRec
      <4>2. <<>> \in Seq(Files)
        OBVIOUS
      <4> QED
        BY <3>3, <4>1, <4>2, Zenon
    <3>5. tx'[id].made = r.made
      BY <3>2, <3>3 DEF TxRec
    <3> QED
      BY <1>6, <3>1, <3>2, <3>3, <3>4, <3>5
  <2>3. Names(Manifest[k], 0) = {} /\ Len(Manifest[k]) \in Nat /\ Elems(<<>>) = {}
    BY PackageAssumption DEF Names, Elems
  <2>4. dirty' \subseteq Ids /\ removing' \subseteq Packages
    BY <1>0, <1>1, <1>6 DEF TypeOK
  <2>5. OwnStep(p, id)
    BY <1>1, <1>5, <2>1, <2>2, <2>3, <2>4 DEF OwnStep
  <2> QED
    BY <2>5, OwnTxKeeps
<1>7. CASE /\ proc' = [proc EXCEPT ![p] = rec("undo")]
           /\ dirty' = dirty \cup {id} /\ UNCHANGED tx
  <2>1. /\ proc' \in [Procs -> ProcRec] /\ \A q \in Procs \ {p} : proc'[q] = proc[q]
        /\ proc'[p].pc = "undo" /\ proc'[p].cmd = "install" /\ proc'[p].id = id
    BY <1>4, <1>7
  <2>2. TypeOK'
    BY <1>0, <1>1, <1>7, <2>1 DEF TypeOK, ProcRec
  <2>3. Recording' /\ WholeList'
    BY <1>0, <1>7, <2>1 DEF Recording, WholeList, At
  <2>4. OwnTransaction'
    BY <1>0, <1>5, <2>1 DEF OwnTransaction, Running
  <2>5. DbWhole' /\ CleanLists'
    BY <1>0, <1>1, <1>7, <2>1 DEF DbWhole, CleanLists, At
  <2>6. Unmade'
    BY <1>0, <1>7, <2>1 DEF Unmade, Running
  <2> QED
    BY <1>0, <1>1, <2>2, <2>3, <2>4, <2>5, <2>6 DEF ListInv, CriticalUntouched
<1> QED
  BY <1>6, <1>7 DEF InstallBegin

(* The names of a manifest up to the next one. *)
LEMMA NamesNext ==
    ASSUME NEW m \in Seq(Files), NEW n \in Nat, n < Len(m)
    PROVE  Names(m, n + 1) = Names(m, n) \cup {m[n + 1]}
  BY DEF Names

LEMMA NamesAll ==
    ASSUME NEW m \in Seq(Files)
    PROVE  Names(m, Len(m)) = Elems(m)
  BY DEF Names, Elems

LEMMA RecordFileKeeps ==
    ASSUME ListInv, NEW p \in setting.procs, p \in Procs, UNCHANGED setting, RecordFile(p)
    PROVE  ListInv'
<1> DEFINE m == Manifest[proc[p].pkg]
           f == Current(p, m)
           id == proc[p].id
<1>0. TypeOK
  BY DEF ListInv
<1>1. At(p, "record") /\ More(p, m)
  BY DEF RecordFile
<1>2. /\ proc[p] \in InstallRec /\ id \in Ids /\ proc[p].pkg \in Packages
      /\ proc[p].i \in Nat /\ proc[p].i <= Len(m) /\ m \in Seq(Files) /\ Running(p)
      /\ tx[id].backup \in [Files -> Content] /\ Listed(p) = <<>>
      /\ Names(m, proc[p].i) \cap Guarded = {} /\ tx[id].made = TRUE
      /\ \A g \in Files, c \in Content : Backup(p, g, c) \in [Files -> Content]
      /\ \A q \in Procs \ {p} : Running(q) /\ proc[q].cmd = "install" => proc[q].id # id
  BY <1>1, RecordFacts
<1>3. f \in Files /\ f = m[proc[p].i + 1] /\ proc[p].i + 1 \in 1 .. Len(m)
  BY <1>1, <1>2, CurrentFacts
<1>4. ~critical_path(proc[p].pkg, proc[p].i + 1) => Names(m, proc[p].i + 1) \cap Guarded = {}
  <2>0. ~critical_path(proc[p].pkg, proc[p].i + 1) => m[proc[p].i + 1] \notin Guarded
    BY <1>2, <1>3, NotGuarded
  <2>1. Names(m, proc[p].i + 1) = Names(m, proc[p].i) \cup {m[proc[p].i + 1]}
    BY <1>1, <1>2, NamesNext DEF More
  <2> QED
    BY <1>2, <2>0, <2>1
<1>5. fs[f] \in Content /\ Kept(p, f) \in Content /\ Torn \in Content
  BY <1>0, <1>2, <1>3 DEF TypeOK, Kept, Content
<1>6. CASE Close(p, proc[p].i, tx[id].backup, "undo")
  <2>1. proc[p].i \in 0 .. Len(m)
    BY <1>2
  <2> QED
    BY <1>1, <1>2, <1>6, <2>1, CloseKeeps
<1>7. ASSUME ~critical_path(proc[p].pkg, proc[p].i + 1), NEW c \in {Kept(p, f), Torn}, Close(p, proc[p].i + 1, Backup(p, f, c), "undo")
      PROVE  ListInv'
  <2>0. c \in Content
    BY <1>5
  <2>1. Backup(p, f, c) \in [Files -> Content]
    BY <1>2, <1>3, <2>0, Zenon
  <2>1a. proc[p].i + 1 \in 0 .. Len(m)
    BY <1>2, <1>3
  <2>2. Names(m, proc[p].i + 1) \cap Guarded = {}
    BY <1>4, <1>7
  <2> QED
    BY <1>1, <1>7, <2>1, <2>1a, <2>2, CloseKeeps
<1>8. CASE /\ ~critical_path(proc[p].pkg, proc[p].i + 1) /\ Advance(p) /\ Log(id, Listed(p), Backup(p, f, BackupOf(p, f)))
           /\ UNCHANGED <<fs, db, dirty, removing>>
  <2>1. BackupOf(p, f) \in Content
    BY <1>5 DEF BackupOf
  <2>2. Backup(p, f, BackupOf(p, f)) \in [Files -> Content]
    BY <1>2, <1>3, <2>1, Zenon
  <2>2a. Listed(p) \in Seq(Files)
    <3>1. <<>> \in Seq(Files)
      OBVIOUS
    <3> QED
      BY <1>2, <3>1
  <2>3. /\ tx' \in [Ids -> TxRec] /\ \A j \in Ids \ {id} : tx'[j] = tx[j]
        /\ tx'[id].list = Listed(p) /\ tx'[id].made = tx[id].made
    BY <1>0, <1>2, <1>8, <2>2, <2>2a, TxFacts
  <2>4. /\ proc' \in [Procs -> ProcRec] /\ \A q \in Procs \ {p} : proc'[q] = proc[q]
        /\ proc'[p].pc = proc[p].pc /\ proc'[p].i = proc[p].i + 1 /\ proc'[p] \in InstallRec
        /\ proc'[p].id = id /\ proc'[p].pkg = proc[p].pkg
    BY <1>0, <1>2, <1>8, AdvanceFacts
  <2>5. proc'[p].i <= Len(m) /\ Names(m, proc'[p].i) \cap Guarded = {}
    BY <1>3, <1>4, <1>8, <2>4
  <2>6. proc'[p].pc = "record" /\ Elems(tx'[id].list) \cap Guarded = {} /\ tx'[id].list = <<>>
    BY <1>1, <1>2, <2>3, <2>4 DEF At, Elems
  <2>7. dirty' \subseteq Ids /\ removing' \subseteq Packages /\ UNCHANGED <<fs, db>>
    BY <1>0, <1>8 DEF TypeOK
  <2> HIDE DEF m, f, id
  <2>8. Len(Manifest[proc'[p].pkg]) = Len(m) /\ Manifest[proc'[p].pkg] = m
    BY <2>4 DEF m
  <2>9. OwnStep(p, id)
    BY <1>2, <2>3, <2>4, <2>5, <2>6, <2>7, <2>8 DEF OwnStep
  <2> QED
    BY <1>2, <2>9, OwnTxKeeps
<1> QED
  BY <1>6, <1>7, <1>8 DEF RecordFile

LEMMA RecordEndKeeps ==
    ASSUME ListInv, NEW p \in setting.procs, p \in Procs, UNCHANGED setting, RecordEnd(p)
    PROVE  ListInv'
<1> DEFINE m == Manifest[proc[p].pkg]
<1>1. At(p, "record") /\ ~More(p, m)
  BY DEF RecordEnd
<1>2. /\ proc[p].i \in Nat /\ proc[p].i <= Len(m) /\ m \in Seq(Files)
      /\ tx[proc[p].id].backup \in [Files -> Content]
      /\ Names(m, proc[p].i) \cap Guarded = {}
  BY <1>1, RecordFacts
<1>3. proc[p].i = Len(m) /\ Len(m) \in 0 .. Len(m)
  BY <1>1, <1>2 DEF More
<1>4. PICK pc \in {"copy", "save"} : Close(p, Len(m), tx[proc[p].id].backup, pc)
  BY DEF RecordEnd
<1> QED
  BY <1>1, <1>2, <1>3, <1>4, CloseKeeps

(* What holds of a command that follows the list of a transaction. *)
LEMMA ListedFacts ==
    ASSUME ListInv, NEW p \in Procs, proc[p].pc \in {"copy", "save", "mark", "undo"}
    PROVE  /\ TypeOK /\ Running(p) /\ proc[p] \in InstallRec \cup RollbackRec
           /\ proc[p].pc \in {"copy", "save", "mark"} =>
                 /\ proc[p] \in InstallRec /\ proc[p].pkg \in Packages
                 /\ Faithful(proc[p].pkg, Listed(p), setting)
           /\ proc[p].id \in Ids /\ proc[p].i \in Nat /\ Listed(p) \in Seq(Files)
           /\ Elems(Listed(p)) \cap Guarded = {} /\ tx[proc[p].id].backup \in [Files -> Content]
<1>1. TypeOK /\ Running(p) /\ proc[p] \in InstallRec \cup RollbackRec
  BY KindOfProc DEF ListInv, Running
<1>2. proc[p].id \in Ids /\ proc[p].i \in Nat
  BY <1>1 DEF InstallRec, RollbackRec
<1>3. proc[p].pc \in {"copy", "save", "mark"} =>
        /\ proc[p] \in InstallRec /\ proc[p].pkg \in Packages
        /\ Faithful(proc[p].pkg, Listed(p), setting)
  BY <1>1 DEF ListInv, WholeList, Listed, InstallRec, RollbackRec
<1>4. Listed(p) \in Seq(Files) /\ tx[proc[p].id].backup \in [Files -> Content]
  BY <1>1, <1>2 DEF TypeOK, TxRec, Listed
<1>5. Elems(Listed(p)) \cap Guarded = {}
  BY <1>2 DEF ListInv, CleanLists, Listed
<1> QED
  BY <1>1, <1>2, <1>3, <1>4, <1>5

(* The file in hand is none of the critical ones. *)
LEMMA InHandFacts ==
    ASSUME ListInv, NEW p \in Procs, proc[p].pc \in {"copy", "undo"}, More(p, Listed(p))
    PROVE  /\ Current(p, Listed(p)) \in Files \ Guarded /\ Current(p, Listed(p)) \in Elems(Listed(p))
           /\ fs[Current(p, Listed(p))] \in Content /\ Kept(p, Current(p, Listed(p))) \in Content
           /\ {Torn, Absent} \subseteq Content
<1>1. /\ TypeOK /\ proc[p].i \in Nat /\ Listed(p) \in Seq(Files) /\ Elems(Listed(p)) \cap Guarded = {}
      /\ tx[proc[p].id].backup \in [Files -> Content]
  BY ListedFacts
<1>2. Current(p, Listed(p)) \in Files /\ Current(p, Listed(p)) \in Elems(Listed(p))
  BY <1>1, CurrentFacts
<1> QED
  BY <1>1, <1>2 DEF TypeOK, Kept, Content

LEMMA CopyFileKeeps ==
    ASSUME ListInv, NEW p \in setting.procs, p \in Procs, UNCHANGED setting, CopyFile(p)
    PROVE  ListInv'
<1> DEFINE f == Current(p, Listed(p))
<1>1. At(p, "copy") /\ More(p, Listed(p)) /\ UNCHANGED <<tx, db, dirty, removing>>
  BY DEF CopyFile
<1>2. /\ TypeOK /\ Running(p) /\ proc[p] \in InstallRec /\ proc[p].pkg \in Packages
  BY <1>1, ListedFacts DEF At
<1>3. f \in Files \ Guarded /\ fs[f] \in Content /\ {Torn, Absent} \subseteq Content
  BY <1>1, InHandFacts DEF At
<1>4. CriticalUntouched /\ dirty' \subseteq Ids /\ removing' \subseteq Packages
  BY <1>1 DEF ListInv, TypeOK
<1>5. CASE Put(f, {proc[p].pkg}) /\ Advance(p)
  <2>1. {proc[p].pkg} \in SUBSET Content
    BY <1>2 DEF Content
  <2>2. CriticalUntouched' /\ fs' \in [Files -> Content]
    BY <1>2, <1>3, <1>4, <1>5, <2>1, PutNotCritical
  <2>3. /\ proc' \in [Procs -> ProcRec] /\ \A q \in Procs \ {p} : proc'[q] = proc[q]
        /\ proc'[p] \in InstallRec /\ proc'[p].pc = proc[p].pc
        /\ proc'[p].id = proc[p].id /\ proc'[p].pkg = proc[p].pkg
    BY <1>2, <1>5, AdvanceFacts
  <2>4. GoesOn(p)
    BY <1>1, <1>2, <1>4, <2>2, <2>3 DEF GoesOn, At
  <2> QED
    BY <2>4, GoesOnKeeps
<1>6. CASE Put(f, {fs[f], Torn}) /\ Goto(p, "undo")
  <2>1. {fs[f], Torn} \in SUBSET Content
    BY <1>3
  <2>2. CriticalUntouched' /\ fs' \in [Files -> Content]
    BY <1>2, <1>3, <1>4, <1>6, <2>1, PutNotCritical
  <2>3. /\ proc' \in [Procs -> ProcRec] /\ \A q \in Procs \ {p} : proc'[q] = proc[q]
        /\ proc'[p] \in InstallRec /\ proc'[p].pc = "undo"
        /\ proc'[p].id = proc[p].id /\ proc'[p].pkg = proc[p].pkg
    BY <1>2, <1>6, GotoFacts
  <2>4. GoesOn(p)
    BY <1>1, <1>2, <1>4, <2>2, <2>3 DEF GoesOn, At
  <2> QED
    BY <2>4, GoesOnKeeps
<1> QED
  BY <1>5, <1>6 DEF CopyFile

LEMMA CopyEndKeeps ==
    ASSUME ListInv, NEW p \in setting.procs, p \in Procs, UNCHANGED setting, CopyEnd(p)
    PROVE  ListInv'
<1>1. At(p, "copy") /\ UNCHANGED <<fs, tx, db, dirty, removing>>
  BY DEF CopyEnd, Keep
<1>2. TypeOK /\ proc[p] \in InstallRec
  BY <1>1, ListedFacts DEF At
<1>2a. PICK pc \in {"save", "undo"} : Goto(p, pc)
  BY DEF CopyEnd
<1>3. /\ proc' \in [Procs -> ProcRec] /\ \A q \in Procs \ {p} : proc'[q] = proc[q]
      /\ proc'[p] \in InstallRec /\ proc'[p].pc = pc
      /\ proc'[p].id = proc[p].id /\ proc'[p].pkg = proc[p].pkg
  BY <1>2, <1>2a, GotoFacts
<1>4. GoesOn(p)
  BY <1>1, <1>2, <1>3 DEF GoesOn, At, ListInv, TypeOK, CriticalUntouched
<1> QED
  BY <1>4, GoesOnKeeps

(* What a copy of the list into the database leaves, whole or torn. *)
LEMMA SavedFacts ==
    ASSUME ListInv, NEW p \in Procs, At(p, "save"),
           \/ db' = [db EXCEPT ![proc[p].pkg] = Listed(p)]
           \/ (Fault("db") \/ Fault("kill")) /\ SaveTorn(p)
    PROVE  /\ db' \in [Packages -> Seq(Files) \cup {NoList}]
           /\ \A k \in Packages \ {proc[p].pkg} : db'[k] = db[k]
           /\ \/ db'[proc[p].pkg] = db[proc[p].pkg]
              \/ /\ Recoverable(proc[p].pkg, db'[proc[p].pkg], setting)
                 /\ Elems(db'[proc[p].pkg]) \cap Guarded = {}
<1> DEFINE k == proc[p].pkg
<1>1. /\ TypeOK /\ k \in Packages /\ Faithful(k, Listed(p), setting)
      /\ Listed(p) \in Seq(Files) /\ Elems(Listed(p)) \cap Guarded = {}
  BY ListedFacts DEF At
<1>2. Listed(p) \in Prefixes(Manifest[k])
  BY <1>1 DEF Faithful
<1>3. db \in [Packages -> Seq(Files) \cup {NoList}]
  BY <1>1 DEF TypeOK
<1>4. CASE db' = [db EXCEPT ![k] = Listed(p)]
  <2>1. Recoverable(k, Listed(p), setting)
    BY <1>1 DEF Faithful, Recoverable
  <2> QED
    BY <1>1, <1>3, <1>4, <2>1
<1>5. CASE (Fault("db") \/ Fault("kill")) /\ SaveTorn(p)
  <2>1. PICK list \in {db[k]} \cup Prefixes(Listed(p)) : db' = [db EXCEPT ![k] = list]
    BY <1>5 DEF SaveTorn
  <2>2. CASE list = db[k]
    BY <1>1, <1>3, <2>1, <2>2
  <2>3. CASE list \in Prefixes(Listed(p))
    <3>1. list \in Prefixes(Manifest[k]) /\ Elems(list) \subseteq Elems(Listed(p))
      BY <1>1, <1>2, <2>3, PartOfPart
    <3>2. list \in Seq(Files)
      BY <1>1, <3>1, PartFacts
    <3>3. Recoverable(k, list, setting)
      BY <1>5, <3>1 DEF Recoverable, Fault
    <3>4. db'[k] = list
      BY <1>1, <1>3, <2>1
    <3>5. Elems(list) \cap Guarded = {}
      BY <1>1, <3>1
    <3> HIDE DEF k
    <3>6. db' \in [Packages -> Seq(Files) \cup {NoList}] /\ \A j \in Packages \ {k} : db'[j] = db[j]
      BY <1>1, <1>3, <2>1, <3>2
    <3> QED
      BY <3>3, <3>4, <3>5, <3>6 DEF k
  <2> QED
    BY <2>2, <2>3
<1> QED
  BY <1>4, <1>5

LEMMA SaveListKeeps ==
    ASSUME ListInv, NEW p \in setting.procs, p \in Procs, UNCHANGED setting, SaveList(p)
    PROVE  ListInv'
<1>0. TypeOK /\ Recording /\ WholeList /\ OwnTransaction /\ DbWhole /\ CleanLists /\ Unmade /\ CriticalUntouched
  BY DEF ListInv
<1>1. At(p, "save") /\ Goto(p, "mark") /\ UNCHANGED <<fs, tx, dirty, removing>>
  BY DEF SaveList
<1>2. /\ proc[p] \in InstallRec /\ proc[p].pkg \in Packages /\ proc[p].cmd = "install"
  BY <1>1, ListedFacts DEF At, InstallRec
<1>3. /\ proc' \in [Procs -> ProcRec] /\ \A q \in Procs \ {p} : proc'[q] = proc[q]
      /\ proc'[p] \in InstallRec /\ proc'[p].pc = "mark" /\ proc'[p].cmd = "install"
      /\ proc'[p].id = proc[p].id /\ proc'[p].pkg = proc[p].pkg
  BY <1>0, <1>1, <1>2, GotoFacts
<1>4. /\ db' \in [Packages -> Seq(Files) \cup {NoList}]
      /\ \A k \in Packages :
           db'[k] = db[k] \/ (Recoverable(k, db'[k], setting) /\ Elems(db'[k]) \cap Guarded = {})
  BY <1>1, SavedFacts DEF SaveList
<1>5. TypeOK'
  BY <1>0, <1>1, <1>3, <1>4 DEF TypeOK, ProcRec
<1>6. Recording' /\ WholeList'
  BY <1>0, <1>1, <1>3 DEF Recording, WholeList, At
<1>7. OwnTransaction' /\ Unmade'
  BY <1>0, <1>1, <1>2, <1>3 DEF OwnTransaction, Unmade, Running, At
<1>8. DbWhole'
  BY <1>0, <1>3, <1>4 DEF DbWhole, At
<1>9. CleanLists'
  BY <1>0, <1>1, <1>3, <1>4 DEF CleanLists, At
<1> QED
  BY <1>0, <1>1, <1>5, <1>6, <1>7, <1>8, <1>9 DEF ListInv, CriticalUntouched

LEMMA MarkKeeps ==
    ASSUME ListInv, NEW p \in setting.procs, p \in Procs, UNCHANGED setting, Mark(p)
    PROVE  /\ ListInv'
           /\ \A j \in Ids : tx'[j].list = tx[j].list /\ tx'[j].backup = tx[j].backup
                            /\ tx'[j].made = tx[j].made
           /\ \A q \in Procs \ {p} : proc'[q] = proc[q]
           /\ proc'[p].pc = "idle"
<1>0. TypeOK /\ Recording /\ WholeList /\ OwnTransaction /\ DbWhole /\ CleanLists /\ Unmade /\ CriticalUntouched
  BY DEF ListInv
<1>1. At(p, "mark") /\ End(p, 0) /\ UNCHANGED <<fs, db, removing>> /\ dirty' = dirty \ {proc[p].id}
  BY DEF Mark
<1>2. proc[p] \in InstallRec /\ proc[p].id \in Ids
  BY <1>1, ListedFacts DEF At
<1>3. /\ proc' \in [Procs -> ProcRec] /\ \A q \in Procs \ {p} : proc'[q] = proc[q]
      /\ proc'[p].pc = "idle"
  BY <1>0, <1>1, EndFacts DEF End
<1>4. /\ tx' \in [Ids -> TxRec]
      /\ \A j \in Ids : tx'[j].list = tx[j].list /\ tx'[j].backup = tx[j].backup
                       /\ tx'[j].made = tx[j].made
  <2>1. tx \in [Ids -> TxRec]
    BY <1>0 DEF TypeOK
  <2>2. CASE UNCHANGED tx
    BY <2>1, <2>2
  <2>3. CASE tx' = [tx EXCEPT ![proc[p].id].committed = TRUE]
    <3> DEFINE r == [tx[proc[p].id] EXCEPT !.committed = TRUE]
    <3>1. /\ r \in TxRec /\ r.list = tx[proc[p].id].list /\ r.backup = tx[proc[p].id].backup
          /\ r.made = tx[proc[p].id].made
      BY <1>2, <2>1 DEF TxRec
    <3>2. tx' = [tx EXCEPT ![proc[p].id] = r]
      BY <2>3
    <3> HIDE DEF r
    <3> QED
      BY <1>2, <2>1, <3>1, <3>2
  <2> QED
    BY <2>2, <2>3 DEF Mark
<1>5. TypeOK'
  BY <1>0, <1>1, <1>3, <1>4 DEF TypeOK, ProcRec
<1>6. Recording' /\ WholeList'
  BY <1>0, <1>3, <1>4, KindOfProc DEF Recording, WholeList, At, InstallRec
<1>7. OwnTransaction'
  BY <1>0, <1>3 DEF OwnTransaction, Running
<1>8. DbWhole' /\ CleanLists'
  BY <1>0, <1>1, <1>3, <1>4 DEF DbWhole, CleanLists, At
<1>9. Unmade'
  <2>1. \A q \in Procs : Running(q)' => q # p /\ Running(q) /\ proc'[q] = proc[q]
    BY <1>3 DEF Running
  <2>2. \A q \in Procs : Running(q) /\ proc[q].cmd = "rollback" => proc[q].id \in Ids
    BY <1>0, KindOfProc DEF Running, ProcRec, IdleRec, InstallRec, RollbackRec, RemoveRec
  <2> QED
    BY <1>0, <1>4, <2>1, <2>2 DEF Unmade
<1> QED
  BY <1>0, <1>1, <1>3, <1>4, <1>5, <1>6, <1>7, <1>8, <1>9 DEF ListInv, CriticalUntouched

(* A command that ends at once, refused or with nothing to do. *)
LEMMA EndsKeeps ==
    ASSUME ListInv, NEW p \in setting.procs, p \in Procs, UNCHANGED <<setting, fs, tx, db>>,
           dirty' \subseteq Ids, removing' \subseteq Packages,
           NEW r \in {0, 1, 2, 3, 137}, proc' = [proc EXCEPT ![p] = Idle(r)]
    PROVE  ListInv'
<1>1. /\ proc' \in [Procs -> ProcRec] /\ \A q \in Procs \ {p} : proc'[q] = proc[q]
      /\ proc'[p].pc = "idle"
  BY EndFacts DEF ListInv
<1>2. GoesOn(p)
  BY <1>1 DEF GoesOn, ListInv, TypeOK, CriticalUntouched
<1> QED
  BY <1>2, GoesOnKeeps

LEMMA RollbackBeginKeeps ==
    ASSUME ListInv, NEW p \in setting.procs, p \in Procs, UNCHANGED setting,
           NEW id \in Ids, RollbackBegin(p, id)
    PROVE  ListInv'
<1>0. TypeOK /\ Recording /\ WholeList /\ OwnTransaction /\ DbWhole /\ CleanLists /\ Unmade /\ CriticalUntouched
  BY DEF ListInv
<1>1. UNCHANGED <<fs, tx, db, removing>>
  BY DEF RollbackBegin
<1>2. CASE proc' = [proc EXCEPT ![p] = Idle(2)] /\ UNCHANGED dirty
  BY <1>0, <1>1, <1>2, EndsKeeps DEF TypeOK
<1>3. CASE /\ tx[id].made /\ dirty' = dirty \cup {id}
           /\ proc' = [proc EXCEPT ![p] =
                [pc |-> "undo", cmd |-> "rollback", id |-> id, i |-> 0, bad |-> FALSE,
                 paths |-> Elems(tx[id].list)]]
  <2> DEFINE rec == [pc |-> "undo", cmd |-> "rollback", id |-> id, i |-> 0, bad |-> FALSE,
                     paths |-> Elems(tx[id].list)]
  <2>1. Elems(tx[id].list) \in SUBSET Files
    BY <1>0 DEF TypeOK, TxRec, Elems
  <2>2. rec \in RollbackRec /\ rec.pc = "undo" /\ rec.cmd = "rollback" /\ rec.id = id
    BY <2>1 DEF RollbackRec
  <2>3. proc \in [Procs -> ProcRec] /\ rec \in ProcRec
    BY <1>0, <2>2 DEF TypeOK, ProcRec
  <2> HIDE DEF rec
  <2>4. /\ proc' \in [Procs -> ProcRec] /\ \A q \in Procs \ {p} : proc'[q] = proc[q]
        /\ proc'[p].pc = "undo" /\ proc'[p].cmd = "rollback" /\ proc'[p].id = id
    BY <1>3, <2>2, <2>3 DEF rec
  <2>5. TypeOK'
    BY <1>0, <1>1, <1>3, <2>4 DEF TypeOK, ProcRec
  <2>6. Recording' /\ WholeList'
    BY <1>0, <1>1, <2>4 DEF Recording, WholeList, At
  <2>7. OwnTransaction' /\ Unmade'
    BY <1>0, <1>1, <1>3, <2>4 DEF OwnTransaction, Unmade, Running
  <2>8. DbWhole' /\ CleanLists'
    BY <1>0, <1>1, <2>4 DEF DbWhole, CleanLists, At
  <2> QED
    BY <1>0, <1>1, <2>5, <2>6, <2>7, <2>8 DEF ListInv, CriticalUntouched
<1> QED
  BY <1>2, <1>3 DEF RollbackBegin

LEMMA UndoFileKeeps ==
    ASSUME ListInv, NEW p \in setting.procs, p \in Procs, UNCHANGED setting, UndoFile(p)
    PROVE  ListInv'
<1> DEFINE f == Current(p, Listed(p))
<1>1. At(p, "undo") /\ More(p, Listed(p)) /\ UNCHANGED <<tx, db, dirty, removing>>
  BY DEF UndoFile
<1>2. TypeOK /\ Running(p) /\ proc[p] \in InstallRec \cup RollbackRec
  BY <1>1, ListedFacts DEF At
<1>3. f \in Files \ Guarded /\ fs[f] \in Content /\ Kept(p, f) \in Content /\ {Torn, Absent} \subseteq Content
  BY <1>1, InHandFacts DEF At
<1>4. CriticalUntouched /\ dirty' \subseteq Ids /\ removing' \subseteq Packages
  BY <1>1 DEF ListInv, TypeOK
<1>5. PICK C \in SUBSET Content : Put(f, C) /\ (Advance(p) \/ AdvanceFailed(p))
  <2>1. CASE Put(f, {Restored(p, f)}) /\ Advance(p)
    <3>1. {Restored(p, f)} \in SUBSET Content
      BY <1>3 DEF Restored
    <3> QED
      BY <2>1, <3>1
  <2>2. CASE /\ Put(f, IF Kept(p, f) = Absent THEN {fs[f]} ELSE {Absent, Torn})
             /\ AdvanceFailed(p)
    <3>1. (IF Kept(p, f) = Absent THEN {fs[f]} ELSE {Absent, Torn}) \in SUBSET Content
      BY <1>3
    <3> QED
      BY <2>2, <3>1
  <2> QED
    BY <2>1, <2>2 DEF UndoFile
<1>6. CriticalUntouched' /\ fs' \in [Files -> Content]
  BY <1>2, <1>3, <1>4, <1>5, PutNotCritical
<1>7. /\ proc' \in [Procs -> ProcRec] /\ \A q \in Procs \ {p} : proc'[q] = proc[q]
      /\ proc'[p].pc = proc[p].pc
      /\ proc[p] \in InstallRec => proc'[p] \in InstallRec /\ proc'[p].pkg = proc[p].pkg
      /\ proc[p] \in RollbackRec => proc'[p] \in RollbackRec
      /\ proc'[p].id = proc[p].id
  BY <1>2, <1>5, AdvanceFacts
<1>8. GoesOn(p)
  BY <1>1, <1>2, <1>4, <1>6, <1>7 DEF GoesOn, At
<1> QED
  BY <1>8, GoesOnKeeps

LEMMA UndoEndKeeps ==
    ASSUME ListInv, NEW p \in setting.procs, p \in Procs, UNCHANGED setting, UndoEnd(p)
    PROVE  ListInv'
<1>1. dirty' \subseteq Ids /\ removing' \subseteq Packages /\ UNCHANGED <<fs, tx, db>>
  BY DEF UndoEnd, ListInv, TypeOK
<1>2. PICK r \in {0, 1} : proc' = [proc EXCEPT ![p] = Idle(r)]
  BY DEF UndoEnd, End
<1> QED
  BY <1>1, <1>2, EndsKeeps

LEMMA UndoFailsKeeps ==
    ASSUME ListInv, NEW p \in setting.procs, p \in Procs, UNCHANGED setting, UndoFails(p)
    PROVE  ListInv'
<1>1. dirty' \subseteq Ids /\ removing' \subseteq Packages /\ UNCHANGED <<fs, tx, db>>
  BY DEF UndoFails, Keep, ListInv, TypeOK
<1>2. PICK r \in {1, 2} : proc' = [proc EXCEPT ![p] = Idle(r)]
  BY DEF UndoFails, End
<1> QED
  BY <1>1, <1>2, EndsKeeps

LEMMA RemoveBeginKeeps ==
    ASSUME ListInv, NEW p \in setting.procs, p \in Procs, UNCHANGED setting,
           NEW k \in Packages, RemoveBegin(p, k)
    PROVE  ListInv'
<1>0. TypeOK /\ Recording /\ WholeList /\ OwnTransaction /\ DbWhole /\ CleanLists /\ Unmade /\ CriticalUntouched
  BY DEF ListInv
<1>1. UNCHANGED <<fs, tx, db, dirty>>
  BY DEF RemoveBegin
<1>2. CASE proc' = [proc EXCEPT ![p] = Idle(2)] /\ UNCHANGED removing
  BY <1>0, <1>1, <1>2, EndsKeeps DEF TypeOK
<1>3. CASE /\ db[k] # NoList /\ removing' = removing \cup {k}
           /\ proc' = [proc EXCEPT ![p] =
                [pc |-> "unlink", cmd |-> "remove", pkg |-> k, list |-> db[k], i |-> 0, bad |-> FALSE,
                 paths |-> Targets[k]]]
  <2> DEFINE rec == [pc |-> "unlink", cmd |-> "remove", pkg |-> k, list |-> db[k], i |-> 0, bad |-> FALSE,
                     paths |-> Targets[k]]
  <2>1. Targets[k] \in SUBSET Files /\ db[k] \in Seq(Files)
    BY <1>0, <1>3, PackageAssumption DEF TypeOK, Targets, Elems
  <2>2. rec \in RemoveRec /\ rec.pc = "unlink" /\ rec.cmd = "remove" /\ rec.pkg = k /\ rec.list = db[k]
    BY <2>1 DEF RemoveRec
  <2>3. proc \in [Procs -> ProcRec] /\ rec \in ProcRec
    BY <1>0, <2>2 DEF TypeOK, ProcRec
  <2> HIDE DEF rec
  <2>4. /\ proc' \in [Procs -> ProcRec] /\ \A q \in Procs \ {p} : proc'[q] = proc[q]
        /\ proc'[p].pc = "unlink" /\ proc'[p].cmd = "remove" /\ proc'[p].pkg = k
        /\ proc'[p].list = db[k]
    BY <1>3, <2>2, <2>3 DEF rec
  <2>5. TypeOK'
    BY <1>0, <1>1, <1>3, <2>4 DEF TypeOK, ProcRec
  <2>6. Recording' /\ WholeList'
    BY <1>0, <1>1, <2>4 DEF Recording, WholeList, At
  <2>7. OwnTransaction' /\ Unmade'
    BY <1>0, <1>1, <2>4 DEF OwnTransaction, Unmade, Running
  <2>8. DbWhole' /\ CleanLists'
    BY <1>0, <1>1, <1>3, <2>4 DEF DbWhole, CleanLists, At
  <2> QED
    BY <1>0, <1>1, <2>5, <2>6, <2>7, <2>8 DEF ListInv, CriticalUntouched
<1> QED
  BY <1>2, <1>3 DEF RemoveBegin

(* What holds of a command that removes. *)
LEMMA RemoveFacts ==
    ASSUME ListInv, NEW p \in Procs, At(p, "unlink")
    PROVE  /\ TypeOK /\ Running(p) /\ proc[p] \in RemoveRec /\ proc[p].pkg \in Packages
           /\ proc[p].i \in Nat /\ proc[p].list \in Seq(Files)
           /\ proc[p].list \in Prefixes(Manifest[proc[p].pkg])
           /\ Elems(proc[p].list) \subseteq Targets[proc[p].pkg] /\ Elems(proc[p].list) \cap Guarded = {}
<1>1. TypeOK /\ Running(p) /\ proc[p] \in RemoveRec
  BY KindOfProc DEF ListInv, At, Running
<1>2. proc[p].pkg \in Packages /\ proc[p].i \in Nat /\ proc[p].list \in Seq(Files)
  BY <1>1 DEF RemoveRec
<1>3. proc[p].list \in Prefixes(Manifest[proc[p].pkg]) /\ Elems(proc[p].list) \cap Guarded = {}
  BY DEF ListInv, DbWhole, CleanLists, Recoverable
<1>4. Elems(proc[p].list) \subseteq Targets[proc[p].pkg]
  BY <1>2, <1>3, PartFacts
<1> QED
  BY <1>1, <1>2, <1>3, <1>4

LEMMA UnlinkFileKeeps ==
    ASSUME ListInv, NEW p \in setting.procs, p \in Procs, UNCHANGED setting, UnlinkFile(p)
    PROVE  ListInv'
<1> DEFINE f == Current(p, proc[p].list)
<1>1. At(p, "unlink") /\ More(p, proc[p].list) /\ UNCHANGED <<tx, db, dirty, removing>>
  BY DEF UnlinkFile
<1>2. /\ TypeOK /\ Running(p) /\ proc[p] \in RemoveRec /\ proc[p].i \in Nat
      /\ proc[p].list \in Seq(Files) /\ Elems(proc[p].list) \cap Guarded = {}
  BY <1>1, RemoveFacts
<1>3. f \in Files \ Guarded
  BY <1>1, <1>2, CurrentFacts
<1>4. CriticalUntouched /\ dirty' \subseteq Ids /\ removing' \subseteq Packages
  BY <1>1 DEF ListInv, TypeOK
<1>5. CriticalUntouched' /\ fs' \in [Files -> Content]
  <2>1. CASE Put(f, {Absent})
    <3>1. {Absent} \in SUBSET Content
      BY DEF Content
    <3> QED
      BY <1>2, <1>3, <1>4, <2>1, <3>1, PutNotCritical
  <2>2. CASE UNCHANGED fs
    BY <1>2, <1>4, <2>2 DEF CriticalUntouched, TypeOK
  <2> QED
    BY <2>1, <2>2 DEF UnlinkFile
<1>6. Advance(p) \/ AdvanceFailed(p)
  BY DEF UnlinkFile
<1>7. /\ proc' \in [Procs -> ProcRec] /\ \A q \in Procs \ {p} : proc'[q] = proc[q]
      /\ proc'[p] \in RemoveRec /\ proc'[p].pkg = proc[p].pkg /\ proc'[p].list = proc[p].list
  BY <1>2, <1>6, AdvanceFacts
<1>8. GoesOn(p)
  BY <1>1, <1>2, <1>4, <1>5, <1>7 DEF GoesOn
<1> QED
  BY <1>8, GoesOnKeeps

LEMMA UnlinkEndKeeps ==
    ASSUME ListInv, NEW p \in setting.procs, p \in Procs, UNCHANGED setting, UnlinkEnd(p)
    PROVE  ListInv'
<1>0. TypeOK /\ Recording /\ WholeList /\ OwnTransaction /\ DbWhole /\ CleanLists /\ Unmade /\ CriticalUntouched
  BY DEF ListInv
<1>1. /\ db' \in {db, [db EXCEPT ![proc[p].pkg] = NoList]} /\ removing' = removing \ {proc[p].pkg}
      /\ UNCHANGED <<fs, tx, dirty>>
  BY DEF UnlinkEnd
<1>2. PICK r \in {0, 1} : proc' = [proc EXCEPT ![p] = Idle(r)]
  BY DEF UnlinkEnd, End
<1>3. /\ proc' \in [Procs -> ProcRec] /\ \A q \in Procs \ {p} : proc'[q] = proc[q]
      /\ proc'[p].pc = "idle"
  BY <1>0, <1>2, EndFacts
<1>4. /\ db' \in [Packages -> Seq(Files) \cup {NoList}]
      /\ \A k \in Packages : db'[k] \in {db[k], NoList}
  BY <1>0, <1>1 DEF TypeOK
<1>5. TypeOK'
  BY <1>0, <1>1, <1>3, <1>4 DEF TypeOK, ProcRec
<1>6. Recording' /\ WholeList'
  BY <1>0, <1>1, <1>3 DEF Recording, WholeList, At
<1>7. OwnTransaction' /\ Unmade'
  BY <1>0, <1>1, <1>3 DEF OwnTransaction, Unmade, Running
<1>8. DbWhole' /\ CleanLists'
  BY <1>0, <1>1, <1>3, <1>4 DEF DbWhole, CleanLists, At
<1> QED
  BY <1>0, <1>1, <1>5, <1>6, <1>7, <1>8 DEF ListInv, CriticalUntouched

(* What a kill in the record phase leaves of the list names no critical path. *)
LEMMA KillRecordingKeeps ==
    ASSUME ListInv, NEW p \in setting.procs, p \in Procs, UNCHANGED setting,
           KillRecording(p), End(p, 137), UNCHANGED <<dirty, removing>>
    PROVE  ListInv'
<1> DEFINE m == Manifest[proc[p].pkg]
           id == proc[p].id
<1>0. TypeOK /\ At(p, "record") /\ UNCHANGED <<fs, db>>
  BY DEF ListInv, KillRecording
<1>1. /\ id \in Ids /\ proc[p].pkg \in Packages /\ proc[p].i \in Nat /\ proc[p].i <= Len(m) /\ m \in Seq(Files)
      /\ tx[id].backup \in [Files -> Content] /\ tx[id].made = TRUE
      /\ Names(m, proc[p].i) \cap Guarded = {}
      /\ \A g \in Files, c \in Content : Backup(p, g, c) \in [Files -> Content]
      /\ \A q \in Procs \ {p} : Running(q) /\ proc[q].cmd = "install" => proc[q].id # id
  BY <1>0, RecordFacts
<1>2. PICK n \in 0 .. (proc[p].i + 1), b \in {tx[id].backup} \cup
                     (IF More(p, m) /\ fs[Current(p, m)] # Absent
                         THEN {Backup(p, Current(p, m), Torn)} ELSE {}) :
         /\ n <= proc[p].i \/ (More(p, m) /\ ~critical_path(proc[p].pkg, proc[p].i + 1))
         /\ Log(id, SubSeq(m, 1, n), b)
  <2>1. 0 \in 0 .. (proc[p].i + 1)
    BY <1>1
  <2> QED
    BY <2>1 DEF KillRecording
<1>3. b \in [Files -> Content]
  <2>1. CASE b = tx[id].backup
    BY <1>1, <2>1
  <2>2. CASE More(p, m) /\ b = Backup(p, Current(p, m), Torn)
    <3>1. Current(p, m) \in Files /\ Torn \in Content
      BY <1>1, <2>2, CurrentFacts DEF Content
    <3>2. Backup(p, Current(p, m), Torn) \in [Files -> Content]
      BY <1>1, <3>1, Zenon
    <3> QED
      BY <2>2, <3>2
  <2> QED
    BY <1>2, <2>1, <2>2
<1>4. n \in 0 .. Len(m) /\ Names(m, n) \cap Guarded = {}
  <2>0. n \in Nat /\ n <= proc[p].i + 1 /\ Len(m) \in Nat /\ proc[p].i \in Nat /\ proc[p].i <= Len(m)
    BY <1>1
  <2>1. CASE n <= proc[p].i
    <3>1. Names(m, n) \subseteq Names(m, proc[p].i)
      BY <2>0, <2>1 DEF Names
    <3>2. n \in 0 .. Len(m)
      BY <2>0, <2>1
    <3> QED
      BY <1>1, <3>1, <3>2
  <2>2. CASE n = proc[p].i + 1 /\ More(p, m) /\ ~critical_path(proc[p].pkg, proc[p].i + 1)
    <3>0. proc[p].i < Len(m)
      BY <2>2 DEF More
    <3>1. n \in 0 .. Len(m) /\ proc[p].i + 1 \in 1 .. Len(m)
      BY <2>0, <2>2, <3>0
    <3>1a. m[proc[p].i + 1] \notin Guarded
      BY <1>1, <2>2, <3>1, NotGuarded
    <3>2. Names(m, n) = Names(m, proc[p].i) \cup {m[proc[p].i + 1]}
      BY <1>1, <2>0, <2>2, NamesNext DEF More
    <3> QED
      BY <1>1, <3>1, <3>1a, <3>2
  <2>3. n <= proc[p].i \/ n = proc[p].i + 1
    BY <2>0
  <2> QED
    BY <1>2, <2>1, <2>2, <2>3
<1>5. SubSeq(m, 1, n) \in Seq(Files) /\ Elems(SubSeq(m, 1, n)) = Names(m, n)
  <2> DEFINE l == SubSeq(m, 1, n)
  <2>1. l \in Seq(Files) /\ Len(l) = n /\ \A j \in 1 .. n : l[j] = m[j]
    BY <1>1, <1>4, PrefixFacts
  <2> HIDE DEF l
  <2>2. Elems(l) = Names(m, n)
    BY <2>1 DEF Elems, Names
  <2> QED
    BY <2>1, <2>2 DEF l
<1>6. /\ tx' \in [Ids -> TxRec] /\ \A j \in Ids \ {id} : tx'[j] = tx[j]
      /\ tx'[id].list = SubSeq(m, 1, n) /\ tx'[id].made = tx[id].made
  BY <1>0, <1>1, <1>2, <1>3, <1>5, TxFacts
<1>7. /\ proc' \in [Procs -> ProcRec] /\ \A q \in Procs \ {p} : proc'[q] = proc[q]
      /\ proc'[p].pc = "idle"
  BY <1>0, EndFacts DEF End
<1>8. dirty' \subseteq Ids /\ removing' \subseteq Packages
  BY <1>0 DEF TypeOK
<1>9. tx'[id].made = TRUE /\ Elems(tx'[id].list) \cap Guarded = {}
  BY <1>1, <1>4, <1>5, <1>6
<1> HIDE DEF m, id
<1>10. OwnStep(p, id)
  BY <1>0, <1>1, <1>6, <1>7, <1>8, <1>9 DEF OwnStep
<1> QED
  BY <1>1, <1>10, OwnTxKeeps

(* What a kill leaves of the list in the database. *)
LEMMA KillSavingKeeps ==
    ASSUME ListInv, NEW p \in setting.procs, p \in Procs, UNCHANGED setting,
           Fault("kill"), KillSaving(p), End(p, 137), UNCHANGED <<dirty, removing>>
    PROVE  ListInv'
<1>0. TypeOK /\ Recording /\ WholeList /\ OwnTransaction /\ DbWhole /\ CleanLists /\ Unmade /\ CriticalUntouched
  BY DEF ListInv
<1>1. At(p, "save") /\ SaveTorn(p) /\ UNCHANGED <<fs, tx>>
  BY DEF KillSaving
<1>2. /\ proc' \in [Procs -> ProcRec] /\ \A q \in Procs \ {p} : proc'[q] = proc[q]
      /\ proc'[p].pc = "idle"
  BY <1>0, EndFacts DEF End
<1>3. /\ db' \in [Packages -> Seq(Files) \cup {NoList}]
      /\ \A k \in Packages :
           db'[k] = db[k] \/ (Recoverable(k, db'[k], setting) /\ Elems(db'[k]) \cap Guarded = {})
  BY <1>1, SavedFacts
<1>4. TypeOK'
  BY <1>0, <1>1, <1>2, <1>3 DEF TypeOK, ProcRec
<1>5. Recording' /\ WholeList'
  BY <1>0, <1>1, <1>2 DEF Recording, WholeList, At
<1>6. OwnTransaction' /\ Unmade'
  BY <1>0, <1>1, <1>2 DEF OwnTransaction, Unmade, Running
<1>7. DbWhole' /\ CleanLists'
  BY <1>0, <1>1, <1>2, <1>3 DEF DbWhole, CleanLists, At
<1> QED
  BY <1>0, <1>1, <1>4, <1>5, <1>6, <1>7 DEF ListInv, CriticalUntouched

(* Wherever a command is killed, the lists stay in order. *)
LEMMA KillKeeps ==
    ASSUME ListInv, NEW p \in setting.procs, p \in Procs, UNCHANGED setting, Kill(p)
    PROVE  ListInv'
<1>0. TypeOK /\ CriticalUntouched
  BY DEF ListInv
<1>1. Fault("kill") /\ End(p, 137) /\ UNCHANGED <<dirty, removing>>
  BY DEF Kill
<1>2. CASE KillRecording(p)
  BY <1>1, <1>2, KillRecordingKeeps
<1>2a. CASE KillSaving(p)
  BY <1>1, <1>2a, KillSavingKeeps
<1>3. ASSUME UNCHANGED <<tx, db>>, CriticalUntouched', fs' \in [Files -> Content] PROVE ListInv'
  <2>1. /\ proc' \in [Procs -> ProcRec] /\ \A q \in Procs \ {p} : proc'[q] = proc[q]
        /\ proc'[p].pc = "idle"
    BY <1>0, <1>1, EndFacts DEF End
  <2>2. GoesOn(p)
    BY <1>0, <1>1, <1>3, <2>1 DEF GoesOn, TypeOK
  <2> QED
    BY <2>2, GoesOnKeeps
<1>4. CASE KillElsewhere(p)
  BY <1>0, <1>3, <1>4 DEF KillElsewhere, CriticalUntouched, TypeOK
<1>5. CASE KillWriting(p)
  <2>1. CASE ~More(p, Listed(p))
    BY <1>0, <1>3, <1>5, <2>1 DEF KillWriting, CriticalUntouched, TypeOK
  <2>2. CASE More(p, Listed(p))
    <3> DEFINE f == Current(p, Listed(p))
               C == {fs[f], Torn} \cup (IF At(p, "undo") THEN {Absent} ELSE {})
    <3>1. proc[p].pc \in {"copy", "undo"}
      BY <1>5 DEF KillWriting, At
    <3>2. f \in Files \ Guarded /\ fs[f] \in Content /\ {Torn, Absent} \subseteq Content
      BY <2>2, <3>1, InHandFacts
    <3>3. C \in SUBSET Content
      BY <3>2
    <3>4. Put(f, C) /\ UNCHANGED <<tx, db>>
      BY <1>5, <2>2 DEF KillWriting
    <3> HIDE DEF C
    <3>5. CriticalUntouched' /\ fs' \in [Files -> Content]
      BY <1>0, <3>2, <3>3, <3>4, PutNotCritical
    <3> QED
      BY <1>3, <3>4, <3>5
  <2> QED
    BY <2>1, <2>2
<1> QED
  BY <1>2, <1>2a, <1>4, <1>5 DEF Kill
-----------------------------------------------------------------------------
(* The processes, packages and identifiers of a setting are those of the      *)
(* constants.                                                                 *)
LEMMA SettingFacts ==
    ASSUME TypeOK
    PROVE  setting.procs \subseteq Procs /\ setting.pkgs \subseteq Packages /\ setting.ids \subseteq Ids
  BY PackageAssumption DEF TypeOK

(* Every step keeps the lists in order. *)
LEMMA ListInvStep == ListInv /\ [Next]_vars => ListInv'
<1> SUFFICES ASSUME ListInv, [Next]_vars PROVE ListInv'
  OBVIOUS
<1>1. CASE UNCHANGED vars
  BY <1>1 DEF vars, ListInv, TypeOK, Recording, WholeList, OwnTransaction, DbWhole, CleanLists, Unmade,
              CriticalUntouched, At, Running
<1>2. CASE Next
  <2>1. UNCHANGED setting /\ \E p \in setting.procs : Begin(p) \/ Step(p) \/ Kill(p)
    BY <1>2 DEF Next
  <2>2. PICK p \in setting.procs : Begin(p) \/ Step(p) \/ Kill(p)
    BY <2>1
  <2>3. p \in Procs /\ setting.pkgs \subseteq Packages /\ setting.ids \subseteq Ids
    BY SettingFacts DEF ListInv
  <2>4. CASE Begin(p)
    <3>1. ASSUME NEW k \in setting.pkgs, InstallRefused(p, k) PROVE ListInv'
      <4>1. /\ proc' = [proc EXCEPT ![p] = Idle(3)] /\ UNCHANGED <<fs, tx, db>>
            /\ dirty' \subseteq Ids /\ removing' \subseteq Packages
        BY <3>1 DEF InstallRefused, Keep, ListInv, TypeOK
      <4> QED
        BY <2>1, <2>3, <4>1, EndsKeeps
    <3>2. ASSUME NEW k \in setting.pkgs, RemoveBegin(p, k) PROVE ListInv'
      BY <2>1, <2>3, <3>2, RemoveBeginKeeps
    <3>3. ASSUME NEW k \in setting.pkgs, NEW id \in setting.ids, InstallBegin(p, k, id) PROVE ListInv'
      BY <2>1, <2>3, <3>3, BeginKeeps
    <3>4. ASSUME NEW id \in setting.ids, RollbackBegin(p, id) PROVE ListInv'
      BY <2>1, <2>3, <3>4, RollbackBeginKeeps
    <3> QED
      BY <2>4, <3>1, <3>2, <3>3, <3>4 DEF Begin
  <2>5. CASE Step(p)
    <3>1. CASE RecordFile(p) \/ RecordEnd(p)
      BY <2>1, <2>3, <3>1, RecordFileKeeps, RecordEndKeeps
    <3>2. CASE CopyFile(p) \/ CopyEnd(p)
      BY <2>1, <2>3, <3>2, CopyFileKeeps, CopyEndKeeps
    <3>3. CASE SaveList(p) \/ Mark(p)
      BY <2>1, <2>3, <3>3, SaveListKeeps, MarkKeeps
    <3>4. CASE UndoFile(p) \/ UndoEnd(p) \/ UndoFails(p)
      BY <2>1, <2>3, <3>4, UndoFileKeeps, UndoEndKeeps, UndoFailsKeeps
    <3>5. CASE UnlinkFile(p) \/ UnlinkEnd(p)
      BY <2>1, <2>3, <3>5, UnlinkFileKeeps, UnlinkEndKeeps
    <3> QED
      BY <2>5, <3>1, <3>2, <3>3, <3>4, <3>5 DEF Step
  <2>6. CASE Kill(p)
    BY <2>1, <2>3, <2>6, KillKeeps
  <2> QED
    BY <2>2, <2>4, <2>5, <2>6
<1> QED
  BY <1>1, <1>2

(* Lists, database and types are in order in every reachable state. *)
THEOREM ListsAlways == Spec => []ListInv
  BY ListInvInit, ListInvStep, PTL DEF Spec

(* Types of what is on the disk and of the running commands, always.          *)
THEOREM PackageTypes == Spec => []TypeOK
  BY ListsAlways, PTL DEF ListInv

(* Whatever fails, is killed, is run at once or reuses an identifier, no      *)
(* command ever changes a path that critical_path names, unless a manifest    *)
(* spells that path in a way critical_path does not compare.                  *)
THEOREM CriticalUntouchedAlways == Spec => []CriticalUntouched
  BY ListsAlways, PTL DEF ListInv

(* What a removal goes by are the first names of its package's manifest, in   *)
(* their order, and all of them where no list could be cut short by a failing *)
(* write or a kill.                                                           *)
THEOREM DatabaseWhole == Spec => []DbWhole
  BY ListsAlways, PTL DEF ListInv

-----------------------------------------------------------------------------
(* The files change by whole packages: the package manager implements         *)
(* AtomicInstall whenever interrupted commands are repeated before others,     *)
(* commands run at once only on disjoint paths, and backups can be made and    *)
(* restored.                                                                   *)

(* Whoever runs the commands keeps to the discipline, and no identifier names *)
(* two transactions.                                                          *)
Orderly == setting.disciplined /\ ~setting.reuse

TxCmd(p) == Running(p) /\ proc[p].cmd # "remove"
RmCmd(p) == Running(p) /\ proc[p].cmd = "remove"
Zone(id) == Elems(tx[id].list)

(* Commands at work touch disjoint paths, and no two the same transaction.    *)
Apart ==
    \A p, q \in Procs : p # q /\ Running(p) /\ Running(q) =>
        /\ proc[p].paths \cap proc[q].paths = {}
        /\ proc[p].cmd # "remove" /\ proc[q].cmd # "remove" => proc[p].id # proc[q].id

(* A command stays within the paths it was started on.                        *)
Scope(p) ==
    /\ proc[p].cmd = "install" => proc[p].paths = Targets[proc[p].pkg] /\ Zone(proc[p].id) \subseteq proc[p].paths
    /\ proc[p].cmd = "rollback" => proc[p].paths = Zone(proc[p].id)
    /\ proc[p].cmd = "remove" => proc[p].paths = Targets[proc[p].pkg]

OrderInv == Orderly => Apart /\ \A p \in Procs : Running(p) => Scope(p)
-----------------------------------------------------------------------------
(* One command at a time, or the discipline. *)
Tidy == Orderly \/ \A p, q \in setting.procs : p = q

(* No manifest names a path twice. *)
DistinctPaths ==
    \A k \in Packages : \A i, j \in DOMAIN Manifest[k] : i # j => Manifest[k][i] # Manifest[k][j]

(* What is recorded, or still to be overwritten, is kept.                     *)
KeptAt(p) ==
    /\ At(p, "record") =>
          \A f \in Names(Manifest[proc[p].pkg], proc[p].i) : fs[f] # Absent => Kept(p, f) = fs[f]
    /\ At(p, "copy") =>
          \A j \in DOMAIN Listed(p) : j > proc[p].i /\ fs[Listed(p)[j]] # Absent
              => Kept(p, Listed(p)[j]) = fs[Listed(p)[j]]
KeptInv == Tidy => \A p \in Procs : KeptAt(p)
-----------------------------------------------------------------------------
(* The zones of transactions and removals in progress, or interrupted.        *)
ZonesApart ==
    /\ \A i, j \in dirty : i # j => Zone(i) \cap Zone(j) = {}
    /\ \A i \in dirty, k \in removing : Zone(i) \cap Targets[k] = {}
    /\ \A k, l \in removing : k # l => Targets[k] \cap Targets[l] = {}

(* A command's paths lie in no zone but its own.                              *)
Clear(p) ==
    /\ \A i \in dirty : Zone(i) \cap proc[p].paths = {} \/ (proc[p].cmd # "remove" /\ proc[p].id = i)
    /\ \A k \in removing : Targets[k] \cap proc[p].paths = {} \/ (proc[p].cmd = "remove" /\ proc[p].pkg = k)

(* How far a command has come. *)
Recorded(p) ==
    /\ proc[p].id \notin dirty
    /\ \A f \in Files : Kept(p, f) = IF f \in Names(Manifest[proc[p].pkg], proc[p].i) THEN fs[f] ELSE Absent
Copied(p) ==
    /\ proc[p].i <= Len(Listed(p))
    /\ \A f \in Names(Listed(p), proc[p].i) : fs[f] = proc[p].pkg
Undone(p) ==
    /\ proc[p].i <= Len(Listed(p))
    /\ \A f \in Names(Listed(p), proc[p].i) : fs[f] = Kept(p, f)
Unlinked(p) ==
    /\ proc[p].pkg \in removing \/ Targets[proc[p].pkg] = {}
    /\ proc[p].i <= Len(proc[p].list)
    /\ \A f \in Names(proc[p].list, proc[p].i) : fs[f] = Absent
    /\ Elems(proc[p].list) = InDb(proc[p].pkg)
(* An installation knows, or keeps, what was there when it began. *)
Remembers(p) ==
    /\ DOMAIN proc[p].before = Targets[proc[p].pkg]
    /\ \A f \in Targets[proc[p].pkg] :
          proc[p].before[f] = IF f \in Zone(proc[p].id) THEN Kept(p, f) ELSE fs[f]
Work(p) ==
    /\ proc[p].cmd = "install" => Remembers(p)
    /\ proc[p].pc = "record" => Recorded(p)
    /\ proc[p].pc \in {"copy", "save", "mark", "undo"} => proc[p].id \in dirty
    /\ proc[p].pc = "copy" => Copied(p)
    /\ proc[p].pc \in {"save", "mark"} => \A f \in Targets[proc[p].pkg] : fs[f] = proc[p].pkg
    /\ proc[p].pc = "undo" => Undone(p)
    /\ proc[p].pc = "unlink" => Unlinked(p)

ViewInv == Careful => ZonesApart /\ \A p \in Procs : Running(p) => Clear(p) /\ Work(p)
-----------------------------------------------------------------------------
(* What each operation does, in the terms of these invariants.                *)
Installs(p, k, id) ==
    /\ ~Running(p) /\ FreeId(id) /\ (setting.reuse \/ ~tx[id].made)
    /\ Allowed({}, {}, Targets[k]) /\ UNCHANGED <<fs, db, removing>>
    /\ \A q \in Procs \ {p} : proc'[q] = proc[q]
    /\ proc'[p].cmd = "install" /\ proc'[p].pkg = k /\ proc'[p].id = id /\ proc'[p].i = 0
    /\ proc'[p].paths = Targets[k] /\ proc'[p].before = [f \in Targets[k] |-> fs[f]]
    /\ \A j \in Ids \ {id} : tx'[j] = tx[j]
    /\ \/ /\ proc'[p].pc = "record" /\ tx'[id].list = <<>> /\ tx'[id].backup = tx[id].backup
          /\ dirty' = dirty
       \/ proc'[p].pc = "undo" /\ tx' = tx /\ dirty' = dirty \cup {id}

LEMMA InstallBeginEffect ==
    ASSUME ListInv, NEW p \in Procs, NEW k \in Packages, NEW id \in Ids, InstallBegin(p, k, id)
    PROVE  Installs(p, k, id)
<1> DEFINE rec(pc) == [pc |-> pc, cmd |-> "install", pkg |-> k, id |-> id, i |-> 0, bad |-> FALSE,
                       paths |-> Targets[k], before |-> [f \in Targets[k] |-> fs[f]]]
<1>1. /\ ~Running(p) /\ FreeId(id) /\ (setting.reuse \/ ~tx[id].made)
      /\ Allowed({}, {}, Targets[k]) /\ UNCHANGED <<fs, db, removing>>
  BY DEF InstallBegin
<1>2. proc \in [Procs -> ProcRec] /\ tx \in [Ids -> TxRec]
  BY DEF ListInv, TypeOK, ProcRec
<1>3. ASSUME NEW pc \in {"record", "undo"}, proc' = [proc EXCEPT ![p] = rec(pc)]
      PROVE  proc'[p] = rec(pc) /\ \A q \in Procs \ {p} : proc'[q] = proc[q]
  <2> HIDE DEF rec
  <2> QED
    BY <1>2, <1>3
<1>4. CASE /\ proc' = [proc EXCEPT ![p] = rec("record")]
           /\ tx' = [tx EXCEPT ![id].made = TRUE, ![id].list = <<>>]
           /\ UNCHANGED dirty
  <2> DEFINE r == [tx[id] EXCEPT !.made = TRUE]
  <2>1. r \in TxRec /\ r.backup = tx[id].backup
    BY <1>2 DEF TxRec
  <2>2. tx'[id] = [r EXCEPT !.list = <<>>] /\ \A j \in Ids \ {id} : tx'[j] = tx[j]
    BY <1>2, <1>4
  <2> HIDE DEF r
  <2>3. tx'[id].list = <<>> /\ tx'[id].backup = r.backup
    <3>1. \A e \in Seq(Files) : [r EXCEPT !.list = e].list = e /\ [r EXCEPT !.list = e].backup = r.backup
      BY <2>1 DEF TxRec
    <3>2. <<>> \in Seq(Files)
      OBVIOUS
    <3> QED
      BY <2>2, <3>1, <3>2, Zenon
  <2>4. proc'[p] = rec("record") /\ \A q \in Procs \ {p} : proc'[q] = proc[q]
    BY <1>3, <1>4
  <2>5. /\ proc'[p].pc = "record" /\ proc'[p].cmd = "install" /\ proc'[p].pkg = k /\ proc'[p].id = id
        /\ proc'[p].i = 0 /\ proc'[p].paths = Targets[k]
        /\ proc'[p].before = [f \in Targets[k] |-> fs[f]]
    BY <2>4
  <2> HIDE DEF rec
  <2> QED
    BY <1>1, <1>4, <2>1, <2>2, <2>3, <2>4, <2>5 DEF Installs
<1>5. CASE proc' = [proc EXCEPT ![p] = rec("undo")] /\ dirty' = dirty \cup {id} /\ UNCHANGED tx
  BY <1>1, <1>3, <1>5 DEF Installs
<1> QED
  BY <1>4, <1>5 DEF InstallBegin

LEMMA RollbackBeginEffect ==
    ASSUME ListInv, NEW p \in Procs, NEW id \in Ids, RollbackBegin(p, id)
    PROVE  /\ ~Running(p) /\ Allowed({id}, {}, Zone(id)) /\ UNCHANGED <<fs, tx, db, removing>>
           /\ \A q \in Procs \ {p} : proc'[q] = proc[q]
           /\ \/ proc'[p].pc = "idle" /\ dirty' = dirty
              \/ /\ proc'[p].pc = "undo" /\ proc'[p].cmd = "rollback" /\ proc'[p].id = id
                 /\ proc'[p].i = 0 /\ proc'[p].paths = Zone(id)
                 /\ tx[id].made /\ dirty' = dirty \cup {id}
<1>1. /\ ~Running(p) /\ Allowed({id}, {}, Zone(id)) /\ UNCHANGED <<fs, tx, db, removing>>
  BY DEF RollbackBegin, Zone
<1>2. TypeOK /\ proc \in [Procs -> ProcRec]
  BY DEF ListInv, TypeOK, ProcRec
<1>3. CASE proc' = [proc EXCEPT ![p] = Idle(2)] /\ UNCHANGED dirty
  BY <1>1, <1>2, <1>3, EndFacts
<1> DEFINE rec == [pc |-> "undo", cmd |-> "rollback", id |-> id, i |-> 0, bad |-> FALSE,
                   paths |-> Elems(tx[id].list)]
<1>4. CASE tx[id].made /\ dirty' = dirty \cup {id} /\ proc' = [proc EXCEPT ![p] = rec]
  <2>1. /\ rec.pc = "undo" /\ rec.cmd = "rollback" /\ rec.id = id /\ rec.i = 0
        /\ rec.paths = Elems(tx[id].list)
    OBVIOUS
  <2> HIDE DEF rec
  <2>2. proc'[p] = rec /\ \A q \in Procs \ {p} : proc'[q] = proc[q]
    BY <1>2, <1>4
  <2> QED
    BY <1>1, <1>4, <2>1, <2>2 DEF Zone
<1> QED
  BY <1>3, <1>4 DEF RollbackBegin

LEMMA RemoveBeginEffect ==
    ASSUME ListInv, NEW p \in Procs, NEW k \in Packages, RemoveBegin(p, k)
    PROVE  /\ ~Running(p) /\ Allowed({}, {k}, Targets[k]) /\ UNCHANGED <<fs, tx, db, dirty>>
           /\ \A q \in Procs \ {p} : proc'[q] = proc[q]
           /\ \/ proc'[p].pc = "idle" /\ removing' = removing
              \/ /\ proc'[p].pc = "unlink" /\ proc'[p].cmd = "remove" /\ proc'[p].pkg = k
                 /\ proc'[p].i = 0 /\ proc'[p].paths = Targets[k]
                 /\ proc'[p].list = db[k] /\ db[k] # NoList
                 /\ removing' = removing \cup {k}
<1>1. /\ ~Running(p) /\ Allowed({}, {k}, Targets[k]) /\ UNCHANGED <<fs, tx, db, dirty>>
  BY DEF RemoveBegin
<1>2. TypeOK /\ proc \in [Procs -> ProcRec]
  BY DEF ListInv, TypeOK, ProcRec
<1>3. CASE proc' = [proc EXCEPT ![p] = Idle(2)] /\ UNCHANGED removing
  BY <1>1, <1>2, <1>3, EndFacts
<1> DEFINE rec == [pc |-> "unlink", cmd |-> "remove", pkg |-> k, list |-> db[k], i |-> 0, bad |-> FALSE,
                   paths |-> Targets[k]]
<1>4. CASE db[k] # NoList /\ removing' = removing \cup {k} /\ proc' = [proc EXCEPT ![p] = rec]
  <2>1. /\ rec.pc = "unlink" /\ rec.cmd = "remove" /\ rec.pkg = k /\ rec.i = 0
        /\ rec.paths = Targets[k] /\ rec.list = db[k]
    BY <1>2, <1>4
  <2> HIDE DEF rec
  <2>2. proc'[p] = rec /\ \A q \in Procs \ {p} : proc'[q] = proc[q]
    BY <1>2, <1>4
  <2> QED
    BY <1>1, <1>4, <2>1, <2>2
<1> QED
  BY <1>3, <1>4 DEF RemoveBegin

(* A name is recorded and its file copied aside. *)
Logs(p) ==
    LET id == proc[p].id
        f == Current(p, Manifest[proc[p].pkg])
    IN  /\ More(p, Manifest[proc[p].pkg])
        /\ tx'[id].list = <<>> /\ tx'[id].backup = Backup(p, f, BackupOf(p, f))
        /\ \A j \in Ids \ {id} : tx'[j] = tx[j]
        /\ proc'[p].pc = "record" /\ proc'[p].i = proc[p].i + 1 /\ proc'[p].cmd = "install"
        /\ proc'[p].id = id /\ proc'[p].pkg = proc[p].pkg
        /\ proc'[p].paths = proc[p].paths /\ proc'[p].before = proc[p].before
        /\ \A q \in Procs \ {p} : proc'[q] = proc[q]
        /\ UNCHANGED <<fs, db, dirty, removing>>

(* The list is closed, and n names are in it. *)
Closes(p, n, b, pc) ==
    LET id == proc[p].id
        m == Manifest[proc[p].pkg]
    IN  /\ pc # "undo" => proc[p].i = Len(m) /\ b = tx[id].backup
        /\ (n = proc[p].i /\ b = tx[id].backup) \/ Fault("backup") \/ Fault("list")
        /\ pc = "save" => Fault("reopen")
        /\ tx'[id].list \in Seq(Files) /\ Elems(tx'[id].list) = Names(m, n) /\ tx'[id].backup = b
        /\ tx'[id].list \in Prefixes(m)
        /\ \A j \in Ids \ {id} : tx'[j] = tx[j]
        /\ proc'[p].pc = pc /\ proc'[p].i = 0 /\ proc'[p].cmd = "install"
        /\ proc'[p].id = id /\ proc'[p].pkg = proc[p].pkg
        /\ proc'[p].paths = proc[p].paths /\ proc'[p].before = proc[p].before
        /\ \A q \in Procs \ {p} : proc'[q] = proc[q]
        /\ dirty' = dirty \cup {id} /\ UNCHANGED <<fs, db, removing>>

LEMMA ClosesFacts ==
    ASSUME ListInv, NEW p \in Procs, At(p, "record"),
           NEW n \in 0 .. Len(Manifest[proc[p].pkg]), NEW b \in [Files -> Content],
           NEW pc \in {"copy", "save", "undo"}, Close(p, n, b, pc),
           pc # "undo" => n = proc[p].i /\ n = Len(Manifest[proc[p].pkg]) /\ b = tx[proc[p].id].backup,
           (n = proc[p].i /\ b = tx[proc[p].id].backup) \/ Fault("backup"),
           pc = "save" => Fault("reopen")
    PROVE  \E w \in 0 .. Len(Manifest[proc[p].pkg]) : Closes(p, w, b, pc)
<1>1. UNCHANGED <<fs, db, removing>> /\ dirty' = dirty \cup {proc[p].id}
  BY DEF Close
<1>2. proc[p].id \in Ids /\ Manifest[proc[p].pkg] \in Seq(Files)
  BY RecordFacts
<1>3. PICK w \in 0 .. n : (~Fault("list") => w = n) /\ Closed(p, w, b, pc)
  BY CloseFacts
<1>4. tx'[proc[p].id].list \in Seq(Files)
  BY <1>2, <1>3 DEF Closed, TxRec
<1>5. w \in 0 .. Len(Manifest[proc[p].pkg])
  BY <1>2, <1>3
<1>6. Closes(p, w, b, pc)
  BY <1>1, <1>3, <1>4 DEF Closed, Closes
<1> QED
  BY <1>5, <1>6

LEMMA RecordEffect ==
    ASSUME ListInv, NEW p \in Procs, RecordFile(p) \/ RecordEnd(p)
    PROVE  /\ At(p, "record")
           /\ \/ Logs(p)
              \/ \E n \in 0 .. Len(Manifest[proc[p].pkg]), b \in [Files -> Content],
                    pc \in {"copy", "save", "undo"} : Closes(p, n, b, pc)
<1> DEFINE m == Manifest[proc[p].pkg]
           f == Current(p, m)
           id == proc[p].id
<1>0. TypeOK /\ At(p, "record")
  BY DEF ListInv, RecordFile, RecordEnd
<1>1. /\ proc[p] \in InstallRec /\ id \in Ids /\ proc[p].i \in Nat /\ proc[p].i <= Len(m)
      /\ m \in Seq(Files) /\ Running(p) /\ proc[p].cmd = "install"
      /\ tx[id].backup \in [Files -> Content] /\ Listed(p) = <<>>
      /\ \A g \in Files, c \in Content : Backup(p, g, c) \in [Files -> Content]
  BY <1>0, RecordFacts
<1>2. proc[p].i \in 0 .. Len(m) /\ Len(m) \in 0 .. Len(m)
  BY <1>1
<1>3. CASE RecordEnd(p)
  <2>0. ~More(p, m)
    BY <1>3 DEF RecordEnd
  <2>1. proc[p].i = Len(m)
    BY <1>1, <1>2, <2>0 DEF More
  <2>2. PICK pc \in {"copy", "save"} : Close(p, Len(m), tx[id].backup, pc) /\ (pc = "save" => Fault("reopen"))
    BY <1>3 DEF RecordEnd
  <2>4. pc \in {"copy", "save", "undo"}
    OBVIOUS
  <2>3. \E w \in 0 .. Len(m) : Closes(p, w, tx[id].backup, pc)
    BY <1>0, <1>1, <1>2, <2>1, <2>2, <2>4, ClosesFacts
  <2> HIDE DEF m, id
  <2> QED
    BY <1>0, <1>1, <1>2, <2>3, <2>4 DEF m, id
<1>4. CASE RecordFile(p) /\ Close(p, proc[p].i, tx[id].backup, "undo")
  <2>1. \E w \in 0 .. Len(m) : Closes(p, w, tx[id].backup, "undo")
    BY <1>0, <1>1, <1>2, <1>4, ClosesFacts
  <2> QED
    BY <1>0, <1>1, <1>2, <2>1
<1>5. CASE /\ More(p, m) /\ Advance(p) /\ Log(id, Listed(p), Backup(p, f, BackupOf(p, f)))
           /\ UNCHANGED <<fs, db, dirty, removing>>
  <2>1. f \in Files
    BY <1>1, <1>5, CurrentFacts
  <2>2. BackupOf(p, f) \in Content
    BY <1>0, <1>1, <2>1 DEF BackupOf, Kept, TypeOK
  <2>3. Backup(p, f, BackupOf(p, f)) \in [Files -> Content]
    BY <1>1, <2>1, <2>2, Zenon
  <2>4. Listed(p) \in Seq(Files)
    <3>1. <<>> \in Seq(Files)
      OBVIOUS
    <3> QED
      BY <1>1, <3>1
  <2>5. /\ \A j \in Ids \ {id} : tx'[j] = tx[j]
        /\ tx'[id].list = Listed(p) /\ tx'[id].backup = Backup(p, f, BackupOf(p, f))
    <3> DEFINE b == Backup(p, f, BackupOf(p, f))
               l == Listed(p)
    <3>1. TypeOK /\ id \in Ids /\ l \in Seq(Files) /\ b \in [Files -> Content] /\ Log(id, l, b)
      BY <1>0, <1>1, <1>5, <2>3, <2>4
    <3> HIDE DEF b, f, l, id
    <3>2. tx'[id].list = l /\ tx'[id].backup = b /\ \A j \in Ids \ {id} : tx'[j] = tx[j]
      BY <3>1, TxFacts
    <3> QED
      BY <3>2 DEF b, l
  <2>6. /\ \A q \in Procs \ {p} : proc'[q] = proc[q]
        /\ proc'[p].pc = proc[p].pc /\ proc'[p].i = proc[p].i + 1 /\ proc'[p].cmd = proc[p].cmd
        /\ proc'[p].paths = proc[p].paths /\ proc'[p].id = id /\ proc'[p].pkg = proc[p].pkg
        /\ proc'[p].before = proc[p].before
    BY <1>0, <1>1, <1>5, AdvanceFacts
  <2>7. Logs(p)
    BY <1>0, <1>1, <1>5, <2>5, <2>6 DEF Logs, At
  <2> QED
    BY <1>0, <2>7
<1>6. ASSUME More(p, m), Fault("backup"), NEW c \in {Kept(p, f), Torn},
             Close(p, proc[p].i + 1, Backup(p, f, c), "undo")
      PROVE  \E n \in 0 .. Len(m), b \in [Files -> Content],
                    pc \in {"copy", "save", "undo"} : Closes(p, n, b, pc)
  <2>1. f \in Files /\ proc[p].i + 1 \in 0 .. Len(m)
    <3>1. f \in Files /\ proc[p].i + 1 \in 1 .. Len(m)
      BY <1>1, <1>6, CurrentFacts
    <3> QED
      BY <1>1, <3>1
  <2>2. c \in Content
    BY <1>1, <2>1 DEF Kept, Content
  <2>3. Backup(p, f, c) \in [Files -> Content]
    BY <1>1, <2>1, <2>2, Zenon
  <2>4. \E w \in 0 .. Len(m) : Closes(p, w, Backup(p, f, c), "undo")
    BY <1>0, <1>6, <2>1, <2>3, ClosesFacts
  <2> QED
    BY <2>1, <2>3, <2>4
<1> QED
  BY <1>0, <1>3, <1>4, <1>5, <1>6 DEF RecordFile

(* A command goes on as what it is. *)
Same(p) ==
    /\ \A q \in Procs \ {p} : proc'[q] = proc[q]
    /\ proc'[p].pc # "idle"
    /\ proc'[p].cmd = proc[p].cmd /\ proc'[p].paths = proc[p].paths
    /\ proc[p].cmd # "remove" => proc'[p].id = proc[p].id
    /\ proc[p].cmd # "rollback" => proc'[p].pkg = proc[p].pkg
    /\ proc[p].cmd = "install" => proc'[p].before = proc[p].before
    /\ proc[p].cmd = "remove" => proc'[p].list = proc[p].list

(* No file but f is written. *)
Only(f) == f \in Files /\ \A g \in Files \ {f} : fs'[g] = fs[g]

LEMMA AdvanceSame ==
    ASSUME TypeOK, NEW p \in Procs, Running(p), Advance(p) \/ AdvanceFailed(p)
    PROVE  Same(p) /\ proc'[p].pc = proc[p].pc /\ proc'[p].i = proc[p].i + 1
<1>1. proc[p] \in InstallRec \cup RollbackRec \cup RemoveRec
  BY KindOfProc DEF Running, ProcRec, IdleRec
<1>2. /\ \A q \in Procs \ {p} : proc'[q] = proc[q]
      /\ proc'[p].pc = proc[p].pc /\ proc'[p].i = proc[p].i + 1
      /\ proc'[p].cmd = proc[p].cmd /\ proc'[p].paths = proc[p].paths
      /\ proc[p] \in InstallRec => proc'[p].pkg = proc[p].pkg /\ proc'[p].before = proc[p].before
      /\ proc[p] \in InstallRec \cup RollbackRec => proc'[p].id = proc[p].id
      /\ proc[p] \in RemoveRec => proc'[p].pkg = proc[p].pkg /\ proc'[p].list = proc[p].list
  BY AdvanceFacts
<1> QED
  BY <1>1, <1>2 DEF Same, Running, InstallRec, RollbackRec, RemoveRec

LEMMA GotoSame ==
    ASSUME TypeOK, NEW p \in Procs, proc[p] \in InstallRec, NEW pc \in {"copy", "save", "mark", "undo"},
           Goto(p, pc)
    PROVE  Same(p) /\ proc'[p].pc = pc /\ proc'[p].i = 0
<1>1. proc[p].cmd = "install"
  BY DEF InstallRec
<1> QED
  BY <1>1, GotoFacts DEF Same

LEMMA CopyFileEffect ==
    ASSUME ListInv, NEW p \in Procs, CopyFile(p)
    PROVE  /\ At(p, "copy") /\ More(p, Listed(p)) /\ UNCHANGED <<tx, db, dirty, removing>>
           /\ Only(Current(p, Listed(p))) /\ Same(p)
           /\ \/ /\ proc'[p].pc = "copy" /\ proc'[p].i = proc[p].i + 1
                 /\ fs'[Current(p, Listed(p))] = proc[p].pkg
              \/ proc'[p].pc = "undo" /\ proc'[p].i = 0
<1> DEFINE f == Current(p, Listed(p))
<1>1. At(p, "copy") /\ More(p, Listed(p)) /\ UNCHANGED <<tx, db, dirty, removing>>
  BY DEF CopyFile
<1>2. /\ TypeOK /\ Running(p) /\ proc[p] \in InstallRec /\ proc[p].pkg \in Content
  BY <1>1, ListedFacts DEF At, Content
<1>3. f \in Files /\ fs \in [Files -> Content] /\ fs[f] \in Content /\ Torn \in Content
  BY <1>1, <1>2, InHandFacts DEF At, TypeOK
<1>4. CASE Put(f, {proc[p].pkg}) /\ Advance(p)
  <2>1. Only(f) /\ fs'[f] \in {proc[p].pkg}
    BY <1>2, <1>3, <1>4, PutFacts DEF Only
  <2>2. Same(p) /\ proc'[p].pc = proc[p].pc /\ proc'[p].i = proc[p].i + 1
    BY <1>2, <1>4, AdvanceSame
  <2> QED
    BY <1>1, <2>1, <2>2 DEF At
<1>5. CASE Put(f, {fs[f], Torn}) /\ Goto(p, "undo")
  <2>1. Only(f)
    BY <1>2, <1>3, <1>5, PutFacts DEF Only
  <2>2. Same(p) /\ proc'[p].pc = "undo" /\ proc'[p].i = 0
    BY <1>2, <1>5, GotoSame
  <2> QED
    BY <1>1, <2>1, <2>2
<1> QED
  BY <1>4, <1>5 DEF CopyFile

LEMMA CopyEndEffect ==
    ASSUME ListInv, NEW p \in Procs, CopyEnd(p)
    PROVE  /\ At(p, "copy") /\ ~More(p, Listed(p)) /\ UNCHANGED <<fs, tx, db, dirty, removing>>
           /\ Same(p) /\ proc'[p].pc \in {"save", "undo"} /\ (proc'[p].pc = "undo" => Fault("list"))
<1>1. /\ At(p, "copy") /\ ~More(p, Listed(p)) /\ UNCHANGED <<fs, tx, db, dirty, removing>>
  BY DEF CopyEnd, Keep
<1>2. TypeOK /\ proc[p] \in InstallRec /\ Faithful(proc[p].pkg, Listed(p), setting)
  BY <1>1, ListedFacts DEF At
<1>3. CASE Goto(p, "save")
  BY <1>1, <1>2, <1>3, GotoSame
<1>4. CASE Len(Listed(p)) < Len(Manifest[proc[p].pkg]) /\ Goto(p, "undo")
  <2>1. Listed(p) # Manifest[proc[p].pkg]
    <3>1. Manifest[proc[p].pkg] \in Seq(Files)
      BY <1>2, PackageAssumption DEF InstallRec
    <3> QED
      BY <1>4, <3>1
  <2>2. Fault("list")
    BY <1>2, <2>1 DEF Faithful, Fault
  <2> QED
    BY <1>1, <1>2, <1>4, <2>2, GotoSame
<1> QED
  BY <1>3, <1>4 DEF CopyEnd

(* At most the package's own list in the database changes. *)
Saves(p) == \A k \in Packages \ {proc[p].pkg} : db'[k] = db[k]

LEMMA SaveListEffect ==
    ASSUME ListInv, NEW p \in Procs, SaveList(p)
    PROVE  /\ At(p, "save") /\ UNCHANGED <<fs, tx, dirty, removing>>
           /\ Same(p) /\ proc'[p].pc = "mark" /\ Saves(p)
<1>1. At(p, "save") /\ UNCHANGED <<fs, tx, dirty, removing>> /\ Goto(p, "mark")
  BY DEF SaveList
<1>2. TypeOK /\ proc[p] \in InstallRec
  BY <1>1, ListedFacts DEF At
<1>3. Saves(p)
  BY <1>1, SavedFacts DEF SaveList, Saves
<1> QED
  BY <1>1, <1>2, <1>3, GotoSame

LEMMA UndoFileEffect ==
    ASSUME ListInv, NEW p \in Procs, UndoFile(p)
    PROVE  /\ At(p, "undo") /\ More(p, Listed(p)) /\ UNCHANGED <<tx, db, dirty, removing>>
           /\ Only(Current(p, Listed(p))) /\ Same(p)
           /\ proc'[p].pc = "undo" /\ proc'[p].i = proc[p].i + 1
           /\ fs'[Current(p, Listed(p))] = Kept(p, Current(p, Listed(p))) \/ Fault("restore")
<1> DEFINE f == Current(p, Listed(p))
<1>1. At(p, "undo") /\ More(p, Listed(p)) /\ UNCHANGED <<tx, db, dirty, removing>>
  BY DEF UndoFile
<1>2. TypeOK /\ Running(p)
  BY <1>1, ListedFacts DEF At
<1>3. /\ f \in Files /\ fs \in [Files -> Content] /\ fs[f] \in Content /\ Kept(p, f) \in Content
      /\ {Torn, Absent} \subseteq Content
  BY <1>1, <1>2, InHandFacts DEF At, TypeOK
<1>4. CASE Put(f, {Restored(p, f)}) /\ Advance(p)
  <2>1. {Restored(p, f)} \in SUBSET Content
    BY <1>3 DEF Restored
  <2>2. Only(f) /\ fs'[f] \in {Restored(p, f)}
    BY <1>3, <1>4, <2>1, PutFacts DEF Only
  <2>3. Same(p) /\ proc'[p].pc = proc[p].pc /\ proc'[p].i = proc[p].i + 1
    BY <1>2, <1>4, AdvanceSame
  <2> QED
    BY <1>1, <2>2, <2>3 DEF At, Restored
<1>5. CASE /\ Fault("restore") /\ AdvanceFailed(p)
           /\ Put(f, IF Kept(p, f) = Absent THEN {fs[f]} ELSE {Absent, Torn})
  <2> DEFINE C == IF Kept(p, f) = Absent THEN {fs[f]} ELSE {Absent, Torn}
  <2>1. C \in SUBSET Content /\ Put(f, C)
    BY <1>3, <1>5
  <2> HIDE DEF C
  <2>2. Only(f)
    BY <1>3, <2>1, PutFacts DEF Only
  <2>3. Same(p) /\ proc'[p].pc = proc[p].pc /\ proc'[p].i = proc[p].i + 1
    BY <1>2, <1>5, AdvanceSame
  <2> QED
    BY <1>1, <1>5, <2>2, <2>3 DEF At
<1> QED
  BY <1>4, <1>5 DEF UndoFile

LEMMA UnlinkFileEffect ==
    ASSUME ListInv, NEW p \in Procs, UnlinkFile(p)
    PROVE  /\ At(p, "unlink") /\ More(p, proc[p].list) /\ UNCHANGED <<tx, db, dirty, removing>>
           /\ Only(Current(p, proc[p].list)) /\ Same(p)
           /\ proc'[p].pc = "unlink" /\ proc'[p].i = proc[p].i + 1
           /\ fs'[Current(p, proc[p].list)] = Absent \/ Fault("unlink")
<1> DEFINE f == Current(p, proc[p].list)
<1>1. At(p, "unlink") /\ More(p, proc[p].list) /\ UNCHANGED <<tx, db, dirty, removing>>
  BY DEF UnlinkFile
<1>2. TypeOK /\ Running(p) /\ proc[p].i \in Nat /\ proc[p].list \in Seq(Files)
  BY <1>1, RemoveFacts
<1>3. f \in Files /\ fs \in [Files -> Content] /\ {Absent} \in SUBSET Content
  BY <1>1, <1>2, CurrentFacts DEF TypeOK, Content
<1>4. Advance(p) \/ AdvanceFailed(p)
  BY DEF UnlinkFile
<1>5. Same(p) /\ proc'[p].pc = proc[p].pc /\ proc'[p].i = proc[p].i + 1
  BY <1>2, <1>4, AdvanceSame
<1>6. CASE Put(f, {Absent})
  <2>1. Only(f) /\ fs'[f] \in {Absent}
    BY <1>3, <1>6, PutFacts DEF Only
  <2> QED
    BY <1>1, <1>5, <2>1 DEF At
<1>7. CASE Fault("unlink") /\ UNCHANGED fs
  BY <1>1, <1>3, <1>5, <1>7 DEF At, Only
<1> QED
  BY <1>6, <1>7 DEF UnlinkFile

(* A command ends. *)
Ends(p) == proc'[p].pc = "idle" /\ \A q \in Procs \ {p} : proc'[q] = proc[q]

LEMMA EndEnds ==
    ASSUME ListInv, NEW p \in Procs, NEW r \in {0, 1, 2, 3, 137}, End(p, r)
    PROVE  Ends(p) /\ proc'[p].res = r
<1>1. TypeOK /\ proc \in [Procs -> ProcRec] /\ proc' = [proc EXCEPT ![p] = Idle(r)]
  BY DEF ListInv, TypeOK, End, ProcRec
<1>2. proc'[p] = Idle(r)
  BY <1>1
<1> QED
  BY <1>1, <1>2, EndFacts DEF Ends, Idle

LEMMA MarkEffect ==
    ASSUME ListInv, NEW p \in setting.procs, p \in Procs, UNCHANGED setting, Mark(p)
    PROVE  /\ At(p, "mark") /\ Ends(p) /\ UNCHANGED <<fs, db, removing>>
           /\ dirty' = dirty \ {proc[p].id}
           /\ \A j \in Ids : tx'[j].list = tx[j].list /\ tx'[j].backup = tx[j].backup
<1>1. At(p, "mark") /\ UNCHANGED <<fs, db, removing>> /\ dirty' = dirty \ {proc[p].id}
  BY DEF Mark
<1> QED
  BY <1>1, MarkKeeps DEF Ends

LEMMA UndoEndEffect ==
    ASSUME ListInv, NEW p \in Procs, UndoEnd(p)
    PROVE  /\ At(p, "undo") /\ ~More(p, Listed(p)) /\ Ends(p) /\ UNCHANGED <<fs, tx, db, removing>>
           /\ dirty' = dirty \ {proc[p].id}
<1>1. PICK r \in {0, 1} : End(p, r)
  BY DEF UndoEnd
<1>2. Ends(p)
  BY <1>1, EndEnds
<1> QED
  BY <1>2 DEF UndoEnd

LEMMA UndoFailsEffect ==
    ASSUME ListInv, NEW p \in Procs, UndoFails(p)
    PROVE  /\ At(p, "undo") /\ Ends(p) /\ UNCHANGED <<fs, tx, db, dirty, removing>>
           /\ Fault("reread")
<1>1. PICK r \in {1, 2} : End(p, r)
  BY DEF UndoFails
<1>2. Ends(p)
  BY <1>1, EndEnds
<1> QED
  BY <1>2 DEF UndoFails, Keep

LEMMA UnlinkEndEffect ==
    ASSUME ListInv, NEW p \in Procs, UnlinkEnd(p)
    PROVE  /\ At(p, "unlink") /\ ~More(p, proc[p].list) /\ Ends(p) /\ UNCHANGED <<fs, tx, dirty>>
           /\ removing' = removing \ {proc[p].pkg}
           /\ db' = [db EXCEPT ![proc[p].pkg] = NoList] \/ (Fault("unlink") /\ db' = db)
<1>1. PICK r \in {0, 1} : End(p, r)
  BY DEF UnlinkEnd
<1>2. Ends(p)
  BY <1>1, EndEnds
<1> QED
  BY <1>2 DEF UnlinkEnd

(* A kill tears at most the file in hand, or the list being written. *)
LEMMA KillEffect ==
    ASSUME ListInv, NEW p \in Procs, Kill(p)
    PROVE  /\ Running(p) /\ Ends(p) /\ UNCHANGED <<dirty, removing>>
           /\ UNCHANGED db \/ (At(p, "save") /\ UNCHANGED <<fs, tx>> /\ Saves(p))
           /\ \/ /\ At(p, "record") /\ UNCHANGED fs /\ \A j \in Ids \ {proc[p].id} : tx'[j] = tx[j]
                 /\ tx'[proc[p].id].list = <<>> \/ Fault("flush")
              \/ /\ At(p, "copy") \/ At(p, "undo")
                 /\ More(p, Listed(p)) /\ Only(Current(p, Listed(p))) /\ UNCHANGED tx
              \/ UNCHANGED <<fs, tx>>
<1>1. Ends(p) /\ UNCHANGED <<dirty, removing>> /\ Fault("kill")
  BY EndEnds DEF Kill
<1>2. CASE KillRecording(p)
  <2> DEFINE m == Manifest[proc[p].pkg]
             id == proc[p].id
  <2>1. At(p, "record") /\ UNCHANGED <<fs, db>>
    BY <1>2 DEF KillRecording
  <2>2. /\ Running(p) /\ id \in Ids /\ m \in Seq(Files) /\ proc[p].i \in Nat
    BY <2>1, RecordFacts
  <2>3. PICK n \in 0 .. (proc[p].i + 1), b \in {tx[id].backup} \cup
                       (IF More(p, m) /\ fs[Current(p, m)] # Absent
                           THEN {Backup(p, Current(p, m), Torn)} ELSE {}) :
           (n = 0 \/ Fault("flush")) /\ Log(id, SubSeq(m, 1, n), b)
    <3>1. 0 \in 0 .. (proc[p].i + 1)
      BY <2>2
    <3> QED
      BY <1>2, <3>1 DEF KillRecording
  <2>4. tx \in [Ids -> TxRec]
    BY DEF ListInv, TypeOK
  <2> DEFINE l == SubSeq(m, 1, n)
  <2>5. n = 0 => l = <<>>
    BY <2>2
  <2>6. Log(id, l, b)
    BY <2>3
  <2> HIDE DEF l
  <2>7. /\ \A j \in Ids \ {id} : tx'[j] = tx[j]
        /\ tx'[id].list = l
    <3>1. tx'[id] = [tx[id] EXCEPT !.list = l, !.backup = b] /\ \A j \in Ids \ {id} : tx'[j] = tx[j]
      BY <2>2, <2>4, <2>6 DEF Log
    <3>2. tx[id] \in TxRec
      BY <2>2, <2>4
    <3> DEFINE r == [tx[id] EXCEPT !.list = l]
    <3>3. r.list = l /\ DOMAIN r = {"made", "list", "backup", "committed"}
      BY <3>2 DEF TxRec
    <3>4. tx'[id] = [r EXCEPT !.backup = b]
      BY <3>1
    <3> HIDE DEF r
    <3> QED
      BY <3>1, <3>3, <3>4
  <2> QED
    BY <1>1, <2>1, <2>2, <2>3, <2>5, <2>7
<1>3. CASE KillElsewhere(p)
  BY <1>1, <1>3 DEF KillElsewhere, Running
<1>3a. CASE KillSaving(p)
  <2>1. At(p, "save") /\ SaveTorn(p) /\ UNCHANGED <<fs, tx>>
    BY <1>3a DEF KillSaving
  <2>2. Saves(p)
    BY <1>1, <2>1, SavedFacts DEF Saves
  <2> QED
    BY <1>1, <2>1, <2>2 DEF At, Running
<1>4. CASE KillWriting(p)
  <2>1. proc[p].pc \in {"copy", "undo"} /\ UNCHANGED <<tx, db>>
    BY <1>4 DEF KillWriting, At
  <2>2. TypeOK /\ Running(p)
    BY <2>1, ListedFacts
  <2>3. CASE ~More(p, Listed(p))
    BY <1>1, <1>4, <2>1, <2>2, <2>3 DEF KillWriting
  <2>4. CASE More(p, Listed(p))
    <3> DEFINE f == Current(p, Listed(p))
               C == {fs[f], Torn} \cup (IF At(p, "undo") THEN {Absent} ELSE {})
    <3>1. f \in Files /\ fs[f] \in Content /\ {Torn, Absent} \subseteq Content
      BY <2>1, <2>4, InHandFacts
    <3>2. C \in SUBSET Content /\ Put(f, C)
      BY <1>4, <2>4, <3>1 DEF KillWriting
    <3> HIDE DEF C
    <3>3. Only(f)
      BY <2>2, <3>1, <3>2, PutFacts DEF Only, TypeOK
    <3> QED
      BY <1>1, <1>4, <2>1, <2>2, <2>4, <3>3 DEF KillWriting
  <2> QED
    BY <2>3, <2>4
<1> QED
  BY <1>2, <1>3, <1>3a, <1>4 DEF Kill
-----------------------------------------------------------------------------
(* What commands at work have in common with nobody. *)
LEMMA RunningFacts ==
    ASSUME ListInv, NEW q \in Procs, Running(q)
    PROVE  /\ proc[q].paths \in SUBSET Files /\ proc[q].i \in Nat
           /\ proc[q].cmd \in {"install", "rollback", "remove"}
           /\ proc[q].cmd # "remove" => proc[q].id \in Ids
           /\ proc[q].cmd # "rollback" => proc[q].pkg \in Packages
           /\ proc[q].cmd = "install" <=> proc[q] \in InstallRec
           /\ proc[q].cmd = "rollback" <=> proc[q] \in RollbackRec
           /\ proc[q].cmd = "remove" <=> proc[q] \in RemoveRec
<1>1. TypeOK
  BY DEF ListInv
<1>2. proc[q] \in InstallRec \cup RollbackRec \cup RemoveRec
  BY <1>1, KindOfProc DEF Running, ProcRec, IdleRec
<1> QED
  BY <1>2 DEF InstallRec, RollbackRec, RemoveRec

(* The file in hand is one of the command's paths. *)
LEMMA InHandInPaths ==
    ASSUME ListInv, OrderInv, Orderly, NEW p \in Procs
    PROVE  /\ (At(p, "copy") \/ At(p, "undo")) /\ More(p, Listed(p)) => Current(p, Listed(p)) \in proc[p].paths
           /\ At(p, "unlink") /\ More(p, proc[p].list) => Current(p, proc[p].list) \in proc[p].paths
<1>1. Running(p) => Scope(p)
  BY DEF OrderInv
<1>2. ASSUME At(p, "copy") \/ At(p, "undo"), More(p, Listed(p)) PROVE Current(p, Listed(p)) \in proc[p].paths
  <2>1. /\ Running(p) /\ Current(p, Listed(p)) \in Zone(proc[p].id)
        /\ proc[p].cmd \in {"install", "rollback"}
    <3>1. proc[p].pc \in {"copy", "undo"}
      BY <1>2 DEF At
    <3>2. Running(p) /\ proc[p] \in InstallRec \cup RollbackRec
      BY <3>1, ListedFacts
    <3> QED
      BY <1>2, <3>1, <3>2, InHandFacts DEF Zone, Listed, InstallRec, RollbackRec
  <2> QED
    BY <1>1, <2>1 DEF Scope
<1>3. ASSUME At(p, "unlink"), More(p, proc[p].list) PROVE Current(p, proc[p].list) \in proc[p].paths
  <2>1. /\ Running(p) /\ proc[p] \in RemoveRec /\ proc[p].i \in Nat /\ proc[p].list \in Seq(Files)
        /\ Elems(proc[p].list) \subseteq Targets[proc[p].pkg]
    BY <1>3, RemoveFacts
  <2>2. Current(p, proc[p].list) \in Elems(proc[p].list)
    BY <1>3, <2>1, CurrentFacts
  <2> QED
    BY <1>1, <2>1, <2>2 DEF Scope, RemoveRec
<1> QED
  BY <1>2, <1>3

(* A step of one command leaves alone the others, their paths and their       *)
(* transactions.                                                              *)
Frame(p) ==
    /\ UNCHANGED setting
    /\ \A q \in Procs \ {p} : proc'[q] = proc[q]
    /\ \A q \in Procs \ {p} : Running(q) => \A f \in proc[q].paths : fs'[f] = fs[f]
    /\ \A q \in Procs \ {p} : TxCmd(q) =>
          /\ tx'[proc[q].id].list = tx[proc[q].id].list
          /\ tx'[proc[q].id].backup = tx[proc[q].id].backup

LEMMA FrameOfTouch ==
    ASSUME ListInv, OrderInv, Orderly, NEW p \in Procs, Running(p), UNCHANGED <<setting, tx>>,
           NEW f \in proc[p].paths, Only(f), \A q \in Procs \ {p} : proc'[q] = proc[q]
    PROVE  Frame(p)
<1>1. \A q \in Procs \ {p} : Running(q) => f \notin proc[q].paths /\ proc[q].paths \subseteq Files
  BY RunningFacts DEF OrderInv, Apart
<1> QED
  BY <1>1 DEF Frame, Only

LEMMA FrameOfTx ==
    ASSUME ListInv, OrderInv, Orderly, NEW p \in Procs, TxCmd(p), UNCHANGED <<setting, fs>>,
           \A j \in Ids \ {proc[p].id} : tx'[j] = tx[j], \A q \in Procs \ {p} : proc'[q] = proc[q]
    PROVE  Frame(p)
<1>1. \A q \in Procs \ {p} : TxCmd(q) => proc[q].id \in Ids \ {proc[p].id}
  BY RunningFacts DEF OrderInv, Apart, TxCmd
<1> QED
  BY <1>1 DEF Frame

LEMMA FrameOfNothing ==
    ASSUME NEW p \in Procs, UNCHANGED <<setting, fs, tx>>, \A q \in Procs \ {p} : proc'[q] = proc[q]
    PROVE  Frame(p)
  BY DEF Frame

(* A new transaction is nobody else's. *)
LEMMA NewIdFacts ==
    ASSUME ListInv, Orderly, NEW p \in Procs, NEW k \in Packages, NEW id \in Ids, InstallBegin(p, k, id)
    PROVE  /\ \A q \in Procs : TxCmd(q) => proc[q].id # id /\ proc[q].id \in Ids
           /\ tx[id].list = <<>> /\ \A f \in Files : tx[id].backup[f] = Absent
<1>1. FreeId(id) /\ ~tx[id].made
  BY DEF Orderly, InstallBegin
<1>2. \A q \in Procs : TxCmd(q) => proc[q].id \in Ids /\ proc[q].cmd \in {"install", "rollback"}
  BY RunningFacts DEF TxCmd
<1> QED
  BY <1>1, <1>2 DEF ListInv, Unmade, FreeId, TxCmd

LEMMA FrameStep ==
    ASSUME ListInv, OrderInv, Orderly, NEW p \in setting.procs, p \in Procs,
           setting.pkgs \subseteq Packages, setting.ids \subseteq Ids,
           UNCHANGED setting, Begin(p) \/ Step(p) \/ Kill(p)
    PROVE  Frame(p)
<1>1. ASSUME NEW k \in Packages, NEW id \in Ids, InstallBegin(p, k, id) PROVE Frame(p)
  <2>1. /\ UNCHANGED fs /\ \A q \in Procs \ {p} : proc'[q] = proc[q]
        /\ \A j \in Ids \ {id} : tx'[j] = tx[j]
    <3>1. Installs(p, k, id)
      BY <1>1, InstallBeginEffect
    <3> QED
      BY <3>1 DEF Installs
  <2>2. \A q \in Procs : TxCmd(q) => proc[q].id \in Ids \ {id}
    BY <1>1, NewIdFacts
  <2> QED
    BY <2>1, <2>2 DEF Frame
<1>2. ASSUME NEW id \in Ids, RollbackBegin(p, id) PROVE Frame(p)
  BY <1>2, RollbackBeginEffect, FrameOfNothing
<1>3. ASSUME NEW k \in Packages, RemoveBegin(p, k) \/ InstallRefused(p, k) PROVE Frame(p)
  <2>1. CASE RemoveBegin(p, k)
    BY <1>3, <2>1, RemoveBeginEffect, FrameOfNothing
  <2>2. CASE InstallRefused(p, k)
    <3>1. UNCHANGED <<fs, tx>> /\ End(p, 3)
      BY <2>2 DEF InstallRefused, Keep, End
    <3> QED
      BY <3>1, EndEnds, FrameOfNothing DEF Ends
  <2> QED
    BY <1>3, <2>1, <2>2
<1>4. CASE RecordFile(p) \/ RecordEnd(p)
  <2>1. TxCmd(p)
    BY <1>4, RecordEffect, RecordFacts DEF TxCmd
  <2>2. /\ UNCHANGED fs /\ \A j \in Ids \ {proc[p].id} : tx'[j] = tx[j]
        /\ \A q \in Procs \ {p} : proc'[q] = proc[q]
    BY <1>4, RecordEffect DEF Logs, Closes
  <2> QED
    BY <2>1, <2>2, FrameOfTx
<1>5. CASE CopyFile(p) \/ UndoFile(p)
  <2>1. /\ At(p, "copy") \/ At(p, "undo")
        /\ More(p, Listed(p)) /\ Only(Current(p, Listed(p))) /\ UNCHANGED tx
        /\ \A q \in Procs \ {p} : proc'[q] = proc[q]
    BY <1>5, CopyFileEffect, UndoFileEffect DEF Same
  <2>2. Current(p, Listed(p)) \in proc[p].paths /\ Running(p)
    BY <2>1, InHandInPaths DEF At, Running
  <2> QED
    BY <2>1, <2>2, FrameOfTouch
<1>6. CASE UnlinkFile(p)
  <2>1. /\ At(p, "unlink") /\ More(p, proc[p].list) /\ Only(Current(p, proc[p].list)) /\ UNCHANGED tx
        /\ \A q \in Procs \ {p} : proc'[q] = proc[q]
    BY <1>6, UnlinkFileEffect DEF Same
  <2>2. Current(p, proc[p].list) \in proc[p].paths /\ Running(p)
    BY <2>1, InHandInPaths DEF At, Running
  <2> QED
    BY <2>1, <2>2, FrameOfTouch
<1>7. CASE CopyEnd(p) \/ SaveList(p)
  BY <1>7, CopyEndEffect, SaveListEffect, FrameOfNothing DEF Same
<1>8. CASE UndoEnd(p) \/ UndoFails(p) \/ UnlinkEnd(p)
  BY <1>8, UndoEndEffect, UndoFailsEffect, UnlinkEndEffect, FrameOfNothing DEF Ends
<1>9. CASE Mark(p)
  <2>1. /\ UNCHANGED fs /\ \A q \in Procs \ {p} : proc'[q] = proc[q]
        /\ \A j \in Ids : tx'[j].list = tx[j].list /\ tx'[j].backup = tx[j].backup
    BY <1>9, MarkEffect DEF Ends
  <2>2. \A q \in Procs : TxCmd(q) => proc[q].id \in Ids
    BY RunningFacts DEF TxCmd
  <2> QED
    BY <2>1, <2>2 DEF Frame
<1>10. CASE Kill(p)
  <2>1. Running(p) /\ \A q \in Procs \ {p} : proc'[q] = proc[q]
    BY <1>10, KillEffect DEF Ends
  <2>2. CASE At(p, "record") /\ UNCHANGED fs /\ \A j \in Ids \ {proc[p].id} : tx'[j] = tx[j]
    <3>1. TxCmd(p)
      BY <2>2, RecordFacts DEF TxCmd
    <3> QED
      BY <2>1, <2>2, <3>1, FrameOfTx
  <2>3. CASE /\ At(p, "copy") \/ At(p, "undo")
             /\ More(p, Listed(p)) /\ Only(Current(p, Listed(p))) /\ UNCHANGED tx
    <3>1. Current(p, Listed(p)) \in proc[p].paths
      BY <2>3, InHandInPaths
    <3> QED
      BY <2>1, <2>3, <3>1, FrameOfTouch
  <2>4. CASE UNCHANGED <<fs, tx>>
    BY <2>1, <2>4, FrameOfNothing
  <2> QED
    BY <1>10, <2>2, <2>3, <2>4, KillEffect
<1>11. CASE Begin(p)
  BY <1>1, <1>2, <1>3, <1>11 DEF Begin
<1>12. CASE Step(p)
  BY <1>4, <1>5, <1>6, <1>7, <1>8, <1>9, <1>12 DEF Step
<1> QED
  BY <1>10, <1>11, <1>12
-----------------------------------------------------------------------------
(* The names recorded are targets of the package. *)
LEMMA NamesInTargets ==
    ASSUME NEW k \in Packages, NEW n \in 0 .. Len(Manifest[k])
    PROVE  Names(Manifest[k], n) \subseteq Targets[k]
<1>1. Manifest[k] \in Seq(Files)
  BY PackageAssumption
<1> QED
  BY <1>1 DEF Names, Targets, Elems

(* An installation that records, or closes its list, goes on as what it is. *)
LEMMA RecordSame ==
    ASSUME ListInv, NEW p \in Procs, RecordFile(p) \/ RecordEnd(p)
    PROVE  /\ Same(p) /\ proc[p].cmd = "install" /\ proc[p].pkg \in Packages /\ proc[p].id \in Ids
           /\ Elems(tx'[proc[p].id].list) \subseteq Targets[proc[p].pkg]
<1>1. At(p, "record") /\ proc[p].cmd = "install" /\ proc[p].pkg \in Packages /\ proc[p].id \in Ids
  BY RecordEffect, RecordFacts
<1>2. CASE Logs(p)
  <2>1. Same(p)
    BY <1>1, <1>2 DEF Logs, Same
  <2>2. Elems(tx'[proc[p].id].list) = {}
    BY <1>2 DEF Logs, Elems
  <2> QED
    BY <1>1, <2>1, <2>2
<1>3. ASSUME NEW n \in 0 .. Len(Manifest[proc[p].pkg]), NEW b \in [Files -> Content],
             NEW pc \in {"copy", "save", "undo"}, Closes(p, n, b, pc)
      PROVE  Same(p) /\ Elems(tx'[proc[p].id].list) \subseteq Targets[proc[p].pkg]
  <2>1. Same(p)
    BY <1>1, <1>3 DEF Closes, Same
  <2>2. Names(Manifest[proc[p].pkg], n) \subseteq Targets[proc[p].pkg]
    BY <1>1, NamesInTargets
  <2> QED
    BY <1>3, <2>1, <2>2 DEF Closes
<1> QED
  BY <1>1, <1>2, <1>3, RecordEffect

(* Commands stay apart when one goes on or ends. *)
LEMMA ApartGoesOn ==
    ASSUME Apart, NEW p \in Procs, Ends(p) \/ (Running(p) /\ Same(p))
    PROVE  Apart'
  BY DEF Apart, Ends, Same, Running

(* A command just started is apart from the others. *)
LEMMA ApartBegins ==
    ASSUME Apart, NEW p \in Procs, ~Running(p), \A q \in Procs \ {p} : proc'[q] = proc[q],
           \A q \in Procs \ {p} : Running(q) =>
              /\ proc'[p].paths \cap proc[q].paths = {}
              /\ proc'[p].cmd # "remove" /\ proc[q].cmd # "remove" => proc'[p].id # proc[q].id
    PROVE  Apart'
  BY DEF Apart, Running

LEMMA OrderStep ==
    ASSUME ListInv, OrderInv, Orderly, NEW p \in setting.procs, p \in Procs,
           setting.pkgs \subseteq Packages, setting.ids \subseteq Ids,
           UNCHANGED setting, Begin(p) \/ Step(p) \/ Kill(p)
    PROVE  Apart' /\ \A q \in Procs : Running(q)' => Scope(q)'
<1>0. Apart /\ \A q \in Procs : Running(q) => Scope(q)
  BY DEF OrderInv
<1>1. Frame(p)
  BY FrameStep
<1>2. ASSUME NEW q \in Procs \ {p}, Running(q)' PROVE Scope(q)'
  <2>1. proc'[q] = proc[q] /\ Running(q) /\ Scope(q)
    BY <1>0, <1>1, <1>2 DEF Frame, Running
  <2>2. proc[q].cmd # "remove" => tx'[proc[q].id].list = tx[proc[q].id].list
    BY <1>1, <2>1 DEF Frame, TxCmd
  <2> QED
    BY <2>1, <2>2 DEF Scope, Zone
<1>3. ASSUME Running(p), Same(p), proc[p].cmd # "remove" => tx'[proc[p].id].list = tx[proc[p].id].list
      PROVE  Apart' /\ Scope(p)'
  <2>1. Scope(p) /\ proc[p].cmd \in {"install", "rollback", "remove"}
    BY <1>0, <1>3, RunningFacts
  <2>2. Scope(p)'
    BY <1>3, <2>1 DEF Scope, Same, Zone
  <2> QED
    BY <1>0, <1>3, <2>2, ApartGoesOn
<1>4. ASSUME Ends(p) PROVE Apart' /\ ~Running(p)'
  BY <1>0, <1>4, ApartGoesOn DEF Ends, Running
<1>5. CASE Begin(p)
  <2>1. ASSUME NEW k \in setting.pkgs, InstallRefused(p, k) PROVE Ends(p)
    BY <2>1, EndEnds DEF InstallRefused, End
  <2>2. ASSUME NEW k \in Packages, RemoveBegin(p, k) PROVE Apart' /\ (Running(p)' => Scope(p)')
    <3>1. /\ ~Running(p) /\ Allowed({}, {k}, Targets[k]) /\ \A q \in Procs \ {p} : proc'[q] = proc[q]
      BY <2>2, RemoveBeginEffect
    <3>2. CASE proc'[p].pc = "idle"
      BY <1>4, <3>1, <3>2 DEF Ends
    <3>3. CASE proc'[p].cmd = "remove" /\ proc'[p].pkg = k /\ proc'[p].paths = Targets[k]
      <4>1. \A q \in Procs \ {p} : Running(q) => Targets[k] \cap proc[q].paths = {}
        BY <3>1 DEF Allowed, Orderly
      <4>2. Apart'
        BY <1>0, <3>1, <3>3, <4>1, ApartBegins
      <4> QED
        BY <3>3, <4>2 DEF Scope
    <3> QED
      BY <2>2, <3>2, <3>3, RemoveBeginEffect
  <2>3. ASSUME NEW id \in Ids, RollbackBegin(p, id) PROVE Apart' /\ (Running(p)' => Scope(p)')
    <3>1. /\ ~Running(p) /\ Allowed({id}, {}, Zone(id)) /\ \A q \in Procs \ {p} : proc'[q] = proc[q]
          /\ UNCHANGED tx
      BY <2>3, RollbackBeginEffect
    <3>2. CASE proc'[p].pc = "idle"
      BY <1>4, <3>1, <3>2 DEF Ends
    <3>3. CASE proc'[p].cmd = "rollback" /\ proc'[p].id = id /\ proc'[p].paths = Zone(id)
      <4>1. \A q \in Procs \ {p} : Running(q) =>
               Zone(id) \cap proc[q].paths = {} /\ (proc[q].cmd # "remove" => id # proc[q].id)
        BY <3>1 DEF Allowed, Orderly
      <4>2. Apart'
        BY <1>0, <3>1, <3>3, <4>1, ApartBegins
      <4> QED
        BY <3>1, <3>3, <4>2 DEF Scope, Zone
    <3> QED
      BY <2>3, <3>2, <3>3, RollbackBeginEffect
  <2>4. ASSUME NEW k \in Packages, NEW id \in Ids, InstallBegin(p, k, id) PROVE Apart' /\ Scope(p)'
    <3>1. Installs(p, k, id)
      BY <2>4, InstallBeginEffect
    <3>2. /\ ~Running(p) /\ Allowed({}, {}, Targets[k]) /\ \A q \in Procs \ {p} : proc'[q] = proc[q]
          /\ proc'[p].cmd = "install" /\ proc'[p].pkg = k /\ proc'[p].id = id /\ proc'[p].paths = Targets[k]
      BY <3>1 DEF Installs
    <3>3. \A q \in Procs \ {p} : Running(q) => Targets[k] \cap proc[q].paths = {}
      BY <3>2 DEF Allowed, Orderly
    <3>4. \A q \in Procs : TxCmd(q) => proc[q].id # id
      BY <2>4, NewIdFacts
    <3>5. Apart'
      BY <1>0, <3>2, <3>3, <3>4, ApartBegins DEF TxCmd
    <3>6. tx'[id].list = <<>>
      BY <2>4, <3>1, NewIdFacts DEF Installs
    <3>7. Zone(id)' = {}
      BY <3>6 DEF Zone, Elems
    <3> QED
      BY <3>2, <3>5, <3>7 DEF Scope, Zone
  <2> QED
    BY <1>2, <1>4, <1>5, <2>1, <2>2, <2>3, <2>4 DEF Begin
<1>6. CASE RecordFile(p) \/ RecordEnd(p)
  <2>1. Running(p) /\ Scope(p)
    BY <1>0, <1>6, RecordEffect DEF At, Running
  <2>2. /\ Same(p) /\ proc[p].cmd = "install"
        /\ Elems(tx'[proc[p].id].list) \subseteq Targets[proc[p].pkg]
    BY <1>6, RecordSame
  <2>3. Scope(p)'
    BY <2>1, <2>2 DEF Scope, Same, Zone
  <2> QED
    BY <1>0, <1>2, <2>1, <2>2, <2>3, ApartGoesOn
<1>7. CASE CopyFile(p) \/ CopyEnd(p) \/ SaveList(p) \/ UndoFile(p) \/ UnlinkFile(p)
  <2>1. Running(p) /\ Same(p) /\ UNCHANGED tx
    BY <1>7, CopyFileEffect, CopyEndEffect, SaveListEffect, UndoFileEffect, UnlinkFileEffect DEF At, Running
  <2> QED
    BY <1>2, <1>3, <2>1
<1>8. CASE Mark(p) \/ UndoEnd(p) \/ UndoFails(p) \/ UnlinkEnd(p) \/ Kill(p)
  <2>1. Ends(p)
    BY <1>8, MarkEffect, UndoEndEffect, UndoFailsEffect, UnlinkEndEffect, KillEffect
  <2> QED
    BY <1>2, <1>4, <2>1
<1> QED
  BY <1>5, <1>6, <1>7, <1>8 DEF Step

(* What a setting allows it allows for ever. *)
LEMMA OrderInvStep == ListInv /\ OrderInv /\ [Next]_vars => OrderInv'
<1> SUFFICES ASSUME ListInv, OrderInv, [Next]_vars, Orderly' PROVE Apart' /\ \A q \in Procs : Running(q)' => Scope(q)'
  BY DEF OrderInv
<1>1. UNCHANGED setting
  BY DEF Next, vars
<1>2. Orderly
  BY <1>1 DEF Orderly
<1>3. CASE UNCHANGED vars
  BY <1>2, <1>3 DEF OrderInv, vars, Apart, Scope, Running, Zone
<1>4. CASE Next
  <2>1. PICK p \in setting.procs : Begin(p) \/ Step(p) \/ Kill(p)
    BY <1>4 DEF Next
  <2>2. p \in Procs /\ setting.pkgs \subseteq Packages /\ setting.ids \subseteq Ids
    BY SettingFacts DEF ListInv
  <2> QED
    BY <1>1, <1>2, <2>1, <2>2, OrderStep
<1> QED
  BY <1>3, <1>4

LEMMA OrderInvInit == Init => OrderInv
<1>1. Init => \A p \in Procs : ~Running(p)
  BY DEF Init, Running, Idle
<1> QED
  BY <1>1 DEF OrderInv, Apart

(* Commands that are started on disjoint paths, interrupted ones repeated     *)
(* first, never meet: their paths, and the transactions they write, stay      *)
(* disjoint whatever fails.                                                   *)
THEOREM CommandsApart == Spec => [](Orderly => Apart)
<1>1. Spec => []OrderInv
  BY OrderInvInit, OrderInvStep, ListsAlways, PTL DEF Spec
<1>2. OrderInv => (Orderly => Apart)
  BY DEF OrderInv
<1> QED
  BY <1>1, <1>2, PTL
-----------------------------------------------------------------------------
(* A command that is neither started alone nor by the discipline does not run *)
(* while another makes a step.                                                *)
LEMMA TidyFacts ==
    ASSUME ListInv, OrderInv, Tidy, NEW p \in setting.procs, p \in Procs,
           setting.pkgs \subseteq Packages, setting.ids \subseteq Ids,
           UNCHANGED setting, Begin(p) \/ Step(p) \/ Kill(p), NEW q \in Procs \ {p}
    PROVE  \/ ~Running(q) /\ ~Running(q)'
           \/ Orderly /\ Frame(p) /\ proc'[q] = proc[q] /\ (Running(q) => Scope(q))
<1>1. CASE Orderly
  <2>1. Frame(p)
    BY <1>1, FrameStep
  <2>2. Running(q) => Scope(q)
    BY <1>1 DEF OrderInv
  <2> QED
    BY <1>1, <2>1, <2>2 DEF Frame
<1>2. CASE ~Orderly
  <2>1. q \notin setting.procs /\ setting' = setting
    BY <1>2 DEF Tidy
  <2>2. ListInv'
    <3>1. Next
      BY DEF Next
    <3> QED
      BY <3>1, ListInvStep
  <2>3. (Running(q) => q \in setting.procs) /\ (Running(q)' => q \in setting'.procs)
    BY <2>2 DEF ListInv, Unmade
  <2> QED
    BY <2>1, <2>3
<1> QED
  BY <1>1, <1>2

(* What a command records or copies is among its paths. *)
LEMMA KeptInPaths ==
    ASSUME ListInv, NEW q \in Procs, Running(q), Scope(q)
    PROVE  /\ At(q, "record") => Names(Manifest[proc[q].pkg], proc[q].i) \subseteq proc[q].paths
           /\ At(q, "copy") => \A j \in DOMAIN Listed(q) : Listed(q)[j] \in proc[q].paths
<1>1. ASSUME At(q, "record") PROVE Names(Manifest[proc[q].pkg], proc[q].i) \subseteq proc[q].paths
  <2>1. /\ proc[q].pkg \in Packages /\ proc[q].cmd = "install" /\ proc[q].i \in Nat
        /\ proc[q].i <= Len(Manifest[proc[q].pkg]) /\ Manifest[proc[q].pkg] \in Seq(Files)
    BY <1>1, RecordFacts
  <2>2. proc[q].i \in 0 .. Len(Manifest[proc[q].pkg])
    BY <2>1
  <2>3. Names(Manifest[proc[q].pkg], proc[q].i) \subseteq Targets[proc[q].pkg]
    BY <2>1, <2>2, NamesInTargets
  <2> QED
    BY <2>1, <2>3 DEF Scope
<1>2. ASSUME At(q, "copy") PROVE \A j \in DOMAIN Listed(q) : Listed(q)[j] \in proc[q].paths
  <2>1. proc[q].cmd = "install"
    BY <1>2, ListedFacts DEF At, InstallRec
  <2> QED
    BY <2>1 DEF Scope, Zone, Listed, Elems
<1> QED
  BY <1>1, <1>2

LEMMA KeptOthers ==
    ASSUME ListInv, OrderInv, Tidy, KeptInv, NEW p \in setting.procs, p \in Procs,
           setting.pkgs \subseteq Packages, setting.ids \subseteq Ids,
           UNCHANGED setting, Begin(p) \/ Step(p) \/ Kill(p), NEW q \in Procs \ {p}
    PROVE  KeptAt(q)'
<1>1. CASE ~Running(q)'
  BY <1>1 DEF KeptAt, Running, At
<1>2. CASE Running(q)' /\ Orderly /\ Frame(p) /\ proc'[q] = proc[q] /\ (Running(q) => Scope(q))
  <2>1. Running(q) /\ Scope(q) /\ KeptAt(q)
    BY <1>2 DEF Running, KeptInv
  <2>2. /\ At(q, "record") => Names(Manifest[proc[q].pkg], proc[q].i) \subseteq proc[q].paths
        /\ At(q, "copy") => \A j \in DOMAIN Listed(q) : Listed(q)[j] \in proc[q].paths
    BY <2>1, KeptInPaths
  <2>3. At(q, "record") \/ At(q, "copy") => TxCmd(q)
    BY <2>1, RecordFacts, ListedFacts DEF TxCmd, At, InstallRec
  <2>4. At(q, "record") \/ At(q, "copy") =>
           /\ tx'[proc[q].id].list = tx[proc[q].id].list
           /\ tx'[proc[q].id].backup = tx[proc[q].id].backup
    BY <1>2, <2>3 DEF Frame
  <2>5. \A f \in proc[q].paths : fs'[f] = fs[f]
    BY <1>2, <2>1 DEF Frame
  <2>6. ASSUME At(q, "record")
        PROVE \A f \in Names(Manifest[proc[q].pkg], proc[q].i) :
                 fs'[f] # Absent => tx'[proc[q].id].backup[f] = fs'[f]
    BY <2>1, <2>2, <2>4, <2>5, <2>6 DEF KeptAt, Kept
  <2>7. ASSUME At(q, "copy")
        PROVE \A j \in DOMAIN tx'[proc[q].id].list :
                 j > proc[q].i /\ fs'[tx'[proc[q].id].list[j]] # Absent
                   => tx'[proc[q].id].backup[tx'[proc[q].id].list[j]] = fs'[tx'[proc[q].id].list[j]]
    BY <2>1, <2>2, <2>4, <2>5, <2>7 DEF KeptAt, Kept, Listed
  <2> QED
    BY <1>2, <2>6, <2>7 DEF KeptAt, At, Kept, Listed
<1> QED
  BY <1>1, <1>2, TidyFacts

(* A path just recorded is kept, and the ones before it still are. *)
LEMMA KeptLogs ==
    ASSUME ListInv, NEW p \in Procs, At(p, "record"), KeptAt(p), Logs(p)
    PROVE  KeptAt(p)'
<1> DEFINE m == Manifest[proc[p].pkg]
           id == proc[p].id
           f == Current(p, m)
<1>1. /\ proc[p].i \in Nat /\ m \in Seq(Files) /\ tx[id].backup \in [Files -> Content]
  BY RecordFacts
<1>2. /\ f \in Files /\ f = m[proc[p].i + 1] /\ proc[p].i < Len(m)
  BY <1>1, CurrentFacts DEF Logs, More
<1>3. Names(m, proc[p].i + 1) = Names(m, proc[p].i) \cup {f}
  BY <1>1, <1>2, NamesNext
<1>4. tx'[id].backup = [tx[id].backup EXCEPT ![f] = BackupOf(p, f)]
  BY DEF Logs, Backup
<1>5. \A g \in Names(m, proc[p].i) : fs[g] # Absent => tx[id].backup[g] = fs[g]
  BY DEF KeptAt, Kept
<1>6. \A g \in Names(m, proc[p].i) : g \in Files
  BY <1>1, <1>2 DEF Names
<1>7. fs[f] # Absent => BackupOf(p, f) = fs[f]
  BY DEF BackupOf
<1> HIDE DEF f
<1>8. \A g \in Names(m, proc[p].i + 1) : fs[g] # Absent => tx'[id].backup[g] = fs[g]
  BY <1>1, <1>2, <1>3, <1>4, <1>5, <1>6, <1>7
<1>9. /\ proc'[p].pc = "record" /\ proc'[p].i = proc[p].i + 1 /\ proc'[p].id = id
      /\ proc'[p].pkg = proc[p].pkg /\ fs' = fs
  BY DEF Logs
<1> QED
  BY <1>8, <1>9 DEF KeptAt, At, Kept

LEMMA KeptCloses ==
    ASSUME ListInv, NEW p \in Procs, At(p, "record"), KeptAt(p),
           NEW n \in 0 .. Len(Manifest[proc[p].pkg]), NEW b \in [Files -> Content],
           NEW pc \in {"copy", "save", "undo"}, Closes(p, n, b, pc)
    PROVE  KeptAt(p)'
<1> DEFINE m == Manifest[proc[p].pkg]
           id == proc[p].id
<1>1. proc'[p].pc = pc /\ proc'[p].id = id /\ fs' = fs
  BY DEF Closes
<1>2. ASSUME pc = "copy" PROVE \A j \in DOMAIN m : fs[m[j]] # Absent => b[m[j]] = fs[m[j]]
  <2>0. m \in Seq(Files)
    BY RecordFacts
  <2>1. proc[p].i = Len(m) /\ b = tx[id].backup
    BY <1>2 DEF Closes
  <2>2. \A j \in DOMAIN m : m[j] \in Names(m, proc[p].i)
    BY <2>0, <2>1 DEF Names
  <2> QED
    BY <2>0, <2>1, <2>2 DEF KeptAt, Kept
<1> DEFINE l == tx'[id].list
<1>3. l \in Prefixes(m) /\ tx'[id].backup = b
  BY DEF Closes
<1>4. \A j \in DOMAIN l : j \in DOMAIN m /\ l[j] = m[j]
  <2>1. proc[p].pkg \in Packages /\ m \in Seq(Files)
    BY RecordFacts
  <2>2. l \in Seq(Files) /\ Len(l) \in 0 .. Len(m) /\ \A j \in 1 .. Len(l) : l[j] = m[j]
    BY <1>3, <2>1, PartFacts
  <2> HIDE DEF l, m
  <2> QED
    BY <2>1, <2>2
<1>5. ASSUME pc = "copy" PROVE \A j \in DOMAIN l : fs[l[j]] # Absent => b[l[j]] = fs[l[j]]
  <2> HIDE DEF l, m
  <2> QED
    BY <1>2, <1>4, <1>5
<1> HIDE DEF m, id
<1> QED
  BY <1>1, <1>3, <1>5 DEF KeptAt, At, Kept, Listed

LEMMA KeptCopies ==
    ASSUME DistinctPaths, ListInv, NEW p \in Procs, KeptAt(p), CopyFile(p)
    PROVE  KeptAt(p)'
<1> DEFINE m == Listed(p)
           f == Current(p, m)
<1>1. /\ At(p, "copy") /\ More(p, m) /\ UNCHANGED tx /\ Only(f) /\ Same(p)
      /\ (proc'[p].pc = "copy" /\ proc'[p].i = proc[p].i + 1) \/ proc'[p].pc = "undo"
  BY CopyFileEffect
<1>2. /\ proc[p] \in InstallRec /\ proc[p].pkg \in Packages /\ m \in Prefixes(Manifest[proc[p].pkg])
      /\ m \in Seq(Files) /\ proc[p].i \in Nat
  BY <1>1, ListedFacts DEF At, Faithful
<1>2a. \A j \in DOMAIN m : j \in DOMAIN Manifest[proc[p].pkg] /\ m[j] = Manifest[proc[p].pkg][j]
  <2>1. Manifest[proc[p].pkg] \in Seq(Files)
    BY <1>2, PackageAssumption
  <2>2. Len(m) \in 0 .. Len(Manifest[proc[p].pkg]) /\ \A j \in 1 .. Len(m) : m[j] = Manifest[proc[p].pkg][j]
    BY <1>2, PartFacts
  <2> HIDE DEF m
  <2> QED
    BY <1>2, <2>1, <2>2
<1>3. f = m[proc[p].i + 1] /\ proc[p].i + 1 \in DOMAIN m
  BY <1>1, <1>2, CurrentFacts
<1>4. \A j \in DOMAIN m : j > proc[p].i + 1 => m[j] # f /\ m[j] \in Files /\ j > proc[p].i
  BY <1>2, <1>2a, <1>3 DEF DistinctPaths
<1>5. \A j \in DOMAIN m : j > proc[p].i /\ fs[m[j]] # Absent => tx[proc[p].id].backup[m[j]] = fs[m[j]]
  BY <1>1 DEF KeptAt, Kept
<1>6. proc'[p].id = proc[p].id
  BY <1>1, <1>2 DEF Same, InstallRec
<1> HIDE DEF f
<1>7. \A j \in DOMAIN m : j > proc[p].i + 1 => fs'[m[j]] = fs[m[j]]
  BY <1>1, <1>4 DEF Only
<1>8. m = tx'[proc'[p].id].list /\ tx'[proc'[p].id].backup = tx[proc[p].id].backup
  BY <1>1, <1>6 DEF Listed
<1> HIDE DEF m
<1>9. ASSUME proc'[p].pc = "copy"
      PROVE  \A j \in DOMAIN m : j > proc'[p].i /\ fs'[m[j]] # Absent => tx'[proc'[p].id].backup[m[j]] = fs'[m[j]]
  <2> SUFFICES ASSUME NEW j \in DOMAIN m, j > proc'[p].i, fs'[m[j]] # Absent
               PROVE  tx'[proc'[p].id].backup[m[j]] = fs'[m[j]]
    OBVIOUS
  <2>1. j > proc[p].i + 1 /\ j > proc[p].i
    BY <1>1, <1>4, <1>9
  <2>2. fs'[m[j]] = fs[m[j]]
    BY <1>7, <2>1
  <2> QED
    BY <1>5, <1>8, <2>1, <2>2
<1> QED
  BY <1>1, <1>8, <1>9 DEF KeptAt, At, Kept, Listed

LEMMA KeptStep ==
    ASSUME DistinctPaths, ListInv, OrderInv, Tidy, KeptInv, NEW p \in setting.procs, p \in Procs,
           setting.pkgs \subseteq Packages, setting.ids \subseteq Ids,
           UNCHANGED setting, Begin(p) \/ Step(p) \/ Kill(p)
    PROVE  \A q \in Procs : KeptAt(q)'
<1> SUFFICES KeptAt(p)'
  BY KeptOthers
<1>2. KeptAt(p)
  BY DEF KeptInv
<1>3. ASSUME proc'[p].pc \notin {"record", "copy"} PROVE KeptAt(p)'
  BY <1>3 DEF KeptAt, At
<1>4. CASE Begin(p)
  <2>1. ASSUME NEW k \in setting.pkgs, InstallRefused(p, k) PROVE proc'[p].pc = "idle"
    BY <2>1, EndEnds DEF InstallRefused, End, Ends
  <2>2. ASSUME NEW k \in Packages, RemoveBegin(p, k) PROVE proc'[p].pc \notin {"record", "copy"}
    BY <2>2, RemoveBeginEffect
  <2>3. ASSUME NEW id \in Ids, RollbackBegin(p, id) PROVE proc'[p].pc \notin {"record", "copy"}
    BY <2>3, RollbackBeginEffect
  <2>4. ASSUME NEW k \in Packages, NEW id \in Ids, InstallBegin(p, k, id) PROVE KeptAt(p)'
    <3>1. proc'[p].i = 0 /\ proc'[p].pc # "copy"
      BY <2>4, InstallBeginEffect DEF Installs
    <3>2. Names(Manifest[proc'[p].pkg], 0) = {}
      BY DEF Names
    <3> QED
      BY <3>1, <3>2 DEF KeptAt, At
  <2> QED
    BY <1>3, <1>4, <2>1, <2>2, <2>3, <2>4 DEF Begin
<1>5. CASE RecordFile(p) \/ RecordEnd(p)
  BY <1>2, <1>5, RecordEffect, KeptLogs, KeptCloses
<1>6. CASE CopyFile(p)
  BY <1>2, <1>6, KeptCopies
<1>7. CASE CopyEnd(p) \/ SaveList(p) \/ UndoFile(p) \/ UnlinkFile(p)
  BY <1>3, <1>7, CopyEndEffect, SaveListEffect, UndoFileEffect, UnlinkFileEffect
<1>8. CASE Mark(p) \/ UndoEnd(p) \/ UndoFails(p) \/ UnlinkEnd(p) \/ Kill(p)
  BY <1>3, <1>8, MarkEffect, UndoEndEffect, UndoFailsEffect, UnlinkEndEffect, KillEffect DEF Ends
<1> QED
  BY <1>4, <1>5, <1>6, <1>7, <1>8 DEF Step

LEMMA KeptInvStep ==
    ASSUME DistinctPaths
    PROVE  ListInv /\ OrderInv /\ KeptInv /\ [Next]_vars => KeptInv'
<1> SUFFICES ASSUME ListInv, OrderInv, KeptInv, [Next]_vars, Tidy' PROVE \A q \in Procs : KeptAt(q)'
  BY DEF KeptInv
<1>1. UNCHANGED setting
  BY DEF Next, vars
<1>2. Tidy
  BY <1>1 DEF Tidy, Orderly
<1>3. CASE UNCHANGED vars
  BY <1>2, <1>3 DEF KeptInv, vars, KeptAt, At, Kept, Listed
<1>4. CASE Next
  <2>1. PICK p \in setting.procs : Begin(p) \/ Step(p) \/ Kill(p)
    BY <1>4 DEF Next
  <2>2. p \in Procs /\ setting.pkgs \subseteq Packages /\ setting.ids \subseteq Ids
    BY SettingFacts DEF ListInv
  <2> QED
    BY <1>1, <1>2, <2>1, <2>2, KeptStep
<1> QED
  BY <1>3, <1>4

(* No step of any command changes a path being copied unless its content is   *)
(* kept.                                                                      *)
LEMMA OverwriteStep ==
    ASSUME ListInv, OrderInv, KeptInv, Tidy, [Next]_vars, NEW p \in Procs, NEW f \in Files,
           At(p, "copy"), f \in Elems(Listed(p)), fs[f] # fs'[f], fs[f] # Absent
    PROVE  tx[proc[p].id].backup[f] = fs[f]
<1>1. Next
  BY DEF vars
<1>2. UNCHANGED setting /\ \E r \in setting.procs : Begin(r) \/ Step(r) \/ Kill(r)
  BY <1>1 DEF Next
<1>3. PICK r \in setting.procs : Begin(r) \/ Step(r) \/ Kill(r)
  BY <1>2
<1>4. r \in Procs /\ setting.pkgs \subseteq Packages /\ setting.ids \subseteq Ids
  BY SettingFacts DEF ListInv
<1>5. Running(p) /\ proc[p].pc = "copy" /\ KeptAt(p)
  BY DEF At, Running, KeptInv
<1>6. r = p
  <2> SUFFICES ASSUME r # p PROVE FALSE
    OBVIOUS
  <2>1. Orderly /\ Frame(r) /\ Scope(p)
    BY <1>2, <1>3, <1>4, <1>5, TidyFacts
  <2>2. f \in proc[p].paths
    BY <1>5, <2>1, KeptInPaths DEF Elems
  <2> QED
    BY <1>5, <2>1, <2>2 DEF Frame
<1>7. More(p, Listed(p)) /\ Only(Current(p, Listed(p)))
  <2>1. CASE Begin(p)
    BY <1>5, <2>1 DEF Begin, InstallRefused, RemoveBegin, InstallBegin, RollbackBegin
  <2>2. CASE Kill(p)
    BY <1>5, <2>2, KillEffect DEF At
  <2>3. CASE Step(p)
    <3>1. CopyFile(p) \/ CopyEnd(p)
      BY <1>5, <2>3
         DEF Step, RecordFile, RecordEnd, SaveList, Mark, UndoFile, UndoEnd, UndoFails, UnlinkFile, UnlinkEnd, At
    <3> QED
      BY <3>1, CopyFileEffect, CopyEndEffect
  <2> QED
    BY <1>3, <1>6, <2>1, <2>2, <2>3
<1>8. f = Current(p, Listed(p))
  BY <1>7 DEF Only
<1>9. proc[p].i \in Nat /\ Listed(p) \in Seq(Files)
  BY <1>5, ListedFacts
<1>10. f = Listed(p)[proc[p].i + 1] /\ proc[p].i + 1 \in DOMAIN Listed(p) /\ proc[p].i + 1 > proc[p].i
  BY <1>7, <1>8, <1>9, CurrentFacts
<1> QED
  BY <1>5, <1>10 DEF KeptAt, Kept, At

LEMMA KeptInvInit == Init => KeptInv
<1>1. Init => \A p \in Procs : proc[p].pc = "idle"
  BY DEF Init, Idle
<1> QED
  BY <1>1 DEF KeptInv, KeptAt, At

(* No content is overwritten by install_package unless the transaction holds  *)
(* a backup of exactly that content: for one command at a time with any        *)
(* failures, kills and reused identifiers, or for commands run by the          *)
(* discipline, when no manifest names a path twice.                            *)
THEOREM BackupKept ==
    ASSUME DistinctPaths
    PROVE  Spec /\ Tidy => BackupBeforeOverwrite
<1> DEFINE A == \A p \in Procs, f \in Files :
                  At(p, "copy") /\ f \in Elems(Listed(p)) /\ fs[f] # fs'[f] /\ fs[f] # Absent
                     => tx[proc[p].id].backup[f] = fs[f]
<1>1. Tidy /\ [Next]_vars => Tidy'
  BY DEF Tidy, Orderly, Next, vars
<1>2. ListInv /\ OrderInv /\ KeptInv /\ Tidy /\ [Next]_vars => A
  BY OverwriteStep
<1> HIDE DEF A
<1>4. Spec => []OrderInv
  BY OrderInvInit, OrderInvStep, ListsAlways, PTL DEF Spec
<1>5. Spec => []KeptInv
  BY <1>4, KeptInvInit, KeptInvStep, ListsAlways, PTL DEF Spec
<1>6. Spec /\ Tidy => [][A]_vars
  BY <1>1, <1>2, <1>4, <1>5, ListsAlways, PTL DEF Spec
<1> QED
  BY <1>6 DEF BackupBeforeOverwrite, A
-----------------------------------------------------------------------------
(* Backups, restorations, lists and removals do not fail. *)
LEMMA CarefulFacts ==
    ASSUME Careful
    PROVE  /\ Orderly /\ ~Fault("backup") /\ ~Fault("restore") /\ ~Fault("reopen")
           /\ ~Fault("unlink") /\ ~Fault("flush") /\ ~Fault("list") /\ ~Fault("reread")
  BY DEF Careful, Orderly, Fault

(* What the discipline says of a command about to start: nothing is pending,  *)
(* and then its paths lie in no zone, or it repeats what is.                   *)
LEMMA AllowedFacts ==
    ASSUME ListInv, OrderInv, Orderly, NEW ids, NEW pkgs, NEW paths, Allowed(ids, pkgs, paths)
    PROVE  \/ ids \cap dirty # {} \/ pkgs \cap removing # {}
           \/ /\ \A i \in dirty : Zone(i) \cap paths = {} /\ \E q \in Procs : TxCmd(q) /\ proc[q].id = i
              /\ \A k \in removing : Targets[k] \cap paths = {}
<1>1. /\ Pending.tx \cup Pending.db # {} => ids \cap Pending.tx # {} \/ pkgs \cap Pending.db # {}
      /\ \A p \in Procs : Running(p) => proc[p].paths \cap paths = {}
  BY DEF Allowed, Orderly
<1>2. Pending.tx \subseteq dirty /\ Pending.db \subseteq removing
  BY DEF Pending
<1>3. CASE Pending.tx \cup Pending.db # {}
  BY <1>1, <1>2, <1>3
<1>4. CASE Pending.tx = {} /\ Pending.db = {}
  <2>1. \A i \in dirty : \E q \in Procs : TxCmd(q) /\ proc[q].id = i
    BY <1>4 DEF Pending, TxCmd
  <2>2. \A k \in removing : \E q \in Procs : RmCmd(q) /\ proc[q].pkg = k
    BY <1>4 DEF Pending, RmCmd
  <2>3. \A q \in Procs : TxCmd(q) => Zone(proc[q].id) \subseteq proc[q].paths
    BY RunningFacts DEF OrderInv, Scope, TxCmd
  <2>4. \A q \in Procs : RmCmd(q) => Targets[proc[q].pkg] = proc[q].paths
    BY DEF OrderInv, Scope, RmCmd
  <2>5. \A i \in dirty : Zone(i) \cap paths = {}
    BY <1>1, <2>1, <2>3 DEF TxCmd
  <2>6. \A k \in removing : Targets[k] \cap paths = {}
    BY <1>1, <2>2, <2>4 DEF RmCmd
  <2> QED
    BY <2>1, <2>5, <2>6
<1> QED
  BY <1>3, <1>4

(* Zones grow only by what the command at work covers itself. *)
OwnZones(p) ==
    /\ \A i \in dirty' : (i \in dirty /\ Zone(i)' = Zone(i)) \/ (TxCmd(p)' /\ proc'[p].id = i)
    /\ \A k \in removing' : k \in removing \/ (RmCmd(p)' /\ proc'[p].pkg = k)
    /\ Running(p)' => Clear(p)'

LEMMA ZonesKeep ==
    ASSUME ZonesApart, \A q \in Procs : Running(q) => Clear(q),
           NEW p \in Procs, \A q \in Procs \ {p} : proc'[q] = proc[q],
           Apart', ListInv', \A q \in Procs : Running(q)' => Scope(q)', OwnZones(p)
    PROVE  ZonesApart' /\ \A q \in Procs : Running(q)' => Clear(q)'
<1>1. TxCmd(p)' => Zone(proc[p].id)' \subseteq proc'[p].paths
  <2>1. Running(p)' => proc'[p].cmd \in {"install", "rollback", "remove"}
    BY DEF ListInv, TypeOK, Running, IdleRec, InstallRec, RollbackRec, RemoveRec
  <2> QED
    BY <2>1 DEF TxCmd, Scope
<1>2. RmCmd(p)' => Targets[proc'[p].pkg] = proc'[p].paths
  BY DEF RmCmd, Scope
<1>3. \A i \in dirty' : (i \in dirty /\ Zone(i)' = Zone(i)) \/ (TxCmd(p)' /\ proc'[p].id = i /\ Zone(i)' \subseteq proc'[p].paths)
  <2> SUFFICES ASSUME NEW i \in dirty', TxCmd(p)', proc'[p].id = i PROVE Zone(i)' \subseteq proc'[p].paths
    BY DEF OwnZones
  <2> QED
    BY <1>1 DEF Zone
<1>4. \A k \in removing' : k \in removing \/ (RmCmd(p)' /\ proc'[p].pkg = k /\ Targets[k] = proc'[p].paths)
  BY <1>2 DEF OwnZones
<1>5. TxCmd(p)' =>
        /\ \A i \in dirty' : Zone(i)' \cap proc'[p].paths = {} \/ proc'[p].id = i
        /\ \A k \in removing' : Targets[k] \cap proc'[p].paths = {}
  BY DEF OwnZones, TxCmd, Clear
<1>6. RmCmd(p)' =>
        /\ \A i \in dirty' : Zone(i)' \cap proc'[p].paths = {}
        /\ \A k \in removing' : Targets[k] \cap proc'[p].paths = {} \/ proc'[p].pkg = k
  BY DEF OwnZones, RmCmd, Clear
<1>7. ZonesApart'
  <2>1. \A i, j \in dirty' : i # j => Zone(i)' \cap Zone(j)' = {}
    BY <1>3, <1>5 DEF ZonesApart
  <2>2. \A i \in dirty', k \in removing' : Zone(i)' \cap Targets[k] = {}
    BY <1>3, <1>4, <1>5, <1>6 DEF ZonesApart
  <2>3. \A k, l \in removing' : k # l => Targets[k] \cap Targets[l] = {}
    BY <1>4, <1>6 DEF ZonesApart
  <2> QED
    BY <2>1, <2>2, <2>3 DEF ZonesApart
<1>8. ASSUME NEW q \in Procs, Running(q)' PROVE Clear(q)'
  <2>1. CASE q = p
    BY <1>8, <2>1 DEF OwnZones
  <2>2. CASE q # p
    <3>1. Clear(q) /\ proc'[q] = proc[q]
      BY <1>8, <2>2 DEF Running
    <3>2. Running(p)' => proc'[p].paths \cap proc'[q].paths = {}
      BY <1>8, <2>2 DEF Apart
    <3>3. \A i \in dirty' : Zone(i)' \cap proc'[q].paths = {} \/ (proc'[q].cmd # "remove" /\ proc'[q].id = i)
      BY <1>3, <3>1, <3>2 DEF Clear, TxCmd
    <3>4. \A k \in removing' : Targets[k] \cap proc'[q].paths = {} \/ (proc'[q].cmd = "remove" /\ proc'[q].pkg = k)
      BY <1>4, <3>1, <3>2 DEF Clear, RmCmd
    <3> QED
      BY <3>3, <3>4 DEF Clear
  <2> QED
    BY <2>1, <2>2
<1> QED
  BY <1>7, <1>8

LEMMA OwnZonesGoesOn ==
    ASSUME NEW p \in Procs, Ends(p) \/ (Running(p) /\ Same(p) /\ Clear(p)),
           dirty' \subseteq dirty, removing' \subseteq removing,
           \A i \in dirty : tx'[i].list = tx[i].list
    PROVE  OwnZones(p)
<1>1. \A i \in dirty : Zone(i)' = Zone(i)
  BY DEF Zone
<1>2. Running(p)' => Clear(p)'
  BY <1>1 DEF Clear, Ends, Same, Running
<1> QED
  BY <1>1, <1>2 DEF OwnZones

(* A command starts clear of every zone but the one it repeats. *)
LEMMA OwnZonesBegins ==
    ASSUME ListInv, OrderInv, ViewInv, Careful, NEW p \in Procs,
           setting.pkgs \subseteq Packages, setting.ids \subseteq Ids, Begin(p)
    PROVE  OwnZones(p)
<1>0. Orderly /\ ZonesApart /\ dirty \subseteq Ids /\ removing \subseteq Packages
  BY CarefulFacts DEF ViewInv, ListInv, TypeOK
<1>1. ASSUME NEW k \in setting.pkgs, InstallRefused(p, k) PROVE OwnZones(p)
  <2>1. Ends(p) /\ UNCHANGED <<tx, dirty, removing>>
    BY <1>1, EndEnds DEF InstallRefused, End, Keep
  <2> QED
    BY <2>1, OwnZonesGoesOn
<1>2. ASSUME NEW k \in Packages, RemoveBegin(p, k) PROVE OwnZones(p)
  <2>1. /\ Allowed({}, {k}, Targets[k]) /\ UNCHANGED <<tx, dirty>> /\ \A q \in Procs \ {p} : proc'[q] = proc[q]
    BY <1>2, RemoveBeginEffect
  <2>2. CASE proc'[p].pc = "idle" /\ removing' = removing
    BY <2>1, <2>2, OwnZonesGoesOn DEF Ends
  <2>3. CASE /\ proc'[p].pc = "unlink" /\ proc'[p].cmd = "remove" /\ proc'[p].pkg = k
             /\ proc'[p].paths = Targets[k] /\ removing' = removing \cup {k}
    <3>1. /\ \A i \in dirty : Zone(i) \cap Targets[k] = {}
          /\ \A l \in removing : Targets[l] \cap Targets[k] = {} \/ l = k
      <4>1. {} \cap dirty # {} \/ {k} \cap removing # {}
            \/ /\ \A i \in dirty : Zone(i) \cap Targets[k] = {}
               /\ \A l \in removing : Targets[l] \cap Targets[k] = {}
        BY <1>0, <2>1, AllowedFacts
      <4> QED
        BY <1>0, <4>1 DEF ZonesApart
    <3>2. \A i \in dirty : Zone(i)' = Zone(i)
      BY <2>1 DEF Zone
    <3>3. Clear(p)'
      BY <2>1, <2>3, <3>1, <3>2 DEF Clear
    <3> QED
      BY <2>1, <2>3, <3>2, <3>3 DEF OwnZones, RmCmd, Running
  <2> QED
    BY <1>2, <2>2, <2>3, RemoveBeginEffect
<1>3. ASSUME NEW id \in Ids, RollbackBegin(p, id) PROVE OwnZones(p)
  <2>1. /\ Allowed({id}, {}, Zone(id)) /\ UNCHANGED <<tx, removing>> /\ \A q \in Procs \ {p} : proc'[q] = proc[q]
    BY <1>3, RollbackBeginEffect
  <2>2. CASE proc'[p].pc = "idle" /\ dirty' = dirty
    BY <2>1, <2>2, OwnZonesGoesOn DEF Ends
  <2>3. CASE /\ proc'[p].pc = "undo" /\ proc'[p].cmd = "rollback" /\ proc'[p].id = id
             /\ proc'[p].paths = Zone(id) /\ dirty' = dirty \cup {id}
    <3>1. /\ \A i \in dirty : Zone(i) \cap Zone(id) = {} \/ i = id
          /\ \A l \in removing : Targets[l] \cap Zone(id) = {}
      <4>1. {id} \cap dirty # {} \/ {} \cap removing # {}
            \/ /\ \A i \in dirty : Zone(i) \cap Zone(id) = {}
               /\ \A l \in removing : Targets[l] \cap Zone(id) = {}
        BY <1>0, <2>1, AllowedFacts
      <4> QED
        BY <1>0, <4>1 DEF ZonesApart
    <3>2. \A i \in dirty' : Zone(i)' = Zone(i)
      BY <2>1 DEF Zone
    <3>3. Clear(p)'
      BY <2>1, <2>3, <3>1, <3>2 DEF Clear
    <3> QED
      BY <2>1, <2>3, <3>2, <3>3 DEF OwnZones, TxCmd, Running
  <2> QED
    BY <1>3, <2>2, <2>3, RollbackBeginEffect
<1>4. ASSUME NEW k \in Packages, NEW id \in Ids, InstallBegin(p, k, id) PROVE OwnZones(p)
  <2>1. Installs(p, k, id)
    BY <1>4, InstallBeginEffect
  <2>2. /\ Allowed({}, {}, Targets[k]) /\ UNCHANGED removing /\ \A j \in Ids \ {id} : tx'[j] = tx[j]
        /\ proc'[p].cmd = "install" /\ proc'[p].id = id /\ proc'[p].paths = Targets[k]
        /\ proc'[p].pc # "idle" /\ dirty' \in {dirty, dirty \cup {id}}
    BY <2>1 DEF Installs
  <2>3. /\ \A i \in dirty : Zone(i) \cap Targets[k] = {} /\ \E q \in Procs : TxCmd(q) /\ proc[q].id = i
        /\ \A l \in removing : Targets[l] \cap Targets[k] = {}
    <3>1. {} \cap dirty = {} /\ {} \cap removing = {}
      OBVIOUS
    <3> QED
      BY <1>0, <2>2, <3>1, AllowedFacts
  <2>4. id \notin dirty
    BY <1>0, <1>4, <2>3, NewIdFacts
  <2>5. \A i \in dirty : Zone(i)' = Zone(i)
    BY <1>0, <2>2, <2>4 DEF Zone
  <2>6. Clear(p)'
    BY <2>2, <2>3, <2>5 DEF Clear
  <2> QED
    BY <2>2, <2>5, <2>6 DEF OwnZones, TxCmd, Running
<1> QED
  BY <1>1, <1>2, <1>3, <1>4 DEF Begin

LEMMA OwnZonesStep ==
    ASSUME ListInv, OrderInv, ViewInv, Careful, NEW p \in setting.procs, p \in Procs,
           setting.pkgs \subseteq Packages, setting.ids \subseteq Ids,
           UNCHANGED setting, Begin(p) \/ Step(p) \/ Kill(p)
    PROVE  OwnZones(p)
<1>0. /\ Orderly /\ ZonesApart /\ dirty \subseteq Ids /\ removing \subseteq Packages
      /\ Running(p) => Clear(p) /\ Work(p)
  BY CarefulFacts DEF ViewInv, ListInv, TypeOK
<1>1. CASE Begin(p)
  BY <1>1, OwnZonesBegins
<1>2. CASE RecordFile(p) \/ RecordEnd(p)
  <2>1. Running(p) /\ Same(p) /\ proc[p].id \in Ids /\ proc[p].id \notin dirty
    <3>1. At(p, "record")
      BY <1>2, RecordEffect
    <3>2. Running(p) /\ Recorded(p)
      BY <1>0, <3>1 DEF At, Running, Work
    <3> QED
      BY <1>2, <3>2, RecordSame DEF Recorded
  <2>2. /\ UNCHANGED removing /\ \A j \in Ids \ {proc[p].id} : tx'[j] = tx[j]
        /\ dirty' \in {dirty, dirty \cup {proc[p].id}}
    BY <1>2, RecordEffect DEF Logs, Closes
  <2>3. \A i \in dirty : Zone(i)' = Zone(i)
    BY <1>0, <2>1, <2>2 DEF Zone
  <2>4. proc[p].cmd = "install"
    BY <1>2, RecordSame
  <2>5. Clear(p)'
    BY <1>0, <2>1, <2>2, <2>3, <2>4 DEF Clear, Same
  <2> QED
    BY <2>1, <2>2, <2>3, <2>4, <2>5 DEF OwnZones, TxCmd, Same, Running
<1>3. CASE CopyFile(p) \/ CopyEnd(p) \/ SaveList(p) \/ UndoFile(p) \/ UnlinkFile(p)
  <2>1. Running(p) /\ Same(p) /\ UNCHANGED <<tx, dirty, removing>>
    BY <1>3, CopyFileEffect, CopyEndEffect, SaveListEffect, UndoFileEffect, UnlinkFileEffect DEF At, Running
  <2> QED
    BY <1>0, <2>1, OwnZonesGoesOn
<1>4. CASE Mark(p) \/ UndoEnd(p) \/ UndoFails(p) \/ UnlinkEnd(p)
  <2>1. /\ Ends(p) /\ dirty' \subseteq dirty /\ removing' \subseteq removing
        /\ \A i \in dirty : tx'[i].list = tx[i].list
    BY <1>0, <1>4, MarkEffect, UndoEndEffect, UndoFailsEffect, UnlinkEndEffect
  <2> QED
    BY <2>1, OwnZonesGoesOn
<1>5. CASE Kill(p)
  <2>1. Ends(p) /\ UNCHANGED <<dirty, removing>> /\ Running(p)
    BY <1>5, KillEffect
  <2>2. CASE At(p, "record") /\ \A j \in Ids \ {proc[p].id} : tx'[j] = tx[j]
    <3>1. proc[p].id \notin dirty
      BY <1>0, <2>1, <2>2 DEF Work, Recorded, At
    <3>2. \A i \in dirty : tx'[i].list = tx[i].list
      BY <1>0, <2>2, <3>1
    <3> QED
      BY <2>1, <3>2, OwnZonesGoesOn
  <2>3. CASE UNCHANGED tx
    BY <2>1, <2>3, OwnZonesGoesOn
  <2> QED
    BY <1>5, <2>2, <2>3, KillEffect
<1> QED
  BY <1>1, <1>2, <1>3, <1>4, <1>5 DEF Step

-----------------------------------------------------------------------------
(* A step marks as in progress, or done, only what is its own. *)
OwnMarks(p) ==
    /\ \A i \in Ids : (i \in dirty' <=> i \in dirty)
                      \/ (TxCmd(p) /\ proc[p].id = i) \/ (TxCmd(p)' /\ proc'[p].id = i)
    /\ \A k \in Packages : k \in removing => k \in removing' \/ (RmCmd(p) /\ proc[p].pkg = k)
    /\ \A k \in Packages : db'[k] = db[k] \/ (Running(p) /\ proc[p].cmd # "rollback" /\ proc[p].pkg = k)

LEMMA OwnMarksStep ==
    ASSUME ListInv, NEW p \in setting.procs, p \in Procs,
           setting.pkgs \subseteq Packages, setting.ids \subseteq Ids,
           UNCHANGED setting, Begin(p) \/ Step(p) \/ Kill(p)
    PROVE  OwnMarks(p)
<1>1. ASSUME UNCHANGED <<dirty, removing, db>> PROVE OwnMarks(p)
  BY <1>1 DEF OwnMarks
<1>2. CASE Begin(p)
  <2>1. ASSUME NEW k \in setting.pkgs, InstallRefused(p, k) PROVE OwnMarks(p)
    BY <1>1, <2>1 DEF InstallRefused, Keep
  <2>2. ASSUME NEW k \in Packages, RemoveBegin(p, k) PROVE OwnMarks(p)
    BY <2>2, RemoveBeginEffect DEF OwnMarks
  <2>3. ASSUME NEW id \in Ids, RollbackBegin(p, id) PROVE OwnMarks(p)
    <3>1. /\ removing' = removing /\ db' = db
          /\ \/ dirty' = dirty
             \/ proc'[p].pc = "undo" /\ proc'[p].cmd = "rollback" /\ proc'[p].id = id /\ dirty' = dirty \cup {id}
      BY <2>3, RollbackBeginEffect
    <3>2. CASE dirty' = dirty
      BY <3>1, <3>2 DEF OwnMarks
    <3>3. CASE dirty' # dirty
      <4>1. TxCmd(p)' /\ proc'[p].id = id /\ dirty' = dirty \cup {id}
        BY <3>1, <3>3 DEF TxCmd, Running
      <4> QED
        BY <3>1, <4>1 DEF OwnMarks
    <3> QED
      BY <3>2, <3>3
  <2>4. ASSUME NEW k \in Packages, NEW id \in Ids, InstallBegin(p, k, id) PROVE OwnMarks(p)
    <3>1. /\ proc'[p].cmd = "install" /\ proc'[p].id = id /\ proc'[p].pc # "idle" /\ removing' = removing
          /\ dirty' \in {dirty, dirty \cup {id}} /\ db' = db
      <4>1. Installs(p, k, id)
        BY <2>4, InstallBeginEffect
      <4> QED
        BY <4>1 DEF Installs
    <3> QED
      BY <3>1 DEF OwnMarks, TxCmd, Running
  <2> QED
    BY <1>2, <2>1, <2>2, <2>3, <2>4 DEF Begin
<1>3. CASE RecordFile(p) \/ RecordEnd(p)
  <2>1. TxCmd(p)
    BY <1>3, RecordEffect, RecordFacts DEF TxCmd
  <2>2. UNCHANGED <<removing, db>> /\ dirty' \in {dirty, dirty \cup {proc[p].id}}
    BY <1>3, RecordEffect DEF Logs, Closes
  <2> QED
    BY <2>1, <2>2 DEF OwnMarks
<1>4. CASE CopyFile(p) \/ CopyEnd(p) \/ UndoFile(p) \/ UnlinkFile(p) \/ UndoFails(p)
  BY <1>1, <1>4, CopyFileEffect, CopyEndEffect, UndoFileEffect, UnlinkFileEffect, UndoFailsEffect
<1>4a. CASE SaveList(p) \/ Kill(p)
  <2>1. /\ UNCHANGED <<dirty, removing>>
        /\ UNCHANGED db \/ (At(p, "save") /\ Saves(p))
    BY <1>4a, SaveListEffect, KillEffect
  <2>2. CASE At(p, "save") /\ Saves(p)
    <3>1. Running(p) /\ proc[p].cmd = "install"
      BY <2>2, ListedFacts DEF At, InstallRec
    <3> QED
      BY <2>1, <2>2, <3>1 DEF OwnMarks, Saves
  <2> QED
    BY <1>1, <2>1, <2>2
<1>5. CASE Mark(p) \/ UndoEnd(p)
  <2>1. proc[p].pc \in {"mark", "undo"} /\ UNCHANGED <<removing, db>> /\ dirty' = dirty \ {proc[p].id}
    BY <1>5, MarkEffect, UndoEndEffect DEF At
  <2>2. TxCmd(p)
    BY <2>1, ListedFacts DEF TxCmd, InstallRec, RollbackRec
  <2> QED
    BY <2>1, <2>2 DEF OwnMarks
<1>6. CASE UnlinkEnd(p)
  <2>1. At(p, "unlink") /\ UNCHANGED dirty /\ removing' = removing \ {proc[p].pkg}
    BY <1>6, UnlinkEndEffect
  <2>2. RmCmd(p) /\ db \in [Packages -> Seq(Files) \cup {NoList}]
    BY <2>1, RemoveFacts DEF RmCmd, RemoveRec, TypeOK
  <2>3. \A k \in Packages : db'[k] = db[k] \/ proc[p].pkg = k
    BY <1>6, <2>2, UnlinkEndEffect
  <2> QED
    BY <2>1, <2>2, <2>3 DEF OwnMarks, RmCmd
<1> QED
  BY <1>2, <1>3, <1>4, <1>4a, <1>5, <1>6 DEF Step

(* What the database lists for a package is of its paths. *)
InDbInside == \A k \in Packages : InDb(k) \subseteq Targets[k]
LEMMA InDbFacts == ListInv => InDbInside
<1> SUFFICES ASSUME ListInv, NEW k \in Packages, db[k] # NoList PROVE Elems(db[k]) \subseteq Targets[k]
  BY DEF InDb, InDbInside
<1>1. db[k] \in Prefixes(Manifest[k])
  BY DEF ListInv, DbWhole, Recoverable
<1> QED
  BY <1>1, PartFacts

(* How far the others have come does not depend on whose step it is. *)
LEMMA WorkOthers ==
    ASSUME ListInv, ListInv', OrderInv, Orderly, Apart', NEW p \in Procs, NEW q \in Procs \ {p},
           Running(q), Work(q), Frame(p), OwnMarks(p)
    PROVE  Work(q)'
<1>1. Scope(q) /\ Apart
  BY DEF OrderInv
<1>2. /\ proc'[q] = proc[q] /\ \A f \in proc[q].paths : fs'[f] = fs[f]
      /\ proc[q].cmd # "remove" => /\ tx'[proc[q].id].list = tx[proc[q].id].list
                                  /\ tx'[proc[q].id].backup = tx[proc[q].id].backup
  BY DEF Frame, TxCmd
<1>3. /\ proc[q].i \in Nat /\ proc[q].paths \subseteq Files
      /\ proc[q].cmd \in {"install", "rollback", "remove"}
      /\ proc[q].cmd # "remove" => proc[q].id \in Ids
      /\ proc[q].cmd # "rollback" => proc[q].pkg \in Packages
      /\ proc[q].pc \in {"record", "copy", "save", "mark", "undo"} => proc[q].cmd # "remove"
      /\ proc[q].pc \in {"record", "copy", "save", "mark"} => proc[q].cmd = "install"
      /\ proc[q].pc = "unlink" => proc[q].cmd = "remove"
  BY RunningFacts DEF InstallRec, RollbackRec, RemoveRec
<1>4. proc[q].cmd # "remove" => (proc[q].id \in dirty' <=> proc[q].id \in dirty)
  BY <1>1, <1>2, <1>3 DEF OwnMarks, Apart, TxCmd, Running
<1>5. proc[q].cmd = "remove" /\ proc[q].pkg \in removing =>
        proc[q].pkg \in removing' \/ Targets[proc[q].pkg] = {}
  <2>1. ASSUME proc[q].cmd = "remove", RmCmd(p), proc[p].pkg = proc[q].pkg PROVE Targets[proc[q].pkg] = {}
    <3>1. proc[p].paths = Targets[proc[q].pkg] /\ proc[q].paths = Targets[proc[q].pkg]
      BY <1>1, <2>1 DEF OrderInv, Scope, RmCmd
    <3> QED
      BY <1>1, <2>1, <3>1 DEF Apart, RmCmd
  <2> QED
    BY <1>3, <2>1 DEF OwnMarks
<1>6. proc[q].cmd = "install" => Remembers(q)'
  <2> SUFFICES ASSUME proc[q].cmd = "install" PROVE Remembers(q)'
    OBVIOUS
  <2>1. Remembers(q) /\ Targets[proc[q].pkg] = proc[q].paths
    BY <1>1 DEF Work, Scope
  <2> QED
    BY <1>2, <2>1 DEF Remembers, Zone, Kept
<1>7. proc[q].pc = "record" => Recorded(q)'
  <2> SUFFICES ASSUME proc[q].pc = "record" PROVE Recorded(q)'
    OBVIOUS
  <2>1. Recorded(q) /\ Names(Manifest[proc[q].pkg], proc[q].i) \subseteq proc[q].paths
    BY <1>1, KeptInPaths DEF Work, At
  <2> QED
    BY <1>2, <1>3, <1>4, <2>1 DEF Recorded, Kept
<1>8. proc[q].pc \in {"copy", "undo"} => proc[q].i <= Len(Listed(q)) /\ Names(Listed(q), proc[q].i) \subseteq proc[q].paths
  <2> SUFFICES ASSUME proc[q].pc \in {"copy", "undo"}
               PROVE  proc[q].i <= Len(Listed(q)) /\ Names(Listed(q), proc[q].i) \subseteq proc[q].paths
    OBVIOUS
  <2>1. proc[q].i <= Len(Listed(q)) /\ Listed(q) \in Seq(Files)
    BY ListedFacts DEF Work, Copied, Undone
  <2>2. Elems(Listed(q)) \subseteq proc[q].paths
    BY <1>1, <1>3 DEF Scope, Zone, Listed
  <2> QED
    BY <1>3, <2>1, <2>2 DEF Names, Elems
<1>9. proc[q].pc = "copy" => Copied(q)'
  BY <1>2, <1>3, <1>8 DEF Work, Copied, Listed
<1>10. proc[q].pc = "undo" => Undone(q)'
  BY <1>2, <1>3, <1>8 DEF Work, Undone, Listed, Kept
<1>11. proc[q].pc \in {"save", "mark"} => \A f \in Targets[proc[q].pkg] : fs'[f] = proc[q].pkg
  BY <1>1, <1>2, <1>3 DEF Work, Scope
<1>12. proc[q].pc = "unlink" => Unlinked(q)'
  <2> SUFFICES ASSUME proc[q].pc = "unlink" PROVE Unlinked(q)'
    OBVIOUS
  <2>1. Unlinked(q) /\ proc[q].cmd = "remove"
    BY <1>3 DEF Work
  <2>2. proc[q].list \in Seq(Files) /\ Elems(proc[q].list) \subseteq proc[q].paths
    BY <1>1, <2>1, RemoveFacts DEF At, Scope
  <2>3. Names(proc[q].list, proc[q].i) \subseteq proc[q].paths
    BY <1>3, <2>1, <2>2 DEF Names, Elems, Unlinked
  <2>4. InDb(proc[q].pkg)' = InDb(proc[q].pkg)
    <3> DEFINE k == proc[q].pkg
    <3>1. k \in Packages
      BY <1>3, <2>1
    <3> HIDE DEF k
    <3>2. CASE db'[k] = db[k]
      BY <1>2, <3>2 DEF InDb, k
    <3>3. CASE Running(p) /\ proc[p].cmd # "rollback" /\ proc[p].pkg = k
      <4>1. proc[p].paths = Targets[k] /\ proc[q].paths = Targets[k]
        BY <1>1, <2>1, <3>3, RunningFacts DEF OrderInv, Scope, k
      <4>2. Targets[k] = {}
        BY <1>1, <3>3, <4>1 DEF Apart
      <4>3. InDb(k) = {}
        BY <3>1, <4>2, InDbFacts DEF InDbInside
      <4>4. InDbInside'
        BY InDbFacts, PTL
      <4>5. (IF db'[k] = NoList THEN {} ELSE Elems(db'[k])) = {}
        BY <3>1, <4>2, <4>4 DEF InDb, InDbInside
      <4> QED
        BY <1>2, <4>3, <4>5 DEF InDb, k
    <3> QED
      BY <3>1, <3>2, <3>3 DEF OwnMarks
  <2> QED
    BY <1>2, <1>5, <2>1, <2>3, <2>4 DEF Unlinked
<1>13. proc[q].pc \in {"copy", "save", "mark", "undo"} => proc[q].id \in dirty'
  BY <1>3, <1>4 DEF Work
<1> QED
  BY <1>2, <1>6, <1>7, <1>9, <1>10, <1>11, <1>12, <1>13 DEF Work

(* Nothing is done yet. *)
LEMMA NamesNone == \A m : Names(m, 0) = {}
  BY DEF Names

(* A command just started has come nowhere. *)
LEMMA WorkBegins ==
    ASSUME ListInv, OrderInv, ViewInv, Careful, NEW p \in Procs, OwnZones(p),
           setting.pkgs \subseteq Packages, setting.ids \subseteq Ids, Begin(p), Running(p)'
    PROVE  Work(p)'
<1>0. Orderly /\ tx \in [Ids -> TxRec] /\ dirty \subseteq Ids
  BY CarefulFacts DEF ListInv, TypeOK
<1>1. ASSUME NEW k \in setting.pkgs, InstallRefused(p, k) PROVE FALSE
  BY <1>1, EndEnds DEF InstallRefused, End, Ends, Running
<1>2. ASSUME NEW k \in Packages, RemoveBegin(p, k) PROVE Work(p)'
  <2>1. /\ proc'[p].pc = "unlink" /\ proc'[p].cmd = "remove" /\ proc'[p].pkg = k /\ proc'[p].i = 0
        /\ proc'[p].list = db[k] /\ db[k] # NoList /\ k \in removing' /\ db' = db
    <3>1. proc'[p].pc # "idle"
      BY DEF Running
    <3>2. \/ proc'[p].pc = "idle"
          \/ /\ proc'[p].pc = "unlink" /\ proc'[p].cmd = "remove" /\ proc'[p].pkg = k
             /\ proc'[p].i = 0 /\ proc'[p].list = db[k] /\ db[k] # NoList /\ removing' = removing \cup {k}
      BY <1>2, RemoveBeginEffect
    <3>3. db' = db
      BY <1>2, RemoveBeginEffect
    <3> QED
      BY <3>1, <3>2, <3>3
  <2>2. 0 <= Len(db[k])
    <3>1. db[k] \in Seq(Files)
      BY <2>1 DEF ListInv, TypeOK
    <3> QED
      BY <3>1
  <2>3. Elems(db[k]) = InDb(proc[p].pkg)'
    BY <2>1 DEF InDb
  <2> QED
    BY <2>1, <2>2, <2>3, NamesNone DEF Work, Unlinked
<1>3. ASSUME NEW id \in Ids, RollbackBegin(p, id) PROVE Work(p)'
  <2>1. /\ proc'[p].pc = "undo" /\ proc'[p].cmd = "rollback" /\ proc'[p].id = id /\ proc'[p].i = 0
        /\ id \in dirty' /\ tx' = tx
    BY <1>3, RollbackBeginEffect DEF Running
  <2>2. 0 <= Len(tx[id].list)
    BY <1>0 DEF TxRec
  <2> QED
    BY <2>1, <2>2, NamesNone DEF Work, Undone, Listed
<1>4. ASSUME NEW k \in Packages, NEW id \in Ids, InstallBegin(p, k, id) PROVE Work(p)'
  <2>1. Installs(p, k, id)
    BY <1>4, InstallBeginEffect
  <2>2. /\ proc'[p].cmd = "install" /\ proc'[p].id = id /\ proc'[p].pkg = k /\ proc'[p].i = 0
        /\ proc'[p].before = [f \in Targets[k] |-> fs[f]] /\ fs' = fs
    BY <2>1 DEF Installs
  <2>3. tx[id].list = <<>> /\ (\A f \in Files : tx[id].backup[f] = Absent)
        /\ \A q \in Procs : TxCmd(q) => proc[q].id # id
    BY <1>0, <1>4, NewIdFacts
  <2>4. tx'[id].list = <<>> /\ tx'[id].backup = tx[id].backup
    BY <2>1, <2>3 DEF Installs
  <2>5. Zone(id)' = {}
    BY <2>4 DEF Zone, Elems
  <2>6. Remembers(p)'
    BY <2>2, <2>5 DEF Remembers, Zone
  <2>7. CASE proc'[p].pc = "record" /\ dirty' = dirty
    <3>1. id \notin dirty
      <4>1. Allowed({}, {}, Targets[k]) /\ {} \cap dirty = {} /\ {} \cap removing = {}
        BY <2>1 DEF Installs
      <4>2. \A i \in dirty : \E q \in Procs : TxCmd(q) /\ proc[q].id = i
        BY <1>0, <4>1, AllowedFacts
      <4> QED
        BY <2>3, <4>2
    <3>2. Recorded(p)'
      BY <2>2, <2>3, <2>4, <2>7, <3>1, NamesNone DEF Recorded, Kept
    <3> QED
      BY <2>2, <2>6, <2>7, <3>2 DEF Work
  <2>8. CASE proc'[p].pc = "undo" /\ dirty' = dirty \cup {id}
    <3>1. Len(tx'[id].list) = 0
      BY <2>4
    <3>2. Undone(p)'
      BY <2>2, <3>1, NamesNone DEF Undone, Listed
    <3> QED
      BY <2>2, <2>6, <2>8, <3>2 DEF Work
  <2> QED
    BY <2>1, <2>7, <2>8 DEF Installs
<1> QED
  BY <1>1, <1>2, <1>3, <1>4 DEF Begin

LEMMA WorkRecords ==
    ASSUME ListInv, OrderInv, Careful, NEW p \in Procs, At(p, "record"), Work(p), Logs(p)
    PROVE  Work(p)'
<1> DEFINE m == Manifest[proc[p].pkg]
           id == proc[p].id
           f == Current(p, m)
<1>1. /\ proc[p].i \in Nat /\ m \in Seq(Files) /\ tx[id].backup \in [Files -> Content]
      /\ proc[p].cmd = "install" /\ tx[id].list = <<>>
  BY RecordFacts DEF Listed
<1>2. /\ f \in Files /\ f = m[proc[p].i + 1] /\ proc[p].i < Len(m)
  BY <1>1, CurrentFacts DEF Logs, More
<1>3. Names(m, proc[p].i + 1) = Names(m, proc[p].i) \cup {f}
  BY <1>1, <1>2, NamesNext
<1>4. tx'[id].backup = [tx[id].backup EXCEPT ![f] = BackupOf(p, f)]
  BY DEF Logs, Backup
<1>5. /\ \A g \in Files : tx[id].backup[g] = IF g \in Names(m, proc[p].i) THEN fs[g] ELSE Absent
      /\ id \notin dirty /\ Remembers(p)
  BY <1>1 DEF Work, Recorded, At, Kept
<1>6. BackupOf(p, f) = fs[f]
  BY <1>2, <1>5 DEF BackupOf, Kept
<1> HIDE DEF f
<1>7. \A g \in Files : tx'[id].backup[g] = IF g \in Names(m, proc[p].i + 1) THEN fs[g] ELSE Absent
  BY <1>1, <1>2, <1>3, <1>4, <1>5, <1>6
<1>8. /\ proc'[p].pc = "record" /\ proc'[p].i = proc[p].i + 1 /\ proc'[p].id = id /\ proc'[p].cmd = "install"
      /\ proc'[p].pkg = proc[p].pkg /\ fs' = fs /\ dirty' = dirty /\ proc'[p].before = proc[p].before
      /\ tx'[id].list = <<>>
  BY DEF Logs
<1>9. Recorded(p)'
  BY <1>5, <1>7, <1>8 DEF Recorded, Kept
<1>10. Remembers(p)'
  <2>1. Zone(id) = {} /\ Zone(id)' = {}
    BY <1>1, <1>8 DEF Zone, Elems
  <2> QED
    BY <1>5, <1>8, <2>1 DEF Remembers, Zone
<1> QED
  BY <1>8, <1>9, <1>10 DEF Work

LEMMA WorkCloses ==
    ASSUME ListInv, OrderInv, Careful, NEW p \in Procs, At(p, "record"), Work(p),
           NEW n \in 0 .. Len(Manifest[proc[p].pkg]), NEW b \in [Files -> Content],
           NEW pc \in {"copy", "save", "undo"}, Closes(p, n, b, pc)
    PROVE  Work(p)'
<1> DEFINE m == Manifest[proc[p].pkg]
           id == proc[p].id
<1>1. /\ n = proc[p].i /\ b = tx[id].backup /\ pc # "save"
  BY CarefulFacts DEF Closes
<1>2. /\ Elems(tx'[id].list) = Names(m, n) /\ tx'[id].backup = b /\ tx'[id].list \in Seq(Files)
      /\ proc'[p].pc = pc /\ proc'[p].i = 0 /\ proc'[p].cmd = "install" /\ proc'[p].id = id
      /\ proc'[p].pkg = proc[p].pkg /\ proc'[p].before = proc[p].before
      /\ dirty' = dirty \cup {id} /\ fs' = fs
  BY DEF Closes
<1>3. /\ proc[p].cmd = "install" /\ tx[id].list = <<>> /\ proc[p].pkg \in Packages
  BY RecordFacts DEF Listed
<1>4. /\ Remembers(p) /\ \A g \in Files : tx[id].backup[g] = IF g \in Names(m, proc[p].i) THEN fs[g] ELSE Absent
  BY <1>3 DEF Work, Recorded, At, Kept
<1>5. Zone(id) = {} /\ Targets[proc[p].pkg] \subseteq Files
  BY <1>3, PackageAssumption DEF Zone, Elems, Targets
<1>6. Remembers(p)'
  <2>1. \A f \in Targets[proc[p].pkg] : proc[p].before[f] = fs[f]
    BY <1>4, <1>5 DEF Remembers
  <2>2. \A f \in Targets[proc[p].pkg] : f \in Names(m, n) => b[f] = fs[f]
    BY <1>1, <1>4, <1>5
  <2> QED
    BY <1>2, <1>4, <2>1, <2>2 DEF Remembers, Zone, Kept
<1>7. 0 <= Len(tx'[id].list)
  BY <1>2
<1>8. Copied(p)' /\ Undone(p)'
  BY <1>2, <1>7, NamesNone DEF Copied, Undone, Listed
<1> QED
  BY <1>1, <1>2, <1>6, <1>8 DEF Work

(* What a step on the file in hand adds to what is done. *)
LEMMA OneMore ==
    ASSUME NEW p \in Procs, NEW list \in Seq(Files), proc[p].i \in Nat, More(p, list), Only(Current(p, list))
    PROVE  /\ Names(list, proc[p].i + 1) = Names(list, proc[p].i) \cup {Current(p, list)}
           /\ proc[p].i + 1 <= Len(list) /\ Current(p, list) \in Elems(list)
           /\ \A g \in Names(list, proc[p].i) : g # Current(p, list) => fs'[g] = fs[g]
<1>1. /\ Current(p, list) = list[proc[p].i + 1] /\ proc[p].i < Len(list) /\ Current(p, list) \in Elems(list)
  BY CurrentFacts DEF More, Current
<1>2. Names(list, proc[p].i) \subseteq Files
  BY <1>1 DEF Names
<1>3. Names(list, proc[p].i + 1) = Names(list, proc[p].i) \cup {list[proc[p].i + 1]}
  BY <1>1, NamesNext
<1>4. proc[p].i + 1 <= Len(list)
  BY <1>1
<1>5. \A g \in Names(list, proc[p].i) : g # Current(p, list) => fs'[g] = fs[g]
  BY <1>2 DEF Only
<1> QED
  BY <1>1, <1>3, <1>4, <1>5

LEMMA RemembersTouch ==
    ASSUME ListInv, NEW p \in Procs, proc[p].pc \in {"copy", "undo"}, Same(p), UNCHANGED tx,
           proc[p].cmd = "install", Remembers(p), NEW f \in Elems(Listed(p)), Only(f)
    PROVE  Remembers(p)'
<1>1. /\ proc'[p].id = proc[p].id /\ proc'[p].pkg = proc[p].pkg /\ proc'[p].before = proc[p].before
  BY DEF Same
<1>2. f \in Zone(proc[p].id) /\ Zone(proc[p].id)' = Zone(proc[p].id)
  BY <1>1 DEF Zone, Listed
<1>3. proc[p].pkg \in Packages /\ Targets[proc[p].pkg] \subseteq Files
  <2>1. proc[p].pkg \in Packages
    BY ListedFacts DEF InstallRec, RollbackRec
  <2> QED
    BY <2>1, PackageAssumption DEF Targets, Elems
<1>4. \A g \in Targets[proc[p].pkg] : g \notin Zone(proc[p].id) => fs'[g] = fs[g]
  BY <1>2, <1>3 DEF Only
<1> QED
  BY <1>1, <1>2, <1>4 DEF Remembers, Kept, Zone

LEMMA WorkCopies ==
    ASSUME ListInv, NEW p \in Procs, Work(p), CopyFile(p)
    PROVE  Work(p)'
<1> DEFINE f == Current(p, Listed(p))
<1>1. /\ At(p, "copy") /\ More(p, Listed(p)) /\ UNCHANGED <<tx, dirty>> /\ Only(f) /\ Same(p)
      /\ \/ /\ proc'[p].pc = "copy" /\ proc'[p].i = proc[p].i + 1 /\ fs'[f] = proc[p].pkg
         \/ proc'[p].pc = "undo" /\ proc'[p].i = 0
  BY CopyFileEffect
<1>2. /\ proc[p].i \in Nat /\ Listed(p) \in Seq(Files) /\ proc[p].cmd = "install" /\ proc[p].pc = "copy"
  BY <1>1, ListedFacts DEF At, InstallRec
<1>3. /\ Names(Listed(p), proc[p].i + 1) = Names(Listed(p), proc[p].i) \cup {f}
      /\ proc[p].i + 1 <= Len(Listed(p)) /\ f \in Elems(Listed(p))
      /\ \A g \in Names(Listed(p), proc[p].i) : g # f => fs'[g] = fs[g]
  BY <1>1, <1>2, OneMore
<1>4. Copied(p) /\ Remembers(p) /\ proc[p].id \in dirty
  BY <1>2 DEF Work
<1>5. Remembers(p)'
  BY <1>1, <1>2, <1>3, <1>4, RemembersTouch
<1>6. /\ proc'[p].id = proc[p].id /\ proc'[p].pkg = proc[p].pkg /\ proc'[p].cmd = "install"
  BY <1>1, <1>2 DEF Same
<1>7. Listed(p)' = Listed(p)
  BY <1>1, <1>6 DEF Listed
<1> HIDE DEF f
<1>8. CASE proc'[p].pc = "copy" /\ proc'[p].i = proc[p].i + 1 /\ fs'[f] = proc[p].pkg
  <2>1. Copied(p)'
    BY <1>3, <1>4, <1>6, <1>7, <1>8 DEF Copied
  <2> QED
    BY <1>1, <1>4, <1>5, <1>6, <1>8, <2>1 DEF Work
<1>9. CASE proc'[p].pc = "undo" /\ proc'[p].i = 0
  <2>1. 0 <= Len(Listed(p)')
    BY <1>2, <1>7
  <2>2. Undone(p)'
    BY <1>9, <2>1, NamesNone DEF Undone
  <2> QED
    BY <1>1, <1>4, <1>5, <1>6, <1>9, <2>2 DEF Work
<1> QED
  BY <1>1, <1>8, <1>9

LEMMA WorkSaves ==
    ASSUME ListInv, Careful, NEW p \in Procs, Work(p), CopyEnd(p) \/ SaveList(p)
    PROVE  Work(p)'
<1>1. /\ Same(p) /\ UNCHANGED <<fs, tx, dirty>> /\ proc'[p].pc \in {"save", "mark"}
      /\ \/ At(p, "copy") /\ ~More(p, Listed(p))
         \/ At(p, "save")
  BY CopyEndEffect, SaveListEffect, CarefulFacts
<1>2. /\ proc[p].i \in Nat /\ Listed(p) \in Seq(Files) /\ proc[p].cmd = "install"
      /\ proc[p].pkg \in Packages /\ Listed(p) = Manifest[proc[p].pkg] /\ proc[p].pc \in {"copy", "save"}
  BY <1>1, ListedFacts, CarefulFacts DEF At, InstallRec, Faithful, Fault
<1>3. /\ proc'[p].id = proc[p].id /\ proc'[p].pkg = proc[p].pkg /\ proc'[p].cmd = "install"
      /\ proc'[p].before = proc[p].before
  BY <1>1, <1>2 DEF Same
<1>4. \A f \in Targets[proc[p].pkg] : fs[f] = proc[p].pkg
  <2>1. CASE At(p, "save")
    BY <2>1 DEF Work, At
  <2>2. CASE At(p, "copy") /\ ~More(p, Listed(p))
    <3>1. Copied(p) /\ proc[p].i = Len(Listed(p))
      BY <1>2, <2>2 DEF Work, At, Copied, More
    <3>2. Names(Listed(p), proc[p].i) = Targets[proc[p].pkg]
      BY <1>2, <3>1, NamesAll DEF Targets
    <3> QED
      BY <3>1, <3>2 DEF Copied
  <2> QED
    BY <1>1, <2>1, <2>2
<1>5. Remembers(p) /\ proc[p].id \in dirty
  BY <1>2 DEF Work
<1>6. Remembers(p)'
  BY <1>1, <1>3, <1>5 DEF Remembers, Zone, Kept
<1> QED
  BY <1>1, <1>3, <1>4, <1>5, <1>6 DEF Work

LEMMA WorkUndoes ==
    ASSUME ListInv, Careful, NEW p \in Procs, Work(p), UndoFile(p)
    PROVE  Work(p)'
<1> DEFINE f == Current(p, Listed(p))
<1>1. /\ At(p, "undo") /\ More(p, Listed(p)) /\ UNCHANGED <<tx, dirty>> /\ Only(f) /\ Same(p)
      /\ proc'[p].pc = "undo" /\ proc'[p].i = proc[p].i + 1 /\ fs'[f] = Kept(p, f)
  BY UndoFileEffect, CarefulFacts
<1>2. /\ proc[p].i \in Nat /\ Listed(p) \in Seq(Files) /\ proc[p].cmd # "remove" /\ proc[p].pc = "undo"
  BY <1>1, ListedFacts DEF At, InstallRec, RollbackRec
<1>3. /\ Names(Listed(p), proc[p].i + 1) = Names(Listed(p), proc[p].i) \cup {f}
      /\ proc[p].i + 1 <= Len(Listed(p)) /\ f \in Elems(Listed(p))
      /\ \A g \in Names(Listed(p), proc[p].i) : g # f => fs'[g] = fs[g]
  BY <1>1, <1>2, OneMore
<1>4. Undone(p) /\ (proc[p].cmd = "install" => Remembers(p)) /\ proc[p].id \in dirty
  BY <1>2 DEF Work
<1>5. proc[p].cmd = "install" => Remembers(p)'
  BY <1>1, <1>2, <1>3, <1>4, RemembersTouch
<1>6. proc'[p].id = proc[p].id /\ proc'[p].cmd = proc[p].cmd
  BY <1>1, <1>2 DEF Same
<1>7. Listed(p)' = Listed(p) /\ tx'[proc'[p].id].backup = tx[proc[p].id].backup
  BY <1>1, <1>6 DEF Listed
<1> HIDE DEF f
<1>8. Undone(p)'
  BY <1>1, <1>3, <1>4, <1>7 DEF Undone, Kept
<1> QED
  BY <1>1, <1>4, <1>5, <1>6, <1>8 DEF Work

LEMMA WorkUnlinks ==
    ASSUME ListInv, Careful, NEW p \in Procs, Work(p), UnlinkFile(p)
    PROVE  Work(p)'
<1> DEFINE f == Current(p, proc[p].list)
<1>1. /\ At(p, "unlink") /\ More(p, proc[p].list) /\ UNCHANGED <<removing, db>> /\ Only(f) /\ Same(p)
      /\ proc'[p].pc = "unlink" /\ proc'[p].i = proc[p].i + 1 /\ fs'[f] = Absent
  BY UnlinkFileEffect, CarefulFacts
<1>2. /\ proc[p].i \in Nat /\ proc[p].list \in Seq(Files) /\ proc[p].cmd = "remove" /\ proc[p].pc = "unlink"
  BY <1>1, RemoveFacts DEF At, RemoveRec
<1>3. /\ Names(proc[p].list, proc[p].i + 1) = Names(proc[p].list, proc[p].i) \cup {f}
      /\ proc[p].i + 1 <= Len(proc[p].list)
      /\ \A g \in Names(proc[p].list, proc[p].i) : g # f => fs'[g] = fs[g]
  BY <1>1, <1>2, OneMore
<1>4. Unlinked(p)
  BY <1>2 DEF Work
<1>5. proc'[p].list = proc[p].list /\ proc'[p].pkg = proc[p].pkg /\ proc'[p].cmd = "remove"
  BY <1>1, <1>2 DEF Same
<1> HIDE DEF f
<1>5a. InDb(proc[p].pkg)' = InDb(proc[p].pkg)
  BY <1>1, <1>5 DEF InDb
<1>6. Unlinked(p)'
  BY <1>1, <1>3, <1>4, <1>5, <1>5a DEF Unlinked
<1> QED
  BY <1>1, <1>5, <1>6 DEF Work

LEMMA ViewStep ==
    ASSUME ListInv, OrderInv, ViewInv, Careful, NEW p \in setting.procs, p \in Procs,
           setting.pkgs \subseteq Packages, setting.ids \subseteq Ids,
           UNCHANGED setting, Begin(p) \/ Step(p) \/ Kill(p)
    PROVE  ZonesApart' /\ \A q \in Procs : Running(q)' => Clear(q)' /\ Work(q)'
<1>0. /\ Orderly /\ ZonesApart /\ \A q \in Procs : Running(q) => Clear(q) /\ Work(q)
  BY CarefulFacts DEF ViewInv
<1>1. /\ Frame(p) /\ OwnZones(p) /\ OwnMarks(p) /\ Apart' /\ \A q \in Procs : Running(q)' => Scope(q)'
  BY <1>0, FrameStep, OwnZonesStep, OwnMarksStep, OrderStep
<1>2. ListInv'
  <2>1. Next
    BY DEF Next
  <2> QED
    BY <2>1, ListInvStep
<1>3. \A q \in Procs \ {p} : proc'[q] = proc[q]
  BY <1>1 DEF Frame
<1>4. ZonesApart' /\ \A q \in Procs : Running(q)' => Clear(q)'
  BY <1>0, <1>1, <1>2, <1>3, ZonesKeep
<1>5. ASSUME NEW q \in Procs \ {p}, Running(q)' PROVE Work(q)'
  <2>1. Running(q) /\ Work(q)
    BY <1>0, <1>3, <1>5 DEF Running
  <2> QED
    BY <1>0, <1>1, <1>2, <2>1, WorkOthers
<1>6. ASSUME Running(p)' PROVE Work(p)'
  <2>1. CASE Begin(p)
    BY <1>1, <1>6, <2>1, WorkBegins
  <2>2. CASE RecordFile(p) \/ RecordEnd(p)
    <3>1. At(p, "record") /\ Work(p)
      BY <1>0, <2>2, RecordEffect DEF At, Running
    <3> QED
      BY <2>2, <3>1, RecordEffect, WorkRecords, WorkCloses
  <2>3. CASE CopyFile(p) \/ CopyEnd(p) \/ SaveList(p) \/ UndoFile(p) \/ UnlinkFile(p)
    <3>1. Work(p)
      BY <1>0, <2>3 DEF CopyFile, CopyEnd, SaveList, UndoFile, UnlinkFile, At, Running
    <3> QED
      BY <2>3, <3>1, WorkCopies, WorkSaves, WorkUndoes, WorkUnlinks
  <2>4. CASE Mark(p) \/ UndoEnd(p) \/ UndoFails(p) \/ UnlinkEnd(p) \/ Kill(p)
    BY <1>6, <2>4, MarkEffect, UndoEndEffect, UndoFailsEffect, UnlinkEndEffect, KillEffect DEF Ends, Running
  <2> QED
    BY <2>1, <2>2, <2>3, <2>4 DEF Step
<1> QED
  BY <1>4, <1>5, <1>6

LEMMA ViewInvStep == ListInv /\ OrderInv /\ ViewInv /\ [Next]_vars => ViewInv'
<1> SUFFICES ASSUME ListInv, OrderInv, ViewInv, [Next]_vars, Careful'
             PROVE  ZonesApart' /\ \A q \in Procs : Running(q)' => Clear(q)' /\ Work(q)'
  BY DEF ViewInv
<1>1. UNCHANGED setting
  BY DEF Next, vars
<1>2. Careful
  BY <1>1 DEF Careful
<1>3. CASE UNCHANGED vars
  <2>1. ZonesApart /\ \A q \in Procs : Running(q) => Clear(q) /\ Work(q)
    BY <1>2 DEF ViewInv
  <2>2. ZonesApart' /\ \A q \in Procs : (Running(q)' <=> Running(q)) /\ (Clear(q)' <=> Clear(q))
    BY <1>3, <2>1 DEF vars, ZonesApart, Clear, Running, Zone
  <2>3. \A q \in Procs : Work(q) => Work(q)'
    <3> SUFFICES ASSUME NEW q \in Procs, Work(q) PROVE Work(q)'
      OBVIOUS
    <3>1. Remembers(q)' = Remembers(q) /\ Recorded(q)' = Recorded(q) /\ Copied(q)' = Copied(q)
      BY <1>3 DEF vars, Remembers, Recorded, Copied, Zone, Kept, Listed
    <3>2. Undone(q)' = Undone(q) /\ Unlinked(q)' = Unlinked(q)
      BY <1>3 DEF vars, Undone, Unlinked, Kept, Listed, InDb
    <3> QED
      BY <1>3, <3>1, <3>2 DEF vars, Work
  <2> QED
    BY <2>1, <2>2, <2>3
<1>4. CASE Next
  <2>1. PICK p \in setting.procs : Begin(p) \/ Step(p) \/ Kill(p)
    BY <1>4 DEF Next
  <2>2. p \in Procs /\ setting.pkgs \subseteq Packages /\ setting.ids \subseteq Ids
    BY SettingFacts DEF ListInv
  <2> QED
    BY <1>1, <1>2, <2>1, <2>2, ViewStep
<1> QED
  BY <1>3, <1>4

LEMMA ViewInvInit == Init => ViewInv
<1>1. Init => (\A p \in Procs : ~Running(p)) /\ dirty = {} /\ removing = {}
  BY DEF Init, Running, Idle
<1> QED
  BY <1>1 DEF ViewInv, ZonesApart

(* Everything the refinement needs, always. *)
THEOREM WorkAlways == Spec => [](ListInv /\ OrderInv /\ ViewInv)
  BY OrderInvInit, OrderInvStep, ViewInvInit, ViewInvStep, ListsAlways, PTL DEF Spec
-----------------------------------------------------------------------------
(* What the files stand for: inside a zone what would be restored or left by  *)
(* the removal, outside what is there.                                        *)
ViewChar ==
    /\ \A i \in dirty, f \in Files : f \in Zone(i) => View[f] = tx[i].backup[f]
    /\ \A k \in removing, f \in Files : f \in InDb(k) => View[f] = Absent
    /\ \A f \in Files : (\A i \in dirty : f \notin Zone(i)) /\ (\A k \in removing : f \notin InDb(k))
                           => View[f] = fs[f]

LEMMA ViewFacts == ListInv /\ ViewInv /\ Careful => ViewChar
<1> SUFFICES ASSUME ListInv, ViewInv, Careful PROVE ViewChar
  OBVIOUS
<1>0. ZonesApart /\ dirty \subseteq Ids /\ \A k \in removing : InDb(k) \subseteq Targets[k]
  BY InDbFacts DEF ViewInv, ListInv, TypeOK, InDbInside
<1>1. ASSUME NEW i \in dirty, NEW f \in Files, f \in Zone(i) PROVE View[f] = tx[i].backup[f]
  <2>1. ~\E k \in removing : f \in InDb(k)
    BY <1>0, <1>1 DEF ZonesApart
  <2>2. Under(f) = {i}
    BY <1>0, <1>1 DEF ZonesApart, Under, Zone
  <2>3. (CHOOSE j \in Under(f) : TRUE) = i
    BY <2>2
  <2>4. View[f] = Saved[i][f]
    BY <2>1, <2>2, <2>3 DEF View
  <2> QED
    BY <1>0, <1>1, <2>4 DEF Saved, Zone
<1>2. ASSUME NEW k \in removing, NEW f \in Files, f \in InDb(k) PROVE View[f] = Absent
  BY <1>2 DEF View
<1>3. ASSUME NEW f \in Files, \A i \in dirty : f \notin Zone(i), \A k \in removing : f \notin InDb(k)
      PROVE  View[f] = fs[f]
  BY <1>3 DEF View, Under, Zone
<1> QED
  BY <1>1, <1>2, <1>3 DEF ViewChar

LEMMA SavedAt ==
    ASSUME NEW i \in Ids, NEW f \in Files
    PROVE  Saved[i][f] = IF f \in Zone(i) THEN tx[i].backup[f] ELSE Untouched
  BY DEF Saved, Zone

(* The step is invisible: the same zones, the same backups in them, and no    *)
(* file changed outside them.                                                 *)
Quiet ==
    /\ dirty' = dirty /\ removing' = removing /\ db' = db
    /\ \A i \in Ids : tx'[i].list = tx[i].list
    /\ \A i \in Ids, f \in Files : f \in Zone(i) => tx'[i].backup[f] = tx[i].backup[f]
    /\ \A f \in Files : \/ fs'[f] = fs[f]
                        \/ \E i \in dirty : f \in Zone(i)
                        \/ \E k \in removing : f \in InDb(k)

LEMMA KnownSame ==
    ASSUME removing' = removing, db' = db
    PROVE  Known' = Known /\ \A k : InDb(k)' = InDb(k)
  BY DEF Known, InDb

LEMMA SavedSame ==
    ASSUME \A i \in Ids : tx'[i].list = tx[i].list,
           \A i \in Ids, f \in Files : f \in Zone(i) => tx'[i].backup[f] = tx[i].backup[f]
    PROVE  Saved' = Saved
  BY DEF Saved, Zone

LEMMA ViewIs ==
    ASSUME \A f \in Files : View'[f] = View[f]
    PROVE  View' = View
<1>1. View = [f \in Files |-> View[f]] /\ View' = [f \in Files |-> View'[f]]
  BY DEF View
<1> HIDE DEF View
<1> QED
  BY <1>1

LEMMA QuietStep ==
    ASSUME TypeOK, ViewChar, ViewChar', Quiet
    PROVE  UNCHANGED <<View, Saved, Known>>
<1>0. dirty \subseteq Ids /\ Known' = Known /\ \A k : InDb(k)' = InDb(k)
  BY KnownSame DEF TypeOK, Quiet
<1>1. \A i \in dirty : Zone(i)' = Zone(i)
  BY <1>0 DEF Quiet, Zone
<1>2. ASSUME NEW f \in Files PROVE View'[f] = View[f]
  <2>1. CASE \E i \in dirty : f \in Zone(i)
    <3>1. PICK i \in dirty : f \in Zone(i)
      BY <2>1
    <3>2. View[f] = tx[i].backup[f]
      BY <3>1 DEF ViewChar
    <3>3. View'[f] = tx'[i].backup[f]
      BY <1>1, <3>1 DEF ViewChar, Quiet
    <3> QED
      BY <1>0, <3>1, <3>2, <3>3 DEF Quiet
  <2>2. CASE \E k \in removing : f \in InDb(k)
    BY <1>0, <2>2 DEF ViewChar, Quiet
  <2>3. CASE (\A i \in dirty : f \notin Zone(i)) /\ (\A k \in removing : f \notin InDb(k))
    <3>1. View[f] = fs[f]
      BY <2>3 DEF ViewChar
    <3>2. View'[f] = fs'[f]
      BY <1>0, <1>1, <2>3 DEF ViewChar, Quiet
    <3> QED
      BY <2>3, <3>1, <3>2 DEF Quiet
  <2> QED
    BY <2>1, <2>2, <2>3
<1> QED
  BY <1>0, <1>2, ViewIs, SavedSame DEF Quiet

LEMMA TargetsInFiles ==
    ASSUME NEW k \in Packages
    PROVE  Targets[k] \subseteq Files
<1>1. Manifest[k] \in Seq(Files)
  BY PackageAssumption
<1> QED
  BY <1>1 DEF Targets, Elems

(* fclose of the list is where a transaction starts to keep what is there. *)
LEMMA PrepareStep ==
    ASSUME ListInv, Careful, ViewChar, ViewChar', NEW p \in Procs, At(p, "record"), Clear(p), Recorded(p), Scope(p),
           NEW n \in 0 .. Len(Manifest[proc[p].pkg]), NEW b \in [Files -> Content],
           NEW pc \in {"copy", "save", "undo"}, Closes(p, n, b, pc)
    PROVE  Atomic!Prepare(proc[p].id)
<1> DEFINE id == proc[p].id
           S == Names(Manifest[proc[p].pkg], n)
<1>1. n = proc[p].i /\ b = tx[id].backup
  BY CarefulFacts DEF Closes
<1>2. /\ Elems(tx'[id].list) = S /\ tx'[id].backup = b /\ dirty' = dirty \cup {id} /\ fs' = fs
      /\ removing' = removing /\ \A j \in Ids \ {id} : tx'[j] = tx[j]
      /\ Known' = Known /\ \A k : InDb(k)' = InDb(k)
  BY KnownSame DEF Closes
<1>3. /\ id \in Ids /\ dirty \subseteq Ids /\ proc[p].cmd = "install" /\ proc[p].pkg \in Packages
      /\ id \notin dirty /\ \A k \in removing : InDb(k) \subseteq Targets[k]
  BY RecordFacts, InDbFacts DEF ListInv, TypeOK, Recorded, InDbInside
<1>4. S \subseteq proc[p].paths /\ S \subseteq Files
  <2>1. S \subseteq Targets[proc[p].pkg]
    BY <1>3, NamesInTargets
  <2>2. Targets[proc[p].pkg] \subseteq Files
    BY <1>3, TargetsInFiles
  <2>3. proc[p].paths = Targets[proc[p].pkg]
    BY <1>3 DEF Scope, At
  <2> QED
    BY <2>1, <2>2, <2>3
<1>5. \A f \in S : b[f] = fs[f]
  BY <1>1, <1>4 DEF Recorded, Kept
<1>6. \A f \in S : (\A i \in dirty : f \notin Zone(i)) /\ (\A k \in removing : f \notin InDb(k))
  BY <1>3, <1>4 DEF Clear
<1>7. \A f \in S : View[f] = fs[f]
  BY <1>4, <1>6 DEF ViewChar
<1>8. \A i \in dirty : Zone(i)' = Zone(i) /\ tx'[i] = tx[i]
  BY <1>2, <1>3 DEF Zone
<1>9. View' = View
  <2>1. ASSUME NEW f \in Files PROVE View'[f] = View[f]
    <3>1. CASE f \in S
      <4>1. View'[f] = tx'[id].backup[f]
        BY <1>2, <3>1 DEF ViewChar, Zone
      <4> QED
        BY <1>2, <1>5, <1>7, <3>1, <4>1
    <3>2. CASE \E i \in dirty : f \in Zone(i)
      <4>1. PICK i \in dirty : f \in Zone(i)
        BY <3>2
      <4>2. View'[f] = tx'[i].backup[f] /\ View[f] = tx[i].backup[f]
        BY <1>2, <1>8, <4>1 DEF ViewChar
      <4> QED
        BY <1>8, <4>1, <4>2
    <3>3. CASE \E k \in removing : f \in InDb(k)
      BY <1>2, <3>3 DEF ViewChar
    <3>4. CASE f \notin S /\ (\A i \in dirty : f \notin Zone(i)) /\ (\A k \in removing : f \notin InDb(k))
      <4>1. View[f] = fs[f]
        BY <3>4 DEF ViewChar
      <4>2. View'[f] = fs'[f]
        <5>1. \A i \in dirty' : f \notin Elems(tx'[i].list)
          BY <1>2, <1>8, <3>4 DEF Zone
        <5> QED
          BY <1>2, <3>4, <5>1 DEF ViewChar, Zone
      <4> QED
        BY <1>2, <4>1, <4>2
    <3> QED
      BY <3>1, <3>2, <3>3, <3>4
  <2> QED
    BY <2>1, ViewIs
<1>10. Saved' = [Saved EXCEPT ![id] = [f \in Files |-> IF f \in S THEN View[f] ELSE Untouched]]
  <2>1. Saved' = [i \in Ids |-> [f \in Files |-> IF f \in Elems(tx'[i].list) THEN tx'[i].backup[f] ELSE Untouched]]
    BY DEF Saved
  <2>2. [f \in Files |-> IF f \in Elems(tx'[id].list) THEN tx'[id].backup[f] ELSE Untouched]
          = [f \in Files |-> IF f \in S THEN View[f] ELSE Untouched]
    BY <1>2, <1>5, <1>7
  <2>3. \A i \in Ids \ {id} :
          [f \in Files |-> IF f \in Elems(tx'[i].list) THEN tx'[i].backup[f] ELSE Untouched] = Saved[i]
    BY <1>2 DEF Saved
  <2>4. Saved = [i \in Ids |-> Saved[i]]
    BY DEF Saved
  <2> DEFINE G(i) == [f \in Files |-> IF f \in Elems(tx'[i].list) THEN tx'[i].backup[f] ELSE Untouched]
             W == [f \in Files |-> IF f \in S THEN View[f] ELSE Untouched]
  <2>5. Saved' = [i \in Ids |-> G(i)] /\ G(id) = W /\ \A i \in Ids \ {id} : G(i) = Saved[i]
    BY <2>1, <2>2, <2>3
  <2> HIDE DEF G, W
  <2>6. Saved' = [Saved EXCEPT ![id] = W]
    BY <1>3, <2>4, <2>5
  <2> QED
    BY <2>6 DEF W
<1> QED
  BY <1>2, <1>4, <1>9, <1>10 DEF Atomic!Prepare

(* A path the step does not concern stands for what it stood for. *)
LEMMA ViewElsewhere ==
    ASSUME ViewChar, ViewChar', dirty \subseteq Ids, dirty' \subseteq Ids,
           \A i \in Ids : tx'[i].list = tx[i].list /\ tx'[i].backup = tx[i].backup,
           \A k \in removing' : InDb(k)' = InDb(k),
           NEW f \in Files, fs'[f] = fs[f],
           \/ \E i \in dirty \cap dirty' : f \in Zone(i)
           \/ \E k \in removing \cap removing' : f \in InDb(k)
           \/ /\ \A i \in dirty \cup dirty' : f \notin Zone(i)
              /\ \A k \in removing \cup removing' : f \notin InDb(k)
    PROVE  View'[f] = View[f]
<1>1. \A i \in Ids : Zone(i)' = Zone(i)
  BY DEF Zone
<1>2. CASE \E i \in dirty \cap dirty' : f \in Zone(i)
  <2>1. PICK i \in dirty \cap dirty' : f \in Zone(i)
    BY <1>2
  <2>2. View[f] = tx[i].backup[f]
    BY <2>1 DEF ViewChar
  <2>3. View'[f] = tx'[i].backup[f]
    BY <1>1, <2>1 DEF ViewChar
  <2> QED
    BY <2>1, <2>2, <2>3
<1>3. CASE \E k \in removing \cap removing' : f \in InDb(k)
  BY <1>3 DEF ViewChar
<1>4. CASE /\ \A i \in dirty \cup dirty' : f \notin Zone(i)
           /\ \A k \in removing \cup removing' : f \notin InDb(k)
  <2>1. View[f] = fs[f]
    BY <1>4 DEF ViewChar
  <2>2. View'[f] = fs'[f]
    BY <1>1, <1>4 DEF ViewChar
  <2> QED
    BY <2>1, <2>2
<1> QED
  BY <1>2, <1>3, <1>4

(* The marker is where an installation happens: its targets, which stood for  *)
(* what the transaction keeps, stand for the package.                         *)
LEMMA InstallStep ==
    ASSUME ListInv, Careful, ZonesApart, ViewChar, ViewChar', dirty' \subseteq Ids,
           NEW p \in setting.procs, p \in Procs, UNCHANGED setting, Mark(p), Work(p)
    PROVE  \E i \in Ids, k \in Packages : Atomic!Install(i, k)
<1> DEFINE id == proc[p].id
           k == proc[p].pkg
<1>1. /\ At(p, "mark") /\ UNCHANGED <<fs, removing>> /\ dirty' = dirty \ {id}
      /\ \A j \in Ids : tx'[j].list = tx[j].list /\ tx'[j].backup = tx[j].backup
      /\ Known' = Known /\ \A l : InDb(l)' = InDb(l)
  BY MarkEffect, KnownSame
<1>2. /\ id \in Ids /\ k \in Packages /\ Zone(id) = Targets[k] /\ dirty \subseteq Ids
  <2>1. proc[p].pc = "mark"
    BY <1>1 DEF At
  <2>2. id \in Ids /\ k \in Packages /\ Listed(p) = Manifest[k] /\ dirty \subseteq Ids
    BY <2>1, ListedFacts, CarefulFacts DEF TypeOK, Faithful, Fault
  <2> QED
    BY <2>2 DEF Zone, Listed, Targets
<1>3. id \in dirty /\ \A f \in Targets[k] : fs[f] = k
  BY <1>1 DEF Work, At
<1>4. Targets[k] \subseteq Files
  BY <1>2, TargetsInFiles
<1>5. \A j \in Ids : Zone(j)' = Zone(j)
  BY <1>1 DEF Zone
<1>6. \A f \in Targets[k] : View[f] = tx[id].backup[f] /\ Saved[id][f] = tx[id].backup[f]
  BY <1>2, <1>3, <1>4, SavedAt DEF ViewChar
<1>7. \A f \in Targets[k] : View'[f] = k
  <2> SUFFICES ASSUME NEW f \in Targets[k] PROVE View'[f] = k
    OBVIOUS
  <2>1. \A i \in dirty' : f \notin Zone(i)'
    BY <1>1, <1>2, <1>3, <1>5 DEF ZonesApart
  <2>2. \A l \in removing' : f \notin InDb(l)'
    <3>1. \A l \in removing : InDb(l) \subseteq Targets[l]
      BY InDbFacts DEF ListInv, TypeOK, InDbInside
    <3> QED
      BY <1>1, <1>2, <1>3, <3>1 DEF ZonesApart
  <2>3. View'[f] = fs'[f]
    BY <1>4, <2>1, <2>2 DEF ViewChar
  <2> QED
    BY <1>1, <1>3, <2>3
<1>8. \A f \in Files \ Targets[k] : View'[f] = View[f]
  <2> SUFFICES ASSUME NEW f \in Files \ Targets[k] PROVE View'[f] = View[f]
    OBVIOUS
  <2>1. \/ \E i \in dirty \cap dirty' : f \in Zone(i)
        \/ \E l \in removing \cap removing' : f \in InDb(l)
        \/ /\ \A i \in dirty \cup dirty' : f \notin Zone(i)
           /\ \A l \in removing \cup removing' : f \notin InDb(l)
    BY <1>1, <1>2
  <2> QED
    BY <1>1, <1>2, <2>1, ViewElsewhere
<1>9. View' = [f \in Files |-> IF f \in Targets[k] THEN k ELSE View[f]]
  <2>1. View' = [f \in Files |-> View'[f]]
    BY DEF View
  <2> QED
    BY <1>7, <1>8, <2>1
<1>10. Saved' = Saved
  BY <1>1, SavedSame
<1>11. Atomic!Install(id, k)
  BY <1>1, <1>6, <1>9, <1>10 DEF Atomic!Install
<1> QED
  BY <1>2, <1>11

(* A rollback happens when it begins: from then on its paths stand for what   *)
(* the transaction keeps of them.                                             *)
LEMMA RollbackStep ==
    ASSUME ListInv, ViewChar, ViewChar', dirty' \subseteq Ids, NEW p \in Procs, NEW id \in Ids, RollbackBegin(p, id)
    PROVE  Atomic!Rollback(id) \/ UNCHANGED <<View, Saved, Known>>
<1>1. /\ UNCHANGED <<fs, tx, removing>> /\ (dirty' = dirty \/ dirty' = dirty \cup {id})
      /\ Known' = Known /\ \A l : InDb(l)' = InDb(l)
  BY RollbackBeginEffect, KnownSame
<1>2. dirty \subseteq Ids /\ TypeOK
  BY DEF ListInv, TypeOK
<1>3. Saved' = Saved
  BY <1>1, SavedSame
<1>4. \A f \in Files : (\A i \in dirty' \ dirty : f \notin Zone(i)) => View'[f] = View[f]
  <2> SUFFICES ASSUME NEW f \in Files, \A i \in dirty' \ dirty : f \notin Zone(i) PROVE View'[f] = View[f]
    OBVIOUS
  <2>1. \/ \E i \in dirty \cap dirty' : f \in Zone(i)
        \/ \E l \in removing \cap removing' : f \in InDb(l)
        \/ /\ \A i \in dirty \cup dirty' : f \notin Zone(i)
           /\ \A l \in removing \cup removing' : f \notin InDb(l)
    BY <1>1
  <2> QED
    BY <1>1, <1>2, <2>1, ViewElsewhere
<1>5. CASE dirty' = dirty
  BY <1>1, <1>3, <1>4, <1>5, ViewIs
<1>6. CASE dirty' = dirty \cup {id}
  <2>1. ASSUME NEW f \in Files
        PROVE  View'[f] = IF Saved[id][f] = Untouched THEN View[f] ELSE Saved[id][f]
    <3>1. CASE f \in Zone(id)
      <4>1. Saved[id][f] = tx[id].backup[f]
        BY <3>1, SavedAt
      <4>2. tx[id].backup[f] \in Content
        BY <1>2 DEF TypeOK, TxRec
      <4>3. View'[f] = tx[id].backup[f]
        BY <1>1, <1>6, <3>1 DEF ViewChar, Zone
      <4> QED
        BY <4>1, <4>2, <4>3, PackageAssumption
    <3>2. CASE f \notin Zone(id)
      BY <1>4, <1>6, <3>2, SavedAt
    <3> QED
      BY <3>1, <3>2
  <2>2. View' = [f \in Files |-> View'[f]]
    BY DEF View
  <2>3. View' = [f \in Files |-> IF Saved[id][f] = Untouched THEN View[f] ELSE Saved[id][f]]
    <3> HIDE DEF View, Saved
    <3> QED
      BY <2>1, <2>2
  <2> QED
    BY <1>1, <1>3, <2>3 DEF Atomic!Rollback
<1> QED
  BY <1>1, <1>5, <1>6

(* A removal happens when it begins; a repeated one has happened already. *)
LEMMA RemoveStep ==
    ASSUME ListInv, ViewChar, ViewChar', dirty' \subseteq Ids, NEW p \in Procs, NEW k \in Packages, RemoveBegin(p, k)
    PROVE  Atomic!Remove(k) \/ UNCHANGED <<View, Saved, Known>>
<1>1. UNCHANGED <<fs, tx, db, dirty>> /\ (removing' = removing \/ removing' = removing \cup {k})
  BY RemoveBeginEffect
<1>2. dirty \subseteq Ids /\ \A l : InDb(l)' = InDb(l)
  BY <1>1 DEF ListInv, TypeOK, InDb
<1>3. Saved' = Saved
  BY <1>1, SavedSame
<1>4. \A f \in Files : (\A l \in removing' \ removing : f \notin InDb(l)) => View'[f] = View[f]
  <2> SUFFICES ASSUME NEW f \in Files, \A l \in removing' \ removing : f \notin InDb(l) PROVE View'[f] = View[f]
    OBVIOUS
  <2>1. \/ \E i \in dirty \cap dirty' : f \in Zone(i)
        \/ \E l \in removing \cap removing' : f \in InDb(l)
        \/ /\ \A i \in dirty \cup dirty' : f \notin Zone(i)
           /\ \A l \in removing \cup removing' : f \notin InDb(l)
    BY <1>1
  <2> QED
    BY <1>1, <1>2, <2>1, ViewElsewhere
<1>5. CASE removing' = removing
  BY <1>1, <1>3, <1>4, <1>5, ViewIs, KnownSame
<1>6. CASE removing' = removing \cup {k} /\ k \notin removing
  <2>1. \A f \in Files : View'[f] = IF f \in InDb(k) THEN Absent ELSE View[f]
    BY <1>2, <1>4, <1>6 DEF ViewChar
  <2>2. View' = [f \in Files |-> View'[f]]
    BY DEF View
  <2>3. Known[k] = InDb(k)
    BY <1>6 DEF Known
  <2>4. View' = [f \in Files |-> IF f \in Known[k] THEN Absent ELSE View[f]]
    <3> HIDE DEF View, Known
    <3> QED
      BY <2>1, <2>2, <2>3
  <2>5. Known' = [Known EXCEPT ![k] = {}]
    BY <1>1, <1>6 DEF Known, InDb
  <2> QED
    BY <1>3, <2>4, <2>5 DEF Atomic!Remove
<1> QED
  BY <1>1, <1>5, <1>6

(* The end of a rollback, of either kind, changes nothing: what the paths     *)
(* stood for is now there.                                                    *)
LEMMA UndoneStep ==
    ASSUME ListInv, ZonesApart, ViewChar, ViewChar', dirty' \subseteq Ids, NEW p \in Procs, UndoEnd(p), Work(p)
    PROVE  UNCHANGED <<View, Saved, Known>>
<1> DEFINE id == proc[p].id
<1>1. /\ At(p, "undo") /\ ~More(p, Listed(p)) /\ UNCHANGED <<fs, tx, removing>> /\ dirty' = dirty \ {id}
      /\ Known' = Known /\ \A l : InDb(l)' = InDb(l)
  BY UndoEndEffect, KnownSame
<1>2. /\ id \in Ids /\ dirty \subseteq Ids /\ Listed(p) \in Seq(Files) /\ proc[p].i \in Nat
  BY <1>1, ListedFacts DEF At, TypeOK
<1>3. id \in dirty /\ \A f \in Zone(id) : fs[f] = tx[id].backup[f]
  <2>1. id \in dirty /\ Undone(p)
    BY <1>1 DEF Work, At
  <2>2. proc[p].i = Len(Listed(p))
    BY <1>1, <1>2, <2>1 DEF Undone, More
  <2>3. Names(Listed(p), proc[p].i) = Zone(id)
    BY <1>2, <2>2, NamesAll DEF Zone, Listed
  <2> QED
    BY <2>1, <2>3 DEF Undone, Kept
<1>4. ASSUME NEW f \in Files PROVE View'[f] = View[f]
  <2>1. CASE f \in Zone(id)
    <3>1. \A i \in dirty' : f \notin Zone(i)'
      BY <1>1, <1>3, <2>1 DEF ZonesApart, Zone
    <3>2. \A l \in removing' : f \notin InDb(l)'
      <4>1. \A l \in removing : InDb(l) \subseteq Targets[l]
        BY InDbFacts DEF ListInv, TypeOK, InDbInside
      <4> QED
        BY <1>1, <1>3, <2>1, <4>1 DEF ZonesApart
    <3>3. View'[f] = fs'[f]
      BY <3>1, <3>2 DEF ViewChar
    <3>4. View[f] = tx[id].backup[f]
      BY <1>3, <2>1 DEF ViewChar
    <3> QED
      BY <1>1, <1>3, <2>1, <3>3, <3>4
  <2>2. CASE f \notin Zone(id)
    <3>1. \/ \E i \in dirty \cap dirty' : f \in Zone(i)
          \/ \E l \in removing \cap removing' : f \in InDb(l)
          \/ /\ \A i \in dirty \cup dirty' : f \notin Zone(i)
             /\ \A l \in removing \cup removing' : f \notin InDb(l)
      BY <1>1, <2>2
    <3> QED
      BY <1>1, <1>2, <3>1, ViewElsewhere
  <2> QED
    BY <2>1, <2>2
<1> QED
  BY <1>1, <1>4, ViewIs, SavedSame

(* Nor does the end of a removal. *)
LEMMA UnlinkedStep ==
    ASSUME ListInv, Careful, ZonesApart, ViewChar, ViewChar', dirty' \subseteq Ids, NEW p \in Procs,
           UnlinkEnd(p), Work(p)
    PROVE  UNCHANGED <<View, Saved, Known>>
<1> DEFINE k == proc[p].pkg
<1>1. /\ At(p, "unlink") /\ ~More(p, proc[p].list) /\ UNCHANGED <<fs, tx, dirty>> /\ removing' = removing \ {k}
      /\ db' = [db EXCEPT ![k] = NoList]
  BY UnlinkEndEffect, CarefulFacts
<1>2. /\ k \in Packages /\ dirty \subseteq Ids /\ proc[p].list \in Seq(Files) /\ proc[p].i \in Nat
      /\ removing \subseteq Packages /\ db \in [Packages -> Seq(Files) \cup {NoList}]
      /\ \A l \in Packages : InDb(l) \subseteq Targets[l]
  BY <1>1, RemoveFacts, InDbFacts DEF TypeOK, InDbInside
<1>3. (k \in removing \/ InDb(k) = {}) /\ \A f \in InDb(k) : fs[f] = Absent
  <2>1. Unlinked(p)
    BY <1>1 DEF Work, At
  <2>2. proc[p].i = Len(proc[p].list)
    BY <1>1, <1>2, <2>1 DEF Unlinked, More
  <2>3. Names(proc[p].list, proc[p].i) = InDb(k)
    BY <1>2, <2>1, <2>2, NamesAll DEF Unlinked
  <2> QED
    BY <1>2, <2>1, <2>3 DEF Unlinked
<1> HIDE DEF k
<1>4. \A l \in Packages \ {k} : InDb(l)' = InDb(l)
  BY <1>1, <1>2 DEF InDb
<1>5. ASSUME NEW f \in Files PROVE View'[f] = View[f]
  <2>1. CASE f \in InDb(k)
    <3>1. \A i \in dirty' : f \notin Zone(i)'
      BY <1>1, <1>2, <1>3, <2>1 DEF ZonesApart, Zone
    <3>2. \A l \in removing' : f \notin InDb(l)'
      BY <1>1, <1>2, <1>3, <1>4, <2>1 DEF ZonesApart
    <3>3. View'[f] = fs'[f]
      BY <3>1, <3>2 DEF ViewChar
    <3>4. View[f] = Absent
      BY <1>3, <2>1 DEF ViewChar
    <3> QED
      BY <1>1, <1>3, <2>1, <3>3, <3>4
  <2>2. CASE f \notin InDb(k)
    <3>1. \/ \E i \in dirty \cap dirty' : f \in Zone(i)
          \/ \E l \in removing \cap removing' : f \in InDb(l)
          \/ /\ \A i \in dirty \cup dirty' : f \notin Zone(i)
             /\ \A l \in removing \cup removing' : f \notin InDb(l)
      BY <1>1, <2>2
    <3>2. \A l \in removing' : InDb(l)' = InDb(l)
      BY <1>1, <1>2, <1>4
    <3> QED
      BY <1>1, <1>2, <3>1, <3>2, ViewElsewhere
  <2> QED
    BY <2>1, <2>2
<1>6. Known' = Known
  <2>1. db'[k] = NoList
    BY <1>1, <1>2
  <2>2. \A l \in Packages : Known'[l] = Known[l]
    BY <1>1, <1>3, <1>4, <2>1 DEF Known, InDb
  <2>3. Known = [l \in Packages |-> Known[l]] /\ Known' = [l \in Packages |-> Known'[l]]
    BY DEF Known
  <2> HIDE DEF Known
  <2> QED
    BY <2>2, <2>3
<1> QED
  BY <1>1, <1>5, <1>6, ViewIs, SavedSame

(* The copy of the list into the database, whole, torn or killed, is where a  *)
(* package gets known.                                                        *)
LEMMA SaveStep ==
    ASSUME ListInv, ListInv', Careful, ViewChar, ViewChar', NEW p \in Procs, At(p, "save"),
           Scope(p), Clear(p), UNCHANGED <<fs, tx, dirty, removing>>, Saves(p)
    PROVE  \E i \in Ids, k \in Packages : Atomic!Record(i, k)
<1> DEFINE id == proc[p].id
           k == proc[p].pkg
<1>1. /\ id \in Ids /\ k \in Packages /\ Listed(p) = Manifest[k] /\ proc[p].cmd = "install"
      /\ dirty \subseteq Ids /\ removing \subseteq Packages
      /\ tx[id].backup \in [Files -> Content]
  BY ListedFacts, CarefulFacts DEF At, TypeOK, Faithful, Fault, InstallRec
<1>2. Zone(id) = Targets[k] /\ Targets[k] \subseteq Files
  BY <1>1, TargetsInFiles DEF Zone, Listed, Targets
<1>3. InDbInside /\ InDbInside'
  BY InDbFacts, PTL
<1>4. \A l \in Packages \ {k} : InDb(l)' = InDb(l)
  BY DEF Saves, InDb
<1>5. InDb(k) \subseteq Targets[k] /\ (IF db'[k] = NoList THEN {} ELSE Elems(db'[k])) \subseteq Targets[k]
  BY <1>1, <1>3 DEF InDbInside, InDb
<1>6. k \in removing => Targets[k] = {}
  BY <1>1 DEF Clear, Scope
<1> HIDE DEF k, id
<1>7. \A l \in removing : InDb(l)' = InDb(l)
  <2> SUFFICES ASSUME NEW l \in removing PROVE InDb(l)' = InDb(l)
    OBVIOUS
  <2>1. CASE l # k
    BY <1>1, <1>4, <2>1
  <2>2. CASE l = k
    <3>1. InDb(l) = {} /\ (IF db'[l] = NoList THEN {} ELSE Elems(db'[l])) = {}
      BY <1>5, <1>6, <2>2
    <3> QED
      BY <3>1 DEF InDb
  <2> QED
    BY <2>1, <2>2
<1>8. View' = View
  <2>1. \A f \in Files : View'[f] = View[f]
    <3> SUFFICES ASSUME NEW f \in Files PROVE View'[f] = View[f]
      OBVIOUS
    <3>1. \/ \E i \in dirty \cap dirty' : f \in Zone(i)
          \/ \E l \in removing \cap removing' : f \in InDb(l)
          \/ /\ \A i \in dirty \cup dirty' : f \notin Zone(i)
             /\ \A l \in removing \cup removing' : f \notin InDb(l)
      OBVIOUS
    <3> QED
      BY <1>1, <1>7, <3>1, ViewElsewhere
  <2> QED
    BY <2>1, ViewIs
<1>9. Saved' = Saved
  BY SavedSame
<1>10. \A f \in Targets[k] : Saved[id][f] # Untouched
  <2> SUFFICES ASSUME NEW f \in Targets[k] PROVE Saved[id][f] # Untouched
    OBVIOUS
  <2>1. f \in Files /\ f \in Zone(id)
    BY <1>2
  <2>2. Saved[id][f] = tx[id].backup[f]
    BY <1>1, <2>1, SavedAt
  <2> QED
    BY <1>1, <2>1, <2>2, PackageAssumption
<1> DEFINE S == Known'[k]
<1>11. S \in SUBSET Targets[k] /\ Known' = [Known EXCEPT ![k] = S]
  <2>1. S \subseteq Targets[k]
    BY <1>1, <1>5 DEF Known, InDb
  <2>2. \A l \in Packages \ {k} : Known'[l] = Known[l]
    BY <1>4 DEF Known, InDb
  <2>3. Known = [l \in Packages |-> Known[l]] /\ Known' = [l \in Packages |-> Known'[l]]
    BY DEF Known
  <2> HIDE DEF Known
  <2> QED
    BY <1>1, <2>1, <2>2, <2>3
<1>12. Atomic!Record(id, k)
  BY <1>8, <1>9, <1>10, <1>11 DEF Atomic!Record
<1> QED
  BY <1>1, <1>12

(* An installation that begins keeps nothing yet, even one that could not     *)
(* open its list and only has an empty one to undo.                           *)
LEMMA BeginStep ==
    ASSUME ListInv, Orderly, ViewChar, ViewChar', dirty' \subseteq Ids, NEW p \in Procs, NEW k \in Packages,
           NEW id \in Ids, InstallBegin(p, k, id)
    PROVE  UNCHANGED <<View, Saved, Known>>
<1>1. Installs(p, k, id)
  BY InstallBeginEffect
<1>2. tx[id].list = <<>> /\ Zone(id) = {}
  BY NewIdFacts DEF Zone, Elems
<1>3. /\ \A j \in Ids : tx'[j].list = tx[j].list /\ tx'[j].backup = tx[j].backup
      /\ dirty' = dirty \/ dirty' = dirty \cup {id}
      /\ UNCHANGED <<fs, removing>> /\ Known' = Known /\ \A l : InDb(l)' = InDb(l)
  BY <1>1, <1>2, KnownSame DEF Installs
<1>4. dirty \subseteq Ids
  BY DEF ListInv, TypeOK
<1>5. ASSUME NEW f \in Files PROVE View'[f] = View[f]
  <2>1. \/ \E i \in dirty \cap dirty' : f \in Zone(i)
        \/ \E l \in removing \cap removing' : f \in InDb(l)
        \/ /\ \A i \in dirty \cup dirty' : f \notin Zone(i)
           /\ \A l \in removing \cup removing' : f \notin InDb(l)
    BY <1>2, <1>3
  <2> QED
    BY <1>3, <1>4, <2>1, ViewElsewhere
<1> QED
  BY <1>3, <1>5, ViewIs, SavedSame

(* A step that only writes the file in hand is invisible, for that file lies  *)
(* in the zone of the command.                                                *)
LEMMA TouchQuiet ==
    ASSUME UNCHANGED <<tx, db, dirty, removing>>, NEW f, Only(f) \/ UNCHANGED fs,
           \/ UNCHANGED fs
           \/ \E i \in dirty : f \in Zone(i)
           \/ \E k \in removing : f \in InDb(k)
    PROVE  Quiet
  BY DEF Quiet, Only

LEMMA InHandInZone ==
    ASSUME ListInv, NEW p \in Procs, Work(p)
    PROVE  /\ (At(p, "copy") \/ At(p, "undo")) /\ More(p, Listed(p)) =>
                 proc[p].id \in dirty /\ Current(p, Listed(p)) \in Zone(proc[p].id)
           /\ At(p, "unlink") /\ More(p, proc[p].list) =>
                 proc[p].pkg \in removing /\ Current(p, proc[p].list) \in InDb(proc[p].pkg)
<1>1. ASSUME At(p, "copy") \/ At(p, "undo"), More(p, Listed(p))
      PROVE  proc[p].id \in dirty /\ Current(p, Listed(p)) \in Zone(proc[p].id)
  BY <1>1, InHandFacts DEF Work, At, Zone, Listed
<1>2. ASSUME At(p, "unlink"), More(p, proc[p].list)
      PROVE  proc[p].pkg \in removing /\ Current(p, proc[p].list) \in InDb(proc[p].pkg)
  <2>1. /\ proc[p].i \in Nat /\ proc[p].list \in Seq(Files)
        /\ Elems(proc[p].list) \subseteq Targets[proc[p].pkg]
    BY <1>2, RemoveFacts
  <2>2. Current(p, proc[p].list) \in Elems(proc[p].list)
    BY <1>2, <2>1, CurrentFacts
  <2> QED
    BY <1>2, <2>1, <2>2 DEF Work, Unlinked, At
<1> QED
  BY <1>1, <1>2

(* The steps between are invisible, and so is the death of the process.       *)
LEMMA BetweenQuiet ==
    ASSUME ListInv, Careful, NEW p \in Procs, Work(p),
           \/ CopyFile(p) \/ CopyEnd(p) \/ UndoFile(p) \/ UnlinkFile(p)
           \/ Kill(p) /\ UNCHANGED db
           \/ At(p, "record") /\ Logs(p)
    PROVE  Quiet
<1>1. CASE CopyFile(p)
  BY <1>1, CopyFileEffect, InHandInZone, TouchQuiet
<1>2. CASE CopyEnd(p)
  <2>1. UNCHANGED <<fs, tx, db, dirty, removing>>
    BY <1>2, CopyEndEffect
  <2> QED
    BY <2>1 DEF Quiet
<1>3. CASE UndoFile(p)
  BY <1>3, UndoFileEffect, InHandInZone, TouchQuiet
<1>4. CASE UnlinkFile(p)
  BY <1>4, UnlinkFileEffect, InHandInZone, TouchQuiet
<1>5. ASSUME At(p, "record"), UNCHANGED <<fs, db, dirty, removing>>, tx'[proc[p].id].list = <<>>,
             \A j \in Ids \ {proc[p].id} : tx'[j] = tx[j]
      PROVE  Quiet
  <2>1. tx[proc[p].id].list = <<>>
    BY <1>5, RecordFacts DEF Listed
  <2>2. Zone(proc[p].id) = {}
    BY <2>1 DEF Zone, Elems
  <2> QED
    BY <1>5, <2>1, <2>2 DEF Quiet
<1>6. CASE At(p, "record") /\ Logs(p)
  BY <1>5, <1>6 DEF Logs
<1>7. CASE Kill(p) /\ UNCHANGED db
  <2>1. UNCHANGED <<db, dirty, removing>>
    BY <1>7, KillEffect
  <2>2. CASE /\ At(p, "record") /\ UNCHANGED fs /\ \A j \in Ids \ {proc[p].id} : tx'[j] = tx[j]
             /\ tx'[proc[p].id].list = <<>> \/ Fault("flush")
    BY <1>5, <2>1, <2>2, CarefulFacts
  <2>3. CASE /\ At(p, "copy") \/ At(p, "undo")
             /\ More(p, Listed(p)) /\ Only(Current(p, Listed(p))) /\ UNCHANGED tx
    BY <2>1, <2>3, InHandInZone, TouchQuiet
  <2>4. CASE UNCHANGED <<fs, tx>>
    BY <2>1, <2>4 DEF Quiet
  <2> QED
    BY <1>7, <2>2, <2>3, <2>4, KillEffect
<1> QED
  BY <1>1, <1>2, <1>3, <1>4, <1>6, <1>7
-----------------------------------------------------------------------------
(* Every step of a command is a step of AtomicInstall or an invisible one.    *)
LEMMA CommandRefines ==
    ASSUME ListInv, ListInv', OrderInv, ViewInv, Careful, ViewChar, ViewChar', dirty' \subseteq Ids,
           NEW p \in setting.procs, p \in Procs, setting.pkgs \subseteq Packages, setting.ids \subseteq Ids,
           UNCHANGED setting, Begin(p) \/ Step(p) \/ Kill(p)
    PROVE  Atomic!Next \/ UNCHANGED <<View, Saved, Known>>
<1>0. /\ TypeOK /\ Orderly /\ ZonesApart
      /\ Running(p) => Clear(p) /\ Work(p) /\ Scope(p)
  BY CarefulFacts DEF ListInv, ViewInv, OrderInv
<1>1. ASSUME NEW k \in setting.pkgs, InstallRefused(p, k) PROVE UNCHANGED <<View, Saved, Known>>
  <2>1. Quiet
    BY <1>1 DEF InstallRefused, Keep, Quiet
  <2> QED
    BY <1>0, <2>1, QuietStep
<1>2. ASSUME NEW k \in Packages, RemoveBegin(p, k) PROVE Atomic!Next \/ UNCHANGED <<View, Saved, Known>>
  BY <1>2, RemoveStep DEF Atomic!Next
<1>3. ASSUME NEW id \in Ids, RollbackBegin(p, id) PROVE Atomic!Next \/ UNCHANGED <<View, Saved, Known>>
  BY <1>3, RollbackStep DEF Atomic!Next
<1>4. ASSUME NEW k \in Packages, NEW id \in Ids, InstallBegin(p, k, id) PROVE UNCHANGED <<View, Saved, Known>>
  BY <1>0, <1>4, BeginStep
<1>5. CASE Begin(p)
  BY <1>1, <1>2, <1>3, <1>4, <1>5 DEF Begin
<1>6. CASE RecordFile(p) \/ RecordEnd(p)
  <2>1. At(p, "record")
    BY <1>6, RecordEffect
  <2>2. /\ Running(p) /\ proc[p].id \in Ids /\ Clear(p) /\ Work(p) /\ Scope(p) /\ Recorded(p)
    <3>1. Running(p) /\ proc[p].id \in Ids
      BY <2>1, RecordFacts
    <3> QED
      BY <1>0, <2>1, <3>1 DEF Work, At
  <2>3. CASE Logs(p)
    BY <1>0, <2>1, <2>2, <2>3, BetweenQuiet, QuietStep
  <2>4. ASSUME NEW n \in 0 .. Len(Manifest[proc[p].pkg]), NEW b \in [Files -> Content],
               NEW pc \in {"copy", "save", "undo"}, Closes(p, n, b, pc)
        PROVE  Atomic!Next
    <3>1. Atomic!Prepare(proc[p].id)
      BY <2>1, <2>2, <2>4, PrepareStep
    <3> QED
      BY <2>2, <3>1 DEF Atomic!Next
  <2> QED
    BY <1>6, <2>3, <2>4, RecordEffect
<1>7. CASE CopyFile(p) \/ CopyEnd(p) \/ UndoFile(p) \/ UnlinkFile(p) \/ (Kill(p) /\ UNCHANGED db)
  <2>1. Running(p)
    BY <1>7, KillEffect DEF CopyFile, CopyEnd, UndoFile, UnlinkFile, At, Running
  <2>2. Quiet
    BY <1>0, <1>7, <2>1, BetweenQuiet
  <2> QED
    BY <1>0, <2>2, QuietStep
<1>7a. CASE SaveList(p) \/ (Kill(p) /\ ~UNCHANGED db)
  <2>1. At(p, "save") /\ UNCHANGED <<fs, tx, dirty, removing>> /\ Saves(p)
    BY <1>7a, SaveListEffect, KillEffect
  <2>2. Scope(p) /\ Clear(p)
    BY <1>0, <2>1 DEF At, Running
  <2> QED
    BY <2>1, <2>2, SaveStep DEF Atomic!Next
<1>8. CASE Mark(p)
  <2>1. Running(p)
    BY <1>8 DEF Mark, At, Running
  <2> QED
    BY <1>0, <1>8, <2>1, InstallStep DEF Atomic!Next
<1>9. CASE UndoEnd(p) \/ UnlinkEnd(p)
  <2>1. Running(p)
    BY <1>9 DEF UndoEnd, UnlinkEnd, At, Running
  <2> QED
    BY <1>0, <1>9, <2>1, UndoneStep, UnlinkedStep
<1> QED
  BY <1>5, <1>6, <1>7, <1>7a, <1>8, <1>9, UndoFailsEffect, CarefulFacts DEF Step

LEMMA AtomicStep ==
    ListInv /\ OrderInv /\ ViewInv /\ [Next]_vars /\ ListInv' /\ ViewInv'
       => [Careful => Atomic!Next]_<<View, Saved, Known>>
<1> SUFFICES ASSUME ListInv, OrderInv, ViewInv, [Next]_vars, ListInv', ViewInv', Careful
             PROVE  Atomic!Next \/ UNCHANGED <<View, Saved, Known>>
  OBVIOUS
<1>1. UNCHANGED setting
  BY DEF Next, vars
<1>2. Careful'
  BY <1>1 DEF Careful
<1>3. ViewChar
  BY ViewFacts
<1>4. ViewChar'
  BY <1>2, ViewFacts, PTL
<1>5. CASE UNCHANGED vars
  BY <1>5 DEF vars, View, Saved, Under, Known, InDb
<1>6. CASE Next
  <2>1. PICK p \in setting.procs : Begin(p) \/ Step(p) \/ Kill(p)
    BY <1>6 DEF Next
  <2>2. p \in Procs /\ setting.pkgs \subseteq Packages /\ setting.ids \subseteq Ids /\ dirty' \subseteq Ids
    BY SettingFacts DEF ListInv, TypeOK
  <2> QED
    BY <1>1, <1>3, <1>4, <2>1, <2>2, CommandRefines
<1> QED
  BY <1>5, <1>6

LEMMA AtomicInit == Init => Atomic!Init
<1> SUFFICES ASSUME Init PROVE Atomic!Init
  OBVIOUS
<1>1. /\ fs = [f \in Files |-> Initial[f]] /\ dirty = {} /\ removing = {}
      /\ \A i \in Ids : tx[i].list = <<>>
      /\ \A k \in Packages : db[k] = NoList
  BY DEF Init, NewTx
<1>2. \A f \in Files : Under(f) = {}
  BY <1>1 DEF Under
<1>3. View = [f \in Files |-> Initial[f]]
  BY <1>1, <1>2 DEF View
<1>4. Saved = [i \in Ids |-> [f \in Files |-> Untouched]]
  BY <1>1 DEF Saved, Elems
<1>5. Known = [k \in Packages |-> {}]
  BY <1>1 DEF Known, InDb
<1> QED
  BY <1>3, <1>4, <1>5 DEF Atomic!Init

(* The package manager implements AtomicInstall: through failed copies and    *)
(* kills anywhere, under the discipline and with backups that can be made and *)
(* restored (Careful), the files as View reads them change by whole packages  *)
(* only, over content the transaction keeps, a rollback puts back exactly     *)
(* what is kept, and a removal takes exactly what the database lists, which   *)
(* is all or the first of the package's paths.                                *)
THEOREM ImplementsAtomic == Spec => AtomicSpec
<1>1. Spec => [](ListInv /\ OrderInv /\ ViewInv)
  BY WorkAlways
<1>2. Spec => Atomic!Init
  BY AtomicInit, PTL DEF Spec
<1>3. Spec => [][Next]_vars
  BY PTL DEF Spec
<1> QED
  BY <1>1, <1>2, <1>3, AtomicStep, PTL DEF AtomicSpec
-----------------------------------------------------------------------------
(* An installation that ends its rollback has put back what was there when it *)
(* began: what it replaced it kept, and the rest it never touched.             *)
LEMMA FailureStep ==
    ASSUME ListInv, ViewInv, Careful, NEW p \in Procs, UndoEnd(p), proc[p].cmd = "install"
    PROVE  \A f \in DOMAIN proc[p].before : fs'[f] = proc[p].before[f]
<1>1. /\ At(p, "undo") /\ ~More(p, Listed(p)) /\ fs' = fs
  BY UndoEndEffect
<1>2. /\ Running(p) /\ Listed(p) \in Seq(Files) /\ proc[p].i \in Nat
  BY <1>1, ListedFacts DEF At
<1>3. Undone(p) /\ Remembers(p)
  BY <1>1, <1>2 DEF ViewInv, Work, At
<1>4. proc[p].i = Len(Listed(p))
  BY <1>1, <1>2, <1>3 DEF Undone, More
<1>5. Names(Listed(p), proc[p].i) = Zone(proc[p].id)
  BY <1>2, <1>4, NamesAll DEF Zone, Listed
<1>6. \A f \in Zone(proc[p].id) : fs[f] = Kept(p, f)
  BY <1>3, <1>5 DEF Undone
<1> QED
  BY <1>1, <1>3, <1>6 DEF Remembers

(* A failed installation is undone: with repairable faults only (Careful),    *)
(* and through whatever else runs or was killed, an installation that reports *)
(* failure leaves every path of its package as it found it.                   *)
THEOREM FailureRestored == Spec /\ Careful => FailureRestores
<1> DEFINE Act ==
      \A p \in Procs :
          At(p, "undo") /\ proc[p].cmd = "install" /\ proc'[p].pc = "idle" /\ proc'[p].res = 1
             => \A f \in DOMAIN proc[p].before : fs'[f] = proc[p].before[f]
<1>1. ASSUME ListInv, OrderInv, ViewInv, Careful, [Next]_vars PROVE [Act]_vars
  <2> SUFFICES ASSUME Next, NEW p \in Procs, At(p, "undo"), proc[p].cmd = "install", proc'[p].pc = "idle",
                      proc'[p].res = 1
               PROVE  \A f \in DOMAIN proc[p].before : fs'[f] = proc[p].before[f]
    BY <1>1
  <2>1. PICK q \in setting.procs : Begin(q) \/ Step(q) \/ Kill(q)
    BY DEF Next
  <2>2. q \in Procs /\ setting.pkgs \subseteq Packages /\ setting.ids \subseteq Ids /\ UNCHANGED setting /\ Orderly
    BY <1>1, SettingFacts, CarefulFacts DEF ListInv, Next
  <2>3. p = q
    <3>1. \A r \in Procs \ {q} : proc'[r] = proc[r]
      BY <1>1, <2>1, <2>2, FrameStep DEF Frame
    <3> QED
      BY <3>1 DEF At
  <2>4. ~Kill(p)
    <3>1. ASSUME Kill(p) PROVE FALSE
      <4>1. End(p, 137)
        BY <3>1 DEF Kill
      <4>2. proc'[p].res = 137
        BY <1>1, <4>1, EndEnds
      <4> QED
        BY <4>2
    <3> QED
      BY <3>1
  <2>5. ~Begin(p)
    BY DEF Begin, InstallRefused, RemoveBegin, InstallBegin, RollbackBegin, Running, At
  <2>6. UndoEnd(p)
    <3>1. UndoFile(p) \/ UndoEnd(p) \/ UndoFails(p)
      BY <2>1, <2>3, <2>4, <2>5
         DEF Step, RecordFile, RecordEnd, CopyFile, CopyEnd, SaveList, Mark, UnlinkFile, UnlinkEnd, At
    <3> QED
      BY <1>1, <3>1, UndoFileEffect, CarefulFacts DEF UndoFails
  <2> QED
    BY <1>1, <2>6, FailureStep
<1>2. Spec => [](ListInv /\ OrderInv /\ ViewInv)
  BY WorkAlways
<1>3. Spec => [][Next]_vars
  BY PTL DEF Spec
<1>4. Careful /\ [Next]_vars => Careful'
  BY DEF Careful, Next, vars
<1> QED
  BY <1>1, <1>2, <1>3, <1>4, PTL DEF FailureRestores
=============================================================================
