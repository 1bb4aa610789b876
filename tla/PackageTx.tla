------------------------------ MODULE PackageTx ------------------------------
(***************************************************************************)
(* The package manager of services/mantle.c: install, rollback and remove   *)
(* as processes that touch one file at a time, over the files, the          *)
(* transaction directories and the package database, which all survive the  *)
(* processes.  Any cp, open or unlink the code checks or ignores may fail,  *)
(* and a process may be killed between or inside two of its steps; which of *)
(* these happen is part of the setting.                                    *)
(***************************************************************************)
EXTENDS Naturals, Sequences

CONSTANTS
    Files, Critical,       \* the paths packages name; those of critical_path
    Packages, Sound,       \* the packages; those verify_package_prepare accepts
    Manifest,              \* Manifest[k]: the paths META/MANIFEST names, in order
    Plain,                 \* Plain[k]: which of these names are spelled with single slashes and no dot
    Ids,                   \* process identifiers, which name the transactions
    Procs,                 \* the commands that can be running at once
    Absent, Old, Torn, Untouched, NoList,
    Initial,               \* Initial[f]: Old, or Absent
    Settings               \* see setting

FaultKinds == {"open", "backup", "list", "reopen", "copy", "db", "mark", "reread", "restore", "unlink",
               "kill", "flush"}
Content == {Absent, Old, Torn} \cup Packages
Elems(s) == {s[i] : i \in DOMAIN s}
Targets == [k \in Packages |-> Elems(Manifest[k])]

ASSUME PackageAssumption ==
    /\ Critical \subseteq Files
    /\ Sound \subseteq Packages
    /\ Manifest \in [Packages -> Seq(Files)]
    /\ Plain \in [Packages -> SUBSET Nat]
    /\ Initial \in [Files -> {Absent, Old}]
    /\ Untouched \notin Content
    /\ Settings \subseteq [faults : SUBSET FaultKinds, reuse : BOOLEAN, disciplined : BOOLEAN,
                     procs : SUBSET Procs, ids : SUBSET Ids, pkgs : SUBSET Packages]

(* setting.faults: the failures that can happen; reuse: a process identifier  *)
(* may name a second transaction; disciplined: whoever runs the commands      *)
(* repeats an interrupted one before any other, and runs two at once only on  *)
(* disjoint paths; procs, ids, pkgs: which processes, identifiers and         *)
(* packages appear.                                                           *)
VARIABLES
    setting,
    fs,        \* the content of the target paths
    tx,        \* /var/lib/mantleos/transactions/<id>: list, backups, COMMITTED
    db,        \* /var/lib/mantleos/packages/<name>/files
    proc,      \* the running commands
    dirty,     \* history: transactions being copied or undone, or interrupted there
    removing   \* history: packages being removed, or interrupted there

vars == <<setting, fs, tx, db, proc, dirty, removing>>

NewTx == [made |-> FALSE, list |-> <<>>, backup |-> [f \in Files |-> Absent], committed |-> FALSE]
Idle(res) == [pc |-> "idle", res |-> res]

Init ==
    /\ setting \in Settings
    /\ fs = [f \in Files |-> Initial[f]]
    /\ tx = [id \in Ids |-> NewTx]
    /\ db = [k \in Packages |-> NoList]
    /\ proc = [p \in Procs |-> Idle(0)]
    /\ dirty = {}
    /\ removing = {}

-----------------------------------------------------------------------------
Running(p) == proc[p].pc # "idle"
At(p, pc) == proc[p].pc = pc
Fault(f) == f \in setting.faults
Keep(p) == UNCHANGED <<fs, tx, db, dirty, removing>>

(* The undo log of transaction id as this process goes through it. *)
Listed(p) == tx[proc[p].id].list
More(p, list) == proc[p].i < Len(list)
Current(p, list) == list[proc[p].i + 1]
Advance(p) == proc' = [proc EXCEPT ![p].i = @ + 1]
AdvanceFailed(p) == proc' = [proc EXCEPT ![p].i = @ + 1, ![p].bad = TRUE]
Goto(p, pc) == proc' = [proc EXCEPT ![p].pc = pc, ![p].i = 0]
End(p, res) == proc' = [proc EXCEPT ![p] = Idle(res)]
Put(f, contents) == \E c \in contents : fs' = [fs EXCEPT ![f] = c]

(* What was interrupted and not yet repeated. *)
Pending == [tx |-> dirty \ {proc[p].id : p \in {q \in Procs : Running(q) /\ proc[q].cmd # "remove"}},
            db |-> removing \ {proc[p].pkg : p \in {q \in Procs : Running(q) /\ proc[q].cmd = "remove"}}]
Allowed(ids, pkgs, paths) ==
    setting.disciplined =>
        /\ Pending.tx \cup Pending.db # {} => ids \cap Pending.tx # {} \/ pkgs \cap Pending.db # {}
        /\ \A p \in Procs : Running(p) =>
             proc[p].paths \cap paths = {} /\ (proc[p].cmd # "remove" => proc[p].id \notin ids)

(* geteuid is 0.  A refused package leaves no trace but its stage directory.  *)
InstallRefused(p, k) ==
    /\ ~Running(p)
    /\ k \notin Sound
    /\ proc' = [proc EXCEPT ![p] = Idle(3)]
    /\ Keep(p)

FreeId(id) == \A p \in Procs : Running(p) /\ proc[p].cmd = "install" => proc[p].id # id

(* install_package up to the opening of the list: "w" empties one that an     *)
(* earlier process of the same identifier left, its backups stay.             *)
InstallBegin(p, k, id) ==
    /\ ~Running(p)
    /\ k \in Sound
    /\ FreeId(id) /\ (setting.reuse \/ ~tx[id].made)
    /\ Allowed({}, {}, Targets[k])
    /\ LET at(pc) == proc' = [proc EXCEPT ![p] =
               [pc |-> pc, cmd |-> "install", pkg |-> k, id |-> id, i |-> 0, bad |-> FALSE,
                paths |-> Targets[k], before |-> [f \in Targets[k] |-> fs[f]]]]
       IN  \/ /\ at("record")
              /\ tx' = [tx EXCEPT ![id].made = TRUE, ![id].list = <<>>]
              /\ UNCHANGED dirty
           \/ /\ Fault("open")
              /\ at("undo")
              /\ dirty' = dirty \cup {id}
              /\ UNCHANGED tx
    /\ UNCHANGED <<fs, db, removing>>

(* What the list file and the backup directory hold from now on. *)
Log(id, list, backup) == tx' = [tx EXCEPT ![id].list = list, ![id].backup = backup]

(* fclose writes the names logged so far, or, its failure ignored, the first  *)
(* of them; then the copies, or the rollback, or, when the list cannot be     *)
(* read back, the end as if all had been copied.                              *)
Close(p, n, backup, pc) ==
    LET id == proc[p].id IN
    /\ \E w \in (IF Fault("list") THEN 0 .. n ELSE {n}) :
         Log(id, SubSeq(Manifest[proc[p].pkg], 1, w), backup)
    /\ Goto(p, pc)
    /\ dirty' = dirty \cup {id}
    /\ UNCHANGED <<fs, db, removing>>

(* A name is logged, then the file it names is copied aside if it exists.     *)
Backup(p, f, c) == [tx[proc[p].id].backup EXCEPT ![f] = c]
Kept(p, f) == tx[proc[p].id].backup[f]
BackupOf_skipped(p, f) == Kept(p, f)
BackupOf(p, f) == IF fs[f] = Absent THEN Kept(p, f) ELSE fs[f]

(* The i-th name of package k is one of critical_path's strings: safe_rel     *)
(* lets through other spellings of the same paths.                            *)
critical_path_never(k, i) == FALSE
critical_path(k, i) == i \in Plain[k] /\ Manifest[k][i] \in Critical

RecordFile(p) ==
    LET m == Manifest[proc[p].pkg]
        f == Current(p, m)
        critical == critical_path(proc[p].pkg, proc[p].i + 1)
    IN
    /\ At(p, "record") /\ More(p, m)
    /\ \/ /\ critical
          /\ Close(p, proc[p].i, tx[proc[p].id].backup, "undo")
       \/ /\ ~critical
          /\ Advance(p)
          /\ Log(proc[p].id, Listed(p), Backup(p, f, BackupOf(p, f)))
          /\ UNCHANGED <<fs, db, dirty, removing>>
       \/ /\ ~critical /\ fs[f] # Absent /\ Fault("backup")
          /\ \E c \in {Kept(p, f), Torn} : Close(p, proc[p].i + 1, Backup(p, f, c), "undo")

RecordEnd(p) ==
    LET m == Manifest[proc[p].pkg] IN
    /\ At(p, "record") /\ ~More(p, m)
    /\ \E pc \in IF Fault("reopen") THEN {"copy", "save"} ELSE {"copy"} :
         Close(p, Len(m), tx[proc[p].id].backup, pc)

(* cp -a over the target: done, or failed having changed it or not. *)
CopyFile(p) ==
    LET f == Current(p, Listed(p)) IN
    /\ At(p, "copy") /\ More(p, Listed(p))
    /\ \/ Put(f, {proc[p].pkg}) /\ Advance(p)
       \/ Fault("copy") /\ Put(f, {fs[f], Torn}) /\ Goto(p, "undo")
    /\ UNCHANGED <<tx, db, dirty, removing>>

(* A list that was cut short in the middle of a name makes cp fail there.     *)
CopyEnd(p) ==
    /\ At(p, "copy") /\ ~More(p, Listed(p))
    /\ \/ Goto(p, "save")
       \/ Len(Listed(p)) < Len(Manifest[proc[p].pkg]) /\ Goto(p, "undo")
    /\ Keep(p)

(* What a copy of a list leaves that fails or is killed: the destination as   *)
(* it was, or the first names.                                                *)
Prefixes(list) == {SubSeq(list, 1, n) : n \in 0 .. Len(list)}
SaveTorn(p) == \E list \in {db[proc[p].pkg]} \cup Prefixes(Listed(p)) : db' = [db EXCEPT ![proc[p].pkg] = list]

(* The list becomes the database's; a failure of that copy is not looked at.  *)
SaveList(p) ==
    /\ At(p, "save")
    /\ Goto(p, "mark")
    /\ \/ db' = [db EXCEPT ![proc[p].pkg] = Listed(p)]
       \/ Fault("db") /\ SaveTorn(p)
    /\ UNCHANGED <<fs, tx, dirty, removing>>

(* The marker; a failure to create it is not looked at either. *)
Mark(p) ==
    LET id == proc[p].id IN
    /\ At(p, "mark")
    /\ \/ tx' = [tx EXCEPT ![id].committed = TRUE]
       \/ Fault("mark") /\ UNCHANGED tx
    /\ End(p, 0)
    /\ dirty' = dirty \ {id}
    /\ UNCHANGED <<fs, db, removing>>

-----------------------------------------------------------------------------
(* "mantle rollback <id>". *)
RollbackBegin(p, id) ==
    /\ ~Running(p)
    /\ Allowed({id}, {}, Elems(tx[id].list))
    /\ \/ /\ ~tx[id].made
          /\ proc' = [proc EXCEPT ![p] = Idle(2)]
          /\ UNCHANGED dirty
       \/ /\ tx[id].made
          /\ proc' = [proc EXCEPT ![p] =
                [pc |-> "undo", cmd |-> "rollback", id |-> id, i |-> 0, bad |-> FALSE,
                 paths |-> Elems(tx[id].list)]]
          /\ dirty' = dirty \cup {id}
    /\ UNCHANGED <<fs, tx, db, removing>>

(* rollback_tx: a listed path gets its backup, or disappears when it has none. *)
Restored_keeps(p, f) == IF Kept(p, f) = Absent THEN fs[f] ELSE Kept(p, f)
Restored(p, f) == Kept(p, f)

UndoFile_retries(p) ==
    LET f == Current(p, Listed(p)) IN
    /\ At(p, "undo") /\ More(p, Listed(p))
    /\ \/ Put(f, {Restored(p, f)}) /\ Advance(p)
       \/ Fault("restore") /\ Put(f, {Absent, Torn}) /\ UNCHANGED proc
    /\ UNCHANGED <<tx, db, dirty, removing>>
UndoFile(p) ==
    LET f == Current(p, Listed(p)) IN
    /\ At(p, "undo") /\ More(p, Listed(p))
    /\ \/ Put(f, {Restored(p, f)}) /\ Advance(p)
       \/ /\ Fault("restore")
          /\ Put(f, IF Kept(p, f) = Absent THEN {fs[f]} ELSE {Absent, Torn})
          /\ AdvanceFailed(p)
    /\ UNCHANGED <<tx, db, dirty, removing>>

UndoEnd(p) ==
    /\ At(p, "undo") /\ ~More(p, Listed(p))
    /\ End(p, IF proc[p].cmd = "install" \/ proc[p].bad THEN 1 ELSE 0)
    /\ dirty' = dirty \ {proc[p].id}
    /\ UNCHANGED <<fs, tx, db, removing>>

(* The list cannot be opened: nothing is undone, which install_package does   *)
(* not notice.                                                                *)
UndoFails(p) ==
    /\ At(p, "undo") /\ proc[p].i = 0
    /\ Fault("reread")
    /\ End(p, IF proc[p].cmd = "install" THEN 1 ELSE 2)
    /\ Keep(p)

-----------------------------------------------------------------------------
(* remove_package. *)
RemoveBegin(p, k) ==
    /\ ~Running(p)
    /\ Allowed({}, {k}, Targets[k])
    /\ \/ /\ db[k] = NoList
          /\ proc' = [proc EXCEPT ![p] = Idle(2)]
          /\ UNCHANGED removing
       \/ /\ db[k] # NoList
          /\ proc' = [proc EXCEPT ![p] =
                [pc |-> "unlink", cmd |-> "remove", pkg |-> k, list |-> db[k], i |-> 0, bad |-> FALSE,
                 paths |-> Targets[k]]]
          /\ removing' = removing \cup {k}
    /\ UNCHANGED <<fs, tx, db, dirty>>

UnlinkFile(p) ==
    /\ At(p, "unlink") /\ More(p, proc[p].list)
    /\ \/ Put(Current(p, proc[p].list), {Absent}) /\ Advance(p)
       \/ /\ Fault("unlink")
          /\ AdvanceFailed(p)
          /\ UNCHANGED fs
    /\ UNCHANGED <<tx, db, dirty, removing>>

(* The list itself goes last; a failure of that is not looked at.             *)
UnlinkEnd(p) ==
    /\ At(p, "unlink") /\ ~More(p, proc[p].list)
    /\ End(p, IF proc[p].bad THEN 1 ELSE 0)
    /\ \/ db' = [db EXCEPT ![proc[p].pkg] = NoList]
       \/ Fault("unlink") /\ UNCHANGED db
    /\ removing' = removing \ {proc[p].pkg}
    /\ UNCHANGED <<fs, tx, dirty>>

-----------------------------------------------------------------------------
(* The process dies: while recording, the buffered list is lost, or when it   *)
(* outgrew its buffer any part of it is there, even a name whose backup had    *)
(* not begun or was not finished; while copying or restoring, the file in     *)
(* hand may be torn, and while saving the list, the database's.               *)
KillRecording(p) ==
    LET m == Manifest[proc[p].pkg]
        id == proc[p].id
    IN
    /\ At(p, "record")
    /\ \E n \in (IF Fault("flush") THEN 0 .. (proc[p].i + 1) ELSE {0}) :
         /\ n <= proc[p].i \/ (More(p, m) /\ ~critical_path(proc[p].pkg, proc[p].i + 1))
         /\ \E b \in {tx[id].backup} \cup
                     (IF More(p, m) /\ fs[Current(p, m)] # Absent
                         THEN {Backup(p, Current(p, m), Torn)} ELSE {}) :
              Log(id, SubSeq(m, 1, n), b)
    /\ UNCHANGED <<fs, db>>

KillWriting(p) ==
    /\ At(p, "copy") \/ At(p, "undo")
    /\ IF More(p, Listed(p))
          THEN LET f == Current(p, Listed(p)) IN Put(f, {fs[f], Torn} \cup (IF At(p, "undo") THEN {Absent} ELSE {}))
          ELSE UNCHANGED fs
    /\ UNCHANGED <<tx, db>>

KillSaving(p) == At(p, "save") /\ SaveTorn(p) /\ UNCHANGED <<fs, tx>>

KillElsewhere(p) == proc[p].pc \in {"mark", "unlink"} /\ UNCHANGED <<fs, tx, db>>

Kill(p) ==
    /\ Fault("kill")
    /\ KillRecording(p) \/ KillWriting(p) \/ KillSaving(p) \/ KillElsewhere(p)
    /\ End(p, 137)
    /\ UNCHANGED <<dirty, removing>>

-----------------------------------------------------------------------------
Begin(p) ==
    \/ \E k \in setting.pkgs : InstallRefused(p, k) \/ RemoveBegin(p, k)
    \/ \E k \in setting.pkgs, id \in setting.ids : InstallBegin(p, k, id)
    \/ \E id \in setting.ids : RollbackBegin(p, id)

Step(p) ==
    \/ RecordFile(p) \/ RecordEnd(p) \/ CopyFile(p) \/ CopyEnd(p) \/ SaveList(p) \/ Mark(p)
    \/ UndoFile(p) \/ UndoEnd(p) \/ UndoFails(p) \/ UnlinkFile(p) \/ UnlinkEnd(p)

Next == UNCHANGED setting /\ \E p \in setting.procs : Begin(p) \/ Step(p) \/ Kill(p)

(* A command that is not killed goes on: each of its waits is for a child     *)
(* that ends.  Nothing makes anybody start one.                               *)
Spec == Init /\ [][Next]_vars /\ \A p \in Procs : WF_vars(UNCHANGED setting /\ Step(p))

-----------------------------------------------------------------------------
(* The records of a transaction and of a command. *)
TxRec == [made : BOOLEAN, list : Seq(Files), backup : [Files -> Content], committed : BOOLEAN]
IdleRec == [pc : {"idle"}, res : {0, 1, 2, 3, 137}]
InstallRec ==
    [pc : {"record", "copy", "save", "mark", "undo"}, cmd : {"install"}, pkg : Packages, id : Ids,
     i : Nat, bad : BOOLEAN, paths : SUBSET Files, before : UNION {[S -> Content] : S \in SUBSET Files}]
RollbackRec ==
    [pc : {"undo"}, cmd : {"rollback"}, id : Ids, i : Nat, bad : BOOLEAN, paths : SUBSET Files]
RemoveRec ==
    [pc : {"unlink"}, cmd : {"remove"}, pkg : Packages, list : Seq(Files), i : Nat, bad : BOOLEAN,
     paths : SUBSET Files]

(* Types of what is on the disk and of the running commands. *)
TypeOK ==
    /\ setting \in Settings
    /\ fs \in [Files -> Content]
    /\ tx \in [Ids -> TxRec]
    /\ db \in [Packages -> Seq(Files) \cup {NoList}]
    /\ proc \in [Procs -> IdleRec \cup InstallRec \cup RollbackRec \cup RemoveRec]
    /\ dirty \subseteq Ids /\ removing \subseteq Packages

(* The paths some package names in a spelling critical_path does not compare. *)
Aliased == {f \in Files : \E k \in Packages : \E i \in DOMAIN Manifest[k] \ Plain[k] : Manifest[k][i] = f}

(* Whatever fails or is killed, and whatever transactions are left behind, no *)
(* command ever changes a critical path, but one that a package names in      *)
(* another spelling than critical_path's.                                     *)
CriticalUntouched == \A f \in Critical \ Aliased : fs[f] = Initial[f]

(* No content is overwritten by install_package unless the transaction holds  *)
(* a backup of exactly that content ("les fichiers remplaces sont             *)
(* sauvegardes").                                                             *)
BackupBeforeOverwrite ==
    [][\A p \in Procs, f \in Files :
          At(p, "copy") /\ f \in Elems(Listed(p)) /\ fs[f] # fs'[f] /\ fs[f] # Absent
             => tx[proc[p].id].backup[f] = fs[f]]_vars

(* An installation that reports failure has left its targets as they were     *)
(* when it started ("en cas d'erreur, les sauvegardes sont restaurees").      *)
FailureRestores ==
    [][\A p \in Procs :
          At(p, "undo") /\ proc[p].cmd = "install" /\ proc'[p].pc = "idle" /\ proc'[p].res = 1
             => \A f \in DOMAIN proc[p].before : fs'[f] = proc[p].before[f]]_vars

(* Every command that is not killed returns. *)
CommandEnds == \A p \in Procs : Running(p) ~> ~Running(p)

-----------------------------------------------------------------------------
(* The files as a transaction in progress, or interrupted, stands for them:   *)
(* what it would restore.  A removal stands for its end from its beginning.   *)
Saved == [id \in Ids |-> [f \in Files |->
            IF f \in Elems(tx[id].list) THEN tx[id].backup[f] ELSE Untouched]]
InDb(k) == IF db[k] = NoList THEN {} ELSE Elems(db[k])
Under(f) == {id \in dirty : f \in Elems(tx[id].list)}
View == [f \in Files |->
            IF \E k \in removing : f \in InDb(k) THEN Absent
            ELSE IF Under(f) # {} THEN Saved[CHOOSE id \in Under(f) : TRUE][f]
            ELSE fs[f]]
Known == [k \in Packages |-> IF k \in removing THEN {} ELSE InDb(k)]

Atomic == INSTANCE AtomicInstall WITH files <- View, saved <- Saved, known <- Known

(* What the refinement needs: backups and lists can be written, read back and *)
(* followed.                                                                  *)
Careful ==
    /\ setting.disciplined /\ ~setting.reuse
    /\ setting.faults \cap {"backup", "list", "reopen", "reread", "restore", "unlink", "flush"} = {}

(* The files change by whole packages only: through copies that fail and      *)
(* kills of any command anywhere, install_package happens entirely when it    *)
(* marks the transaction or else what it replaced is what rollback_tx puts    *)
(* back, itself killed and repeated or not; and a removal takes what the      *)
(* database lists, which a copy of the list that fails or is killed may leave *)
(* short of the package.                                                      *)
AtomicSpec == Atomic!Init /\ [][Careful => Atomic!Next]_<<View, Saved, Known>>
=============================================================================
