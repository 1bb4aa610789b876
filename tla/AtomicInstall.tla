---------------------------- MODULE AtomicInstall ----------------------------
(***************************************************************************)
(* What docs/mantle-package.md promises of the package manager: a package   *)
(* is on the disk whole or not at all, a transaction keeps what it is about *)
(* to replace, and rolling it back puts exactly that back.  Of the          *)
(* database it promises less: it may know only some of a package's paths,   *)
(* and a removal takes those.  PackageTx is shown to implement this module. *)
(***************************************************************************)
CONSTANTS
    Files,      \* the paths packages install
    Packages,   \* the packages
    Ids,        \* the names of the transactions
    Targets,    \* Targets[k]: the paths package k installs
    Absent,     \* the content of a path that does not exist
    Initial,    \* the content of a path before any installation
    Untouched   \* what a transaction keeps of a path it does not touch

VARIABLES
    files,   \* the content of every path
    saved,   \* saved[i][f]: what transaction i keeps of path f
    known    \* known[k]: the paths the database lists for package k

Init ==
    /\ files = [f \in Files |-> Initial[f]]
    /\ saved = [i \in Ids |-> [f \in Files |-> Untouched]]
    /\ known = [k \in Packages |-> {}]

(* A transaction keeps the present content of some paths. *)
Prepare(i) ==
    /\ \E S \in SUBSET Files :
         saved' = [saved EXCEPT ![i] = [f \in Files |-> IF f \in S THEN files[f] ELSE Untouched]]
    /\ UNCHANGED <<files, known>>

(* A package whose paths are all kept gets into the database, perhaps in part. *)
Record(i, k) ==
    /\ \A f \in Targets[k] : saved[i][f] # Untouched
    /\ \E S \in SUBSET Targets[k] : known' = [known EXCEPT ![k] = S]
    /\ UNCHANGED <<files, saved>>

(* All of a package appears at once, and only over content that is kept. *)
Install(i, k) ==
    /\ \A f \in Targets[k] : saved[i][f] = files[f]
    /\ files' = [f \in Files |-> IF f \in Targets[k] THEN k ELSE files[f]]
    /\ UNCHANGED <<saved, known>>

Rollback(i) ==
    /\ files' = [f \in Files |-> IF saved[i][f] = Untouched THEN files[f] ELSE saved[i][f]]
    /\ UNCHANGED <<saved, known>>

Remove(k) ==
    /\ files' = [f \in Files |-> IF f \in known[k] THEN Absent ELSE files[f]]
    /\ known' = [known EXCEPT ![k] = {}]
    /\ UNCHANGED saved

Next ==
    \/ \E i \in Ids : Prepare(i) \/ Rollback(i) \/ \E k \in Packages : Record(i, k) \/ Install(i, k)
    \/ \E k \in Packages : Remove(k)

Spec == Init /\ [][Next]_<<files, saved, known>>
=============================================================================
