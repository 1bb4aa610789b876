--------------------------- MODULE InitSwitchRoot ---------------------------
(***************************************************************************)
(* mantle-init, process 1 of the initial image: it mounts the real root     *)
(* filesystem, itself or through a child that runs mount, moves into it and *)
(* execs its init (mantle-root-init), or falls back to a recovery mode.     *)
(* The SIGCHLD handler reaps every child that ends while process 1 is not   *)
(* inside waitpid; the status of such a child is lost, and the variable     *)
(* that should hold it still says 0.                                        *)
(***************************************************************************)
EXTENDS Naturals

CONSTANTS
    Images,     \* the real root filesystems looked at: see image
    MaxTries    \* the turns of mount_real_root's loop, 50 in the code

ASSUME InitAssumption ==
    /\ Images \subseteq [device : BOOLEAN, media : BOOLEAN, mounts : BOOLEAN, init : BOOLEAN, supervise : BOOLEAN]
    /\ MaxTries \in Nat \ {0}

VARIABLES
    image,     \* device: mantle.root= names one; media: /dev/sr0 can be mounted;
               \* mounts: the file system on them is sound; init, supervise: it has them
    ipc,       \* where process 1 is
    tries,     \* turns of the loop so far
    helper,    \* the child that runs mount: "none", "running" or "ended"
    status,    \* the variable status: 0, or 1 for a failure
    newroot,   \* what is on /newroot: "empty" or "real"
    root,      \* the root of process 1: "initramfs" or "newroot"
    lost       \* history: whether a status was lost

ivars == <<image, ipc, tries, helper, status, newroot, root, lost>>

IInit ==
    /\ image \in Images
    /\ ipc = "device" /\ tries = 0 /\ helper = "none" /\ status = 0
    /\ newroot = "empty" /\ root = "initramfs" /\ lost = FALSE

-----------------------------------------------------------------------------
(* main up to switch_root, and mantle.root=. *)
TryDevice ==
    /\ ipc = "device"
    /\ IF image.device /\ image.mounts THEN newroot' = "real" /\ ipc' = "switch"
                                       ELSE newroot' = newroot /\ ipc' = "media"
    /\ UNCHANGED <<image, tries, helper, status, root, lost>>

(* A turn of the loop: the medium, then the child; a fork may fail. *)
TryMedia ==
    /\ ipc = "media"
    /\ \/ /\ tries = MaxTries
          /\ ipc' = "recovery"
          /\ UNCHANGED <<tries, helper>>
       \/ /\ tries < MaxTries
          /\ tries' = tries + 1
          /\ \/ ipc' = "media" /\ UNCHANGED helper
             \/ image.media /\ ipc' = "forked" /\ helper' = "running"
    /\ status' = 0
    /\ UNCHANGED <<image, newroot, root, lost>>

(* The child's mount, and its end: the handler takes it, or waitpid does. *)
HelperEnds ==
    /\ helper = "running"
    /\ helper' = "ended"
    /\ newroot' = IF image.mounts THEN "real" ELSE newroot
    /\ IF ipc = "waiting"
       THEN status' = (IF image.mounts THEN 0 ELSE 1) /\ ipc' = "decide" /\ UNCHANGED lost
       ELSE lost' = TRUE /\ UNCHANGED <<status, ipc>>
    /\ UNCHANGED <<image, tries, root>>

(* waitpid: with the child already reaped it fails and leaves status alone. *)
Wait ==
    /\ ipc = "forked"
    /\ ipc' = IF helper = "running" THEN "waiting" ELSE "decide"
    /\ UNCHANGED <<image, tries, helper, status, newroot, root, lost>>

Mounted_always == TRUE
Mounted == status = 0

Decide ==
    /\ ipc = "decide"
    /\ ipc' = IF Mounted THEN "switch" ELSE "media"
    /\ helper' = "none"
    /\ UNCHANGED <<image, tries, status, newroot, root, lost>>

(* switch_root after the mounts: there is no way back from chroot. *)
SwitchRoot ==
    /\ ipc = "switch"
    /\ root' = "newroot"
    /\ ipc' = IF newroot = "real" /\ image.init THEN "rootinit" ELSE "recovery"
    /\ UNCHANGED <<image, tries, helper, status, newroot, lost>>

HasSupervise == IF root = "initramfs" THEN TRUE ELSE newroot = "real" /\ image.supervise

(* Recovery mode, and the end of mantle-root-init: an exec of mantle-supervise *)
(* from the root in use, or power off, or the exit of process 1.               *)
Recovery == ipc = "recovery" /\ ipc' = IF HasSupervise THEN "supervise" ELSE "poweroff"
RootInit == ipc = "rootinit" /\ ipc' = IF HasSupervise THEN "supervise" ELSE "panic"
ExecSupervise == (Recovery \/ RootInit) /\ UNCHANGED <<image, tries, helper, status, newroot, root, lost>>

IStep == TryDevice \/ TryMedia \/ HelperEnds \/ Wait \/ Decide \/ SwitchRoot \/ ExecSupervise

-----------------------------------------------------------------------------
Complete == image.init /\ image.supervise

(* Either a complete real root is entered or, when none can be mounted, the   *)
(* recovery mode of the initial image comes up: in both cases mantle-supervise *)
(* runs, however often the medium or the fork fails - unless the handler took *)
(* the status of a mount that failed.                                         *)
InitSupervises ==
    (image.mounts => Complete) => <>(ipc = "supervise" \/ (lost /\ newroot = "empty"))

(* Process 1 powers the machine off or ends, a kernel panic, only on a real   *)
(* root that lacks one of its programs, or in the empty directory into which  *)
(* it moved because the handler took the status of a mount that failed.       *)
DeadEndOnlyByRace ==
    ipc \in {"poweroff", "panic"} => (image.mounts /\ ~Complete) \/ (lost /\ newroot = "empty")
=============================================================================
