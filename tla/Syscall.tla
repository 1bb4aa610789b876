------------------------------ MODULE Syscall ------------------------------
(***************************************************************************)
(* The kernel side of a session: mantle_kernel_main from the mounted root  *)
(* filesystem on, mantle_syscall_dispatch, the descriptors, the single     *)
(* process, and the exception handler that ends it.                        *)
(*                                                                         *)
(* The user program may make any call in any order.  Calls are not         *)
(* pre-empted (interrupts are off for good), so a call is one step.  What  *)
(* mantle_elf_load does with a file is summarised by the file's kind, see  *)
(* ElfLoader; what a pointer argument denotes by a path or BadPointer, see *)
(* UserAccess.                                                             *)
(***************************************************************************)
EXTENDS Integers, FiniteSets, FiniteSetsExt

CONSTANTS
    Paths,     \* the file names programs use
    MaxFds,    \* MAX_FDS
    Hello,     \* "/bin/hello"
    SbinInit,  \* "/sbin/init"
    Machines   \* upper: the flags of the entries above user_page_table;
               \* efer: the bits of EFER, the firmware's included

ASSUME SyscallAssumption ==
    /\ MaxFds \in Nat /\ MaxFds > 3
    /\ {Hello, SbinInit} \subseteq Paths /\ "none" \notin Paths
    /\ Machines \subseteq [upper : SUBSET {"P", "W", "U"}, efer : SUBSET {"LME", "NXE", "SCE"}]

(* What mantle_rootfs_open and mantle_elf_load make of a path:               *)
(*   missing    no such entry in the root filesystem                         *)
(*   badHeader  refused before the window is touched                         *)
(*   badFirst   refused at its first segment, the window is cleared          *)
(*   badTail    refused after an executable segment was loaded               *)
(*   overlap    accepted, but shared pages leave the entry or the stack      *)
(*              without the permission it needs                              *)
(*   good       accepted and runnable                                        *)
Kind == {"missing", "badHeader", "badFirst", "badTail", "overlap", "good"}
BadPointer == "badPointer"
Fds == 3 .. MaxFds - 1
Free == "free"
Fail == -1

VARIABLES
    machine,          \* how boot.S and the firmware set up paging and SYSCALL
    rootfs,           \* the kind of each path
    phase,            \* "boot", "user", "halted" or "reset"
    program,          \* the program last entered
    window,           \* what the user window holds
    descriptors,      \* the path each descriptor is open on, or Free
    process,          \* state and exit_code of the current process
    hello_finished,
    user_marker_seen,
    request,          \* the last system call
    rax,              \* and its result
    said,             \* the kernel messages of the last step
    seen              \* all kernel messages so far

kernel == <<program, window, descriptors, process, hello_finished>>
vars == <<machine, rootfs, phase, program, window, descriptors, process, hello_finished,
          user_marker_seen, request, rax, said, seen>>

-----------------------------------------------------------------------------

LoadOk(path) == rootfs[path] \in {"good", "overlap"}

(* The window after a load of the path was attempted. *)
WindowAfter(path) ==
    CASE rootfs[path] \in {"missing", "badHeader"} -> window
      [] rootfs[path] = "badFirst" -> "cleared"
      [] rootfs[path] = "badTail" -> "mixed"
      [] rootfs[path] = "overlap" -> "unrunnable"
      [] rootfs[path] = "good" -> "program"

Say(m) == said' = m /\ seen' = seen \cup m

Init ==
    /\ machine \in Machines
    /\ rootfs \in [Paths -> Kind]
    /\ phase = "boot"
    /\ program = "none"
    /\ window = "cleared"
    /\ descriptors = [fd \in Fds |-> Free]
    /\ process = [state |-> "READY", exit_code |-> 0]
    /\ hello_finished = FALSE
    /\ user_marker_seen = FALSE
    /\ request = [op |-> "none", arg |-> "none"]
    /\ rax = 0
    /\ said = {} /\ seen = {}

StopReasons == {"ELF_ERROR", "ROOTFS_ERROR", "USERSPACE_EXIT", "EXCEPTION"}

(* The processor lets ring 3 fetch only where every level of the walk has the *)
(* U flag, and executes SYSCALL only under EFER.SCE.                          *)
Ring3Admitted == "U" \in machine.upper /\ "SCE" \in machine.efer

(* Without EFER.NXE the NX bit of a page is reserved, and touching a page     *)
(* that has it faults.                                                        *)
StackTouchFaults == "NXE" \notin machine.efer

BootHalts(m) == Say(m) /\ phase' = "halted" /\ UNCHANGED program

(* mantle_kernel_main: the first program is loaded and, when the diagnostics  *)
(* of its pages pass, entered.  The diagnostics store to the stack page,      *)
(* which has NX unless a segment was laid over it.                            *)
Boot ==
    /\ phase = "boot"
    /\ window' = WindowAfter(Hello)
    /\ \/ ~LoadOk(Hello) /\ BootHalts({"ELF_ERROR"})
       \/ LoadOk(Hello) /\ StackTouchFaults /\ BootHalts({"ELF_OK", "EXCEPTION"})
       \/ LoadOk(Hello) /\ window' = "unrunnable" /\ BootHalts({"ELF_OK", "ROOTFS_ERROR"})
       \/ /\ LoadOk(Hello) /\ window' = "program" /\ ~StackTouchFaults
          /\ Say({"ELF_OK"})
          /\ phase' = "user"
          /\ program' = Hello
    /\ UNCHANGED <<machine, rootfs, descriptors, process, hello_finished, user_marker_seen,
                   request, rax>>

-----------------------------------------------------------------------------
(* mantle_syscall_dispatch.                                                  *)
UserRuns == phase = "user" /\ Ring3Admitted /\ window \in {"program", "mixed"}

EntryMarker == IF user_marker_seen THEN {} ELSE {"USERSPACE_OK"}

(* The first call from user mode is marked on the console. *)
Dispatch(op, arg) ==
    /\ UserRuns
    /\ request' = [op |-> op, arg |-> arg]
    /\ user_marker_seen' = TRUE
    /\ UNCHANGED <<machine, rootfs>>

Returns(r) == rax' = r /\ phase' = phase /\ Say(EntryMarker)

(* What the calls that leave the kernel's own state alone may return; counts  *)
(* of bytes are all written 1.  chdir accepts "/" only, where it already is.  *)
Results ==
    [read |-> {1, Fail}, write |-> {0, 1, Fail}, getpid |-> {1}, chdir |-> {0, Fail},
     getcwd |-> {1, Fail}, readdir |-> {1, Fail}, uname |-> {1, Fail}, other |-> {Fail}]

Simple(op, r) ==
    /\ Dispatch(op, "none")
    /\ r \in Results[op]
    /\ Returns(r)
    /\ UNCHANGED kernel

FreeSlots == {fd \in Fds : descriptors[fd] = Free}

OpenSlot_first == 3

(* The lowest free descriptor. *)
OpenSlot == Min(FreeSlots)

SysOpen(path) ==
    /\ Dispatch("open", path)
    /\ IF path # BadPointer /\ FreeSlots # {} /\ rootfs[path] # "missing"
       THEN /\ Returns(OpenSlot)
            /\ descriptors' = [descriptors EXCEPT ![OpenSlot] = path]
       ELSE Returns(Fail) /\ UNCHANGED descriptors
    /\ UNCHANGED <<program, window, process, hello_finished>>

SysClose(fd) ==
    /\ Dispatch("close", fd)
    /\ IF fd \in Fds /\ descriptors[fd] # Free
       THEN Returns(0) /\ descriptors' = [descriptors EXCEPT ![fd] = Free]
       ELSE Returns(Fail) /\ UNCHANGED descriptors
    /\ UNCHANGED <<program, window, process, hello_finished>>

(* syscall_exec: descriptors and process survive, the window may not. *)
SysExec(path) ==
    /\ Dispatch("exec", path)
    /\ IF path = BadPointer THEN Returns(Fail) /\ UNCHANGED <<program, window>>
       ELSE /\ window' = WindowAfter(path)
            /\ IF LoadOk(path) THEN Returns(0) /\ program' = path
                               ELSE Returns(Fail) /\ UNCHANGED program
    /\ UNCHANGED <<descriptors, process, hello_finished>>

HandOver_always == LoadOk(SbinInit)
HandOver_later == hello_finished /\ LoadOk(SbinInit)

(* The first exit starts /sbin/init instead of ending the session. *)
HandOver == ~hello_finished /\ LoadOk(SbinInit)

Exited_ready(code) == [state |-> "READY", exit_code |-> code]

Exited(code) == [state |-> "EXITED", exit_code |-> code]

SysExit(code) ==
    /\ Dispatch("exit", code)
    /\ window' = IF hello_finished THEN window ELSE WindowAfter(SbinInit)
    /\ IF HandOver
       THEN /\ hello_finished' = TRUE
            /\ process' = [state |-> "READY", exit_code |-> code]
            /\ program' = SbinInit
            /\ Returns(Fail)
       ELSE /\ process' = Exited(code)
            /\ phase' = "halted"
            /\ Say(EntryMarker \cup {"USERSPACE_EXIT"})
            /\ UNCHANGED <<hello_finished, program, rax>>
    /\ UNCHANGED descriptors

SysReboot ==
    /\ Dispatch("reboot", "none")
    /\ phase' = "reset"
    /\ Say(EntryMarker)
    /\ UNCHANGED <<kernel, rax>>

(* mantle_exception_dispatch: a fetch from a window that holds no executable  *)
(* page, or from one whose pages are not the program's, ends everything, and  *)
(* so does any fetch that the processor does not admit to ring 3.             *)
Fault ==
    /\ phase = "user"
    /\ window # "program" \/ ~Ring3Admitted
    /\ phase' = "halted"
    /\ Say({"EXCEPTION"})
    /\ UNCHANGED <<machine, rootfs, kernel, user_marker_seen, request, rax>>

Next ==
    \/ Boot \/ Fault \/ SysReboot
    \/ \E op \in DOMAIN Results, r \in {Fail, 0, 1} : Simple(op, r)
    \/ \E path \in Paths \cup {BadPointer} : SysOpen(path) \/ SysExec(path)
    \/ \E fd \in 0 .. MaxFds : SysClose(fd)
    \/ \E code \in {0, 1} : SysExit(code)

Spec == Init /\ [][Next]_vars
-----------------------------------------------------------------------------
(* Types of the kernel's session state.                                      *)
TypeOK ==
    /\ rootfs \in [Paths -> Kind]
    /\ phase \in {"boot", "user", "halted", "reset"}
    /\ program \in Paths \cup {"none"}
    /\ window \in {"cleared", "mixed", "unrunnable", "program"}
    /\ descriptors \in [Fds -> Paths \cup {Free}]
    /\ process \in [state : {"READY", "EXITED"}, exit_code : Int]
    /\ hello_finished \in BOOLEAN /\ user_marker_seen \in BOOLEAN
    /\ rax \in {Fail, 0, 1} \cup Fds
    /\ said \subseteq seen

(* A descriptor never changes under its owner: between the open that returned *)
(* it and the close that names it, no other open, exec or exit, failed or     *)
(* not, redirects or frees it, and open never hands out one still in use.     *)
DescriptorsByRequest ==
    [][\A fd \in Fds : descriptors'[fd] # descriptors[fd] =>
         \/ /\ request'.op = "open" /\ rax' = fd
            /\ descriptors[fd] = Free /\ descriptors'[fd] = request'.arg
         \/ /\ request' = [op |-> "close", arg |-> fd] /\ rax' = 0
            /\ descriptors[fd] # Free /\ descriptors'[fd] = Free]_vars

(* The machine stops for one reason only and says which: boot errors, the     *)
(* last exit and exceptions each halt with their own message, no other path   *)
(* of kernel_main or of the dispatcher prints one, and the process is EXITED  *)
(* exactly when the console says so.                                          *)
StopExplained ==
    /\ Cardinality(seen \cap StopReasons) = IF phase = "halted" THEN 1 ELSE 0
    /\ process.state = "EXITED" <=> "USERSPACE_EXIT" \in seen

(* "Une erreur renvoie une valeur negative": an exec that returns an error    *)
(* returns it to the program that called it, which is still there to see it.  *)
ExecErrorReachesCaller ==
    phase = "user" /\ request.op = "exec" /\ rax = Fail => window = "program"
=============================================================================
