--------------------------- MODULE SyscallProofs ---------------------------
(* Machine-checked proofs about the system-call dispatcher, for any programs, *)
(* any files and any number of descriptors, and about the session of the      *)
(* four programs of userspace/ that runs on it.                               *)
EXTENDS ConsoleSession, WellFoundedInduction, FiniteSetTheorems, TLAPS

(* Every non-empty set of naturals has a least element. *)
LEMMA LeastDescriptor ==
    ASSUME NEW S \in SUBSET Nat, S # {}
    PROVE  \E x \in S : \A y \in S : x =< y
<1>1. PICK x \in S : \A y \in S : ~(<<y, x>> \in OpToRel(<, Nat))
  BY NatLessThanWellFounded, WFMin, Zenon
<1>2. ASSUME NEW y \in S PROVE ~(y < x)
  <2>1. ~(<<y, x>> \in OpToRel(<, Nat))
    BY <1>1
  <2> QED
    BY <2>1, SMT DEF OpToRel
<1> QED
  BY <1>2, SMT

(* The loop of syscall_open ends at a free descriptor when there is one. *)
LEMMA OpenSlotFree ==
    ASSUME FreeSlots # {}
    PROVE  OpenSlot \in FreeSlots
<1>1. FreeSlots \in SUBSET Nat
  BY SyscallAssumption, SMT DEF FreeSlots, Fds
<1>2. PICK x \in FreeSlots : \A y \in FreeSlots : x =< y
  BY <1>1, LeastDescriptor
<1> QED
  BY <1>2, Zenon DEF OpenSlot, Min

(* What the window may hold after a load. *)
LEMMA WindowTyped ==
    ASSUME TypeOK, NEW path \in Paths
    PROVE  WindowAfter(path) \in {"cleared", "mixed", "unrunnable", "program"}
<1>1. rootfs[path] \in Kind
  BY DEF TypeOK
<1> QED
  BY <1>1 DEF WindowAfter, Kind, TypeOK
-----------------------------------------------------------------------------
(* Until the machine halts no reason to stop has been printed; then one has.  *)
OneReason ==
    /\ phase # "halted" => seen \cap StopReasons = {}
    /\ phase = "halted" => \E r \in StopReasons : seen \cap StopReasons = {r}
    /\ process.state = "EXITED" <=> "USERSPACE_EXIT" \in seen

KernelInv == TypeOK /\ OneReason

(* The initial state. *)
LEMMA KernelInvInit == Init => KernelInv
<1> SUFFICES ASSUME Init PROVE KernelInv
  OBVIOUS
<1>1. hello_finished \in BOOLEAN /\ user_marker_seen \in BOOLEAN
  BY Zenon DEF Init
<1>2. TypeOK
  BY <1>1, SyscallAssumption DEF Init, TypeOK, Fds, Free, Fail
<1>3. OneReason
  BY DEF Init, OneReason
<1> QED
  BY <1>2, <1>3 DEF KernelInv

(* A call that returns to the program says nothing but the entry marker. *)
LEMMA QuietStep ==
    ASSUME OneReason, Say(EntryMarker), phase # "halted", phase' # "halted", UNCHANGED process
    PROVE  OneReason'
  BY DEF OneReason, Say, EntryMarker, StopReasons

(* Every step of the kernel or of any program keeps types and stop reasons. *)
LEMMA KernelInvStep == KernelInv /\ [Next]_vars => KernelInv'
<1> SUFFICES ASSUME KernelInv, [Next]_vars
             PROVE  KernelInv'
  OBVIOUS
<1>0. TypeOK /\ OneReason
  BY DEF KernelInv
<1>1. CASE Boot
  <2>1. window' \in {"cleared", "mixed", "unrunnable", "program"}
    BY <1>0, <1>1, WindowTyped, SyscallAssumption DEF Boot
  <2>2. said' \subseteq seen' /\ phase' \in {"user", "halted"} /\ program' \in {program, Hello}
    BY <1>1 DEF Boot, BootHalts, Say
  <2>3. TypeOK'
    BY <1>0, <1>1, <2>1, <2>2, SyscallAssumption DEF Boot, TypeOK
  <2>4. seen \cap StopReasons = {} /\ UNCHANGED process
    BY <1>0, <1>1 DEF Boot, OneReason
  <2>5. process.state # "EXITED"
    BY <1>0, <2>4 DEF OneReason, StopReasons
  <2>6. ASSUME BootHalts({"ELF_ERROR"}) \/ BootHalts({"ELF_OK", "EXCEPTION"})
                 \/ BootHalts({"ELF_OK", "ROOTFS_ERROR"})
        PROVE  OneReason'
    BY <2>4, <2>5, <2>6 DEF BootHalts, Say, OneReason, StopReasons
  <2>7. ASSUME Say({"ELF_OK"}), phase' = "user"
        PROVE  OneReason'
    BY <2>4, <2>5, <2>7 DEF Say, OneReason, StopReasons
  <2> QED
    BY <1>1, <2>3, <2>6, <2>7 DEF Boot, KernelInv
<1>2. CASE Fault
  <2>1. TypeOK'
    BY <1>0, <1>2 DEF Fault, TypeOK, kernel, Say
  <2>2. OneReason'
    BY <1>0, <1>2 DEF Fault, OneReason, kernel, Say, StopReasons
  <2> QED
    BY <2>1, <2>2 DEF KernelInv
<1>3. CASE SysReboot
  <2>1. TypeOK'
    BY <1>0, <1>3 DEF SysReboot, Dispatch, TypeOK, kernel, Say
  <2>2. OneReason'
    BY <1>0, <1>3, QuietStep DEF SysReboot, Dispatch, UserRuns, kernel
  <2> QED
    BY <2>1, <2>2 DEF KernelInv
<1>4. ASSUME NEW op \in DOMAIN Results, NEW r \in {Fail, 0, 1}, Simple(op, r)
      PROVE  KernelInv'
  <2>1. TypeOK'
    BY <1>0, <1>4 DEF Simple, Dispatch, Returns, TypeOK, kernel, Say
  <2>2. OneReason'
    BY <1>0, <1>4, QuietStep DEF Simple, Dispatch, Returns, UserRuns, kernel
  <2> QED
    BY <2>1, <2>2 DEF KernelInv
<1>5. ASSUME NEW path \in Paths \cup {BadPointer}, SysOpen(path)
      PROVE  KernelInv'
  <2>1. CASE path # BadPointer /\ FreeSlots # {} /\ rootfs[path] # "missing"
    <3>1. OpenSlot \in Fds /\ path \in Paths
      BY <2>1, OpenSlotFree DEF FreeSlots
    <3>2. descriptors' = [descriptors EXCEPT ![OpenSlot] = path] /\ Returns(OpenSlot)
      BY <1>5, <2>1 DEF SysOpen
    <3>3. descriptors' \in [Fds -> Paths \cup {Free}]
      BY <1>0, <3>1, <3>2 DEF TypeOK
    <3> QED
      BY <1>0, <1>5, <3>1, <3>2, <3>3, QuietStep
         DEF SysOpen, Dispatch, UserRuns, Returns, TypeOK, Say, KernelInv
  <2>2. CASE ~(path # BadPointer /\ FreeSlots # {} /\ rootfs[path] # "missing")
    <3>1. Returns(Fail) /\ UNCHANGED descriptors
      BY <1>5, <2>2 DEF SysOpen
    <3> QED
      BY <1>0, <1>5, <3>1, QuietStep
         DEF SysOpen, Dispatch, UserRuns, Returns, TypeOK, Say, KernelInv
  <2> QED
    BY <2>1, <2>2
<1>6. ASSUME NEW fd \in 0 .. MaxFds, SysClose(fd)
      PROVE  KernelInv'
  <2>1. descriptors' \in [Fds -> Paths \cup {Free}] /\ rax' \in {Fail, 0}
    BY <1>0, <1>6 DEF SysClose, TypeOK, Returns
  <2>2. Say(EntryMarker) /\ UNCHANGED phase
    BY <1>6 DEF SysClose, Returns
  <2> QED
    BY <1>0, <1>6, <2>1, <2>2, QuietStep
       DEF SysClose, Dispatch, UserRuns, TypeOK, Say, KernelInv
<1>7. ASSUME NEW path \in Paths \cup {BadPointer}, SysExec(path)
      PROVE  KernelInv'
  <2>1. /\ window' \in {"cleared", "mixed", "unrunnable", "program"}
        /\ program' \in Paths \cup {"none"} /\ rax' \in {Fail, 0}
    <3>1. CASE path = BadPointer
      BY <1>0, <1>7, <3>1 DEF SysExec, TypeOK, Returns
    <3>2. CASE path # BadPointer
      BY <1>0, <1>7, <3>2, WindowTyped DEF SysExec, TypeOK, Returns
    <3> QED
      BY <3>1, <3>2
  <2>2. Say(EntryMarker) /\ UNCHANGED phase
    BY <1>7 DEF SysExec, Returns
  <2> QED
    BY <1>0, <1>7, <2>1, <2>2, QuietStep
       DEF SysExec, Dispatch, UserRuns, TypeOK, Say, KernelInv
<1>8. ASSUME NEW code \in {0, 1}, SysExit(code)
      PROVE  KernelInv'
  <2>1. window' \in {"cleared", "mixed", "unrunnable", "program"}
    BY <1>0, <1>8, WindowTyped, SyscallAssumption DEF SysExit, TypeOK
  <2>2. phase = "user" /\ user_marker_seen' = TRUE /\ UNCHANGED <<rootfs, descriptors>>
    BY <1>8 DEF SysExit, Dispatch, UserRuns
  <2>3. CASE HandOver
    <3>1. /\ hello_finished' = TRUE /\ program' = SbinInit /\ Returns(Fail)
          /\ process' = [state |-> "READY", exit_code |-> code]
      BY <1>8, <2>3 DEF SysExit
    <3>2. TypeOK'
      BY <1>0, <2>1, <2>2, <3>1, SyscallAssumption DEF TypeOK, Returns, Say
    <3>3. process.state # "EXITED"
      BY <1>0, <2>2 DEF OneReason, StopReasons
    <3>4. OneReason'
      BY <1>0, <2>2, <3>1, <3>3 DEF OneReason, Returns, Say, EntryMarker, StopReasons
    <3> QED
      BY <3>2, <3>4 DEF KernelInv
  <2>4. CASE ~HandOver
    <3>1. /\ process' = Exited(code) /\ phase' = "halted"
          /\ Say(EntryMarker \cup {"USERSPACE_EXIT"})
          /\ UNCHANGED <<hello_finished, program, rax>>
      BY <1>8, <2>4 DEF SysExit
    <3>2. TypeOK'
      BY <1>0, <2>1, <2>2, <3>1 DEF TypeOK, Say, Exited
    <3>3. OneReason'
      BY <1>0, <2>2, <3>1 DEF OneReason, Say, EntryMarker, StopReasons, Exited
    <3> QED
      BY <3>2, <3>3 DEF KernelInv
  <2> QED
    BY <2>3, <2>4
<1>9. CASE UNCHANGED vars
  BY <1>0, <1>9 DEF vars, KernelInv, TypeOK, OneReason
<1> QED
  BY <1>1, <1>2, <1>3, <1>4, <1>5, <1>6, <1>7, <1>8, <1>9 DEF Next
LEMMA KernelInvAlways == Spec => []KernelInv
  BY KernelInvInit, KernelInvStep, PTL DEF Spec

(* One reason found is one reason counted. *)
LEMMA ReasonsCounted == KernelInv => StopExplained
<1> SUFFICES ASSUME KernelInv PROVE StopExplained
  OBVIOUS
<1>1. CASE phase = "halted"
  <2>1. PICK r \in StopReasons : seen \cap StopReasons = {r}
    BY <1>1 DEF KernelInv, OneReason
  <2> QED
    BY <1>1, <2>1, FS_Singleton DEF KernelInv, OneReason, StopExplained
<1>2. CASE phase # "halted"
  BY <1>2, FS_EmptySet DEF KernelInv, OneReason, StopExplained
<1> QED
  BY <1>1, <1>2

(* Only an open or a close that names it touches a descriptor. *)
LEMMA DescriptorStep ==
    ASSUME TypeOK, [Next]_vars, NEW fd \in Fds, descriptors'[fd] # descriptors[fd]
    PROVE  \/ /\ request'.op = "open" /\ rax' = fd
              /\ descriptors[fd] = Free /\ descriptors'[fd] = request'.arg
           \/ /\ request' = [op |-> "close", arg |-> fd] /\ rax' = 0
              /\ descriptors[fd] # Free /\ descriptors'[fd] = Free
<1>1. ASSUME UNCHANGED descriptors PROVE FALSE
  BY <1>1
<1>2. ASSUME NEW path \in Paths \cup {BadPointer}, SysOpen(path)
      PROVE  /\ request'.op = "open" /\ rax' = fd
             /\ descriptors[fd] = Free /\ descriptors'[fd] = request'.arg
  <2>1. FreeSlots # {} /\ Returns(OpenSlot) /\ descriptors' = [descriptors EXCEPT ![OpenSlot] = path]
    BY <1>1, <1>2 DEF SysOpen
  <2>2. OpenSlot \in Fds /\ descriptors[OpenSlot] = Free
    BY <2>1, OpenSlotFree DEF FreeSlots
  <2>3. fd = OpenSlot
    BY <2>1, <2>2 DEF TypeOK
  <2> QED
    BY <1>2, <2>1, <2>2, <2>3 DEF SysOpen, Dispatch, Returns, TypeOK
<1>3. ASSUME NEW f \in 0 .. MaxFds, SysClose(f)
      PROVE  /\ request' = [op |-> "close", arg |-> fd] /\ rax' = 0
             /\ descriptors[fd] # Free /\ descriptors'[fd] = Free
  <2>1. f \in Fds /\ descriptors[f] # Free /\ Returns(0) /\ descriptors' = [descriptors EXCEPT ![f] = Free]
    BY <1>1, <1>3 DEF SysClose
  <2>2. fd = f
    BY <2>1 DEF TypeOK
  <2> QED
    BY <1>3, <2>1, <2>2 DEF SysClose, Dispatch, Returns, TypeOK
<1>4. ASSUME \/ Boot \/ Fault \/ SysReboot \/ UNCHANGED vars
             \/ \E op \in DOMAIN Results, r \in {Fail, 0, 1} : Simple(op, r)
             \/ \E path \in Paths \cup {BadPointer} : SysExec(path)
             \/ \E code \in {0, 1} : SysExit(code)
      PROVE  FALSE
  BY <1>1, <1>4 DEF Boot, Fault, SysReboot, vars, Simple, SysExec, SysExit, kernel
<1> QED
  BY <1>2, <1>3, <1>4 DEF Next
-----------------------------------------------------------------------------
(* For any programs: types, ... *)
THEOREM KernelTypes == Spec => []TypeOK
<1>1. KernelInv => TypeOK
  BY DEF KernelInv
<1> QED
  BY <1>1, KernelInvAlways, PTL

(* ... the machine stops for one reason and says which, and EXITED is the     *)
(* state of a process exactly when the console says so, ...                   *)
THEOREM StopExplainedAlways == Spec => []StopExplained
  BY KernelInvAlways, ReasonsCounted, PTL

(* ... and descriptors change only by the open that returns them and the      *)
(* close that names them, whatever exec, exit and failures come between.      *)
THEOREM DescriptorsByRequestAlways == Spec => DescriptorsByRequest
<1> DEFINE ByRequest ==
      \A fd \in Fds : descriptors'[fd] # descriptors[fd] =>
         \/ /\ request'.op = "open" /\ rax' = fd
            /\ descriptors[fd] = Free /\ descriptors'[fd] = request'.arg
         \/ /\ request' = [op |-> "close", arg |-> fd] /\ rax' = 0
            /\ descriptors[fd] # Free /\ descriptors'[fd] = Free
<1>1. KernelInv /\ [Next]_vars => [ByRequest]_vars
  BY DescriptorStep DEF KernelInv
<1> QED
  BY <1>1, KernelInvAlways, PTL DEF Spec, DescriptorsByRequest
-----------------------------------------------------------------------------
(* The four files have four names. *)
LEMMA FourPrograms ==
    /\ Hello # SbinInit /\ Hello # Shell /\ Hello # Mantle
    /\ SbinInit # Shell /\ SbinInit # Mantle /\ Shell # Mantle
<1>1. IsFiniteSet({}) /\ Cardinality({}) = 0
  BY FS_EmptySet
<1>2. IsFiniteSet({Hello}) /\ Cardinality({Hello}) = 1
  BY FS_Singleton
<1>3. /\ IsFiniteSet({Hello} \cup {SbinInit})
      /\ Cardinality({Hello} \cup {SbinInit}) = IF SbinInit \in {Hello} THEN 1 ELSE 2
  BY <1>2, FS_AddElement
<1>4. {Hello} \cup {SbinInit} = {Hello, SbinInit}
  OBVIOUS
<1>5. /\ IsFiniteSet({Hello, SbinInit} \cup {Shell})
      /\ Cardinality({Hello, SbinInit} \cup {Shell})
            = IF Shell \in {Hello, SbinInit} THEN Cardinality({Hello, SbinInit})
                                            ELSE Cardinality({Hello, SbinInit}) + 1
  BY <1>3, <1>4, FS_AddElement
<1>6. {Hello, SbinInit} \cup {Shell} = {Hello, SbinInit, Shell}
  OBVIOUS
<1>7. Cardinality({Hello, SbinInit, Shell} \cup {Mantle})
        = IF Mantle \in {Hello, SbinInit, Shell} THEN Cardinality({Hello, SbinInit, Shell})
                                               ELSE Cardinality({Hello, SbinInit, Shell}) + 1
  BY <1>5, <1>6, FS_AddElement
<1>8. {Hello, SbinInit, Shell} \cup {Mantle} = Paths
  BY SessionAssumption
<1>9. Cardinality(Paths) = 4
  BY SessionAssumption
<1> QED
  BY <1>3, <1>4, <1>5, <1>6, <1>7, <1>8, <1>9

(* Each step of a program is a system call of the kernel, or none at all. *)
LEMMA SessionStepIsKernelStep == [SessionNext]_svars => [Next]_vars
<1> SUFFICES ASSUME SessionNext PROVE [Next]_vars
  BY DEF svars
<1> USE DEF Next
<1>1. ASSUME NEW op \in DOMAIN Results, NEW r \in {Fail, 0, 1}, Simple(op, r) PROVE Next
  BY <1>1
<1>2. ASSUME NEW path \in Paths, SysExec(path) PROVE Next
  BY <1>2
<1>3. ASSUME NEW code \in {0, 1}, SysExit(code) PROVE Next
  BY <1>3
<1>4. {"write", "read", "getcwd", "uname", "readdir", "chdir"} \subseteq DOMAIN Results
  BY DEF Results
<1> HIDE DEF Next
<1>5. CASE SessionBoot \/ SessionFault
  BY <1>5 DEF SessionBoot, SessionFault, Next
<1>6. CASE Astray \/ OtherProgram
  BY <1>6 DEF Astray, OtherProgram
<1>7. CASE (\E p \in {Hello, Mantle} : Greet(p)) \/ InitStarted \/ InitFailed
             \/ ShellStarted \/ ShellPrompt \/ ShellOutput
  BY <1>1, <1>4, <1>7 DEF Greet, InitStarted, InitFailed, ShellStarted, ShellPrompt, ShellOutput, Call
<1>8. CASE MainReturns \/ ExecuteExit
  BY <1>3, <1>8 DEF MainReturns, ExecuteExit, ExitWith
<1>9. CASE InitExec
  BY <1>2, <1>9, SessionAssumption DEF InitExec, Execs
<1>10. CASE ExecuteProgram
  <2>1. \A c \in DOMAIN Runs : Runs[c] \in Paths
    BY SyscallAssumption, SessionAssumption DEF Runs
  <2> QED
    BY <1>2, <1>10, <2>1 DEF ExecuteProgram, Execs
<1>11. CASE ExecuteQuery
  <2>1. \A c \in DOMAIN Query : Query[c].op \in DOMAIN Results /\ Query[c].r \subseteq {Fail, 0, 1}
    BY <1>4 DEF Query
  <2> QED
    BY <1>1, <1>11, <2>1 DEF ExecuteQuery, Call
<1>12. CASE ExecuteEmpty \/ ExecuteMessage
  BY <1>12 DEF ExecuteEmpty, ExecuteMessage, NoCall
<1>13. CASE ShellRead
  BY <1>1, <1>4, <1>13 DEF ShellRead
<1> QED
  BY <1>5, <1>6, <1>7, <1>8, <1>9, <1>10, <1>11, <1>12, <1>13 DEF SessionNext, CpuStep

(* A session of the four programs is a behaviour of the dispatcher, so that   *)
(* what holds of any programs holds of it.                                    *)
THEOREM SessionImplementsKernel == SessionSpec => Spec
<1>1. SessionInit => Init
  BY DEF SessionInit
<1> QED
  BY <1>1, SessionStepIsKernelStep, PTL DEF SessionSpec, Spec

(* Stop reasons and descriptors in a session of the four programs. *)
COROLLARY SessionKeepsPromises == SessionSpec => []StopExplained /\ DescriptorsByRequest
  BY SessionImplementsKernel, StopExplainedAlways, DescriptorsByRequestAlways, PTL

(* The programs stay within their control states and the line within the      *)
(* commands, for every set of lines typed.                                    *)
THEOREM SessionTypes == SessionSpec => []SessionTypeOK
<1> DEFINE Upc == {"none", "any", "stopped", "main", "return", "exec", "failed", "prompt", "read",
                   "execute", "output"}
           Programs == upc \in Upc /\ line \in Command
<1>1. SessionInit => Programs
  BY DEF SessionInit, Command
<1>2. Programs /\ [SessionNext]_svars => Programs'
  <2> SUFFICES ASSUME Programs, [SessionNext]_svars PROVE Programs'
    OBVIOUS
  <2>1. CASE SessionBoot \/ SessionFault \/ Astray \/ OtherProgram
    BY <2>1 DEF SessionBoot, SessionFault, Astray, OtherProgram, Entered
  <2>2. CASE (\E p \in {Hello, Mantle} : Greet(p)) \/ InitStarted \/ InitFailed
               \/ ShellStarted \/ ShellPrompt \/ ShellOutput
    BY <2>2 DEF Greet, InitStarted, InitFailed, ShellStarted, ShellPrompt, ShellOutput, Call
  <2>3. CASE MainReturns \/ ExecuteExit
    BY <2>3 DEF MainReturns, ExecuteExit, ExitWith, Entered
  <2>4. CASE InitExec \/ ExecuteProgram
    BY <2>4 DEF InitExec, ExecuteProgram, Execs
  <2>5. CASE ExecuteQuery
    BY <2>5 DEF ExecuteQuery, Call
  <2>6. CASE ExecuteEmpty \/ ExecuteMessage
    BY <2>6 DEF ExecuteEmpty, ExecuteMessage, NoCall
  <2>7. CASE ShellRead
    BY <2>7, SessionAssumption DEF ShellRead
  <2>8. CASE UNCHANGED svars
    BY <2>8 DEF svars
  <2> QED
    BY <2>1, <2>2, <2>3, <2>4, <2>5, <2>6, <2>7, <2>8 DEF SessionNext, CpuStep
<1>3. TypeOK /\ Programs => SessionTypeOK
  BY DEF SessionTypeOK
<1> QED
  BY <1>1, <1>2, <1>3, SessionImplementsKernel, KernelTypes, PTL DEF SessionSpec
-----------------------------------------------------------------------------
(* Init, the shell and mantle run only after the first exit. *)
AfterHello == program \in {SbinInit, Shell, Mantle} => hello_finished

(* The shell has prompted: it goes on, or a command runs in its place, and    *)
(* the next exit is not the first.                                            *)
ShellHadItsTurn ==
    hello_finished /\ (program \in {Hello, Mantle} \/ (program = Shell /\ upc # "main"))

OnTrack == window # "mixed" /\ upc # "any"

(* Until a file replaces the code that called exec, both are inductive. *)
LEMMA TurnStep ==
    ASSUME OnTrack, AfterHello, [SessionNext]_svars
    PROVE  AfterHello' /\ (ShellHadItsTurn => ShellHadItsTurn')
<1>1. CASE SessionBoot
  <2>1. program' \in {program, Hello} /\ hello_finished' = hello_finished /\ upc' \in {"stopped", "main"}
    BY <1>1 DEF SessionBoot, Boot, BootHalts, Entered
  <2>2. upc' = "main" => program' = Hello
    BY <1>1 DEF SessionBoot, Boot, BootHalts, Entered
  <2> QED
    BY <2>1, <2>2, FourPrograms DEF AfterHello, ShellHadItsTurn
<1>2. CASE SessionFault
  BY <1>2 DEF SessionFault, Fault, kernel, AfterHello, ShellHadItsTurn
<1>3. CASE Astray \/ OtherProgram
  BY <1>3 DEF Astray, OtherProgram, OnTrack
<1>4. ASSUME NEW op, NEW r, NEW text, NEW next, Call(op, r, text, next), next # "main"
      PROVE  AfterHello' /\ (ShellHadItsTurn => ShellHadItsTurn')
  BY <1>4 DEF Call, Simple, kernel, AfterHello, ShellHadItsTurn
<1>5. CASE (\E p \in {Hello, Mantle} : Greet(p)) \/ InitStarted \/ InitFailed
             \/ ShellStarted \/ ShellPrompt \/ ShellOutput
  BY <1>4, <1>5 DEF Greet, InitStarted, InitFailed, ShellStarted, ShellPrompt, ShellOutput
<1>6. ASSUME NEW code, ExitWith(code)
      PROVE  AfterHello' /\ (ShellHadItsTurn => ShellHadItsTurn')
  <2>1. CASE HandOver
    BY <1>6, <2>1 DEF ExitWith, SysExit, HandOver, AfterHello, ShellHadItsTurn
  <2>2. CASE ~HandOver
    <3>1. UNCHANGED <<hello_finished, program>> /\ upc' = "stopped"
      BY <1>6, <2>2 DEF ExitWith, SysExit, Entered
    <3> QED
      BY <3>1 DEF AfterHello, ShellHadItsTurn
  <2> QED
    BY <2>1, <2>2
<1>7. CASE MainReturns \/ ExecuteExit
  BY <1>6, <1>7 DEF MainReturns, ExecuteExit
<1>8. ASSUME NEW path, NEW failed, Execs(path, failed)
      PROVE  /\ UNCHANGED hello_finished
             /\ \/ program' = path
                \/ program' = program /\ upc' = failed
  <2>1. UNCHANGED hello_finished /\ upc' = IF rax' = 0 THEN "main" ELSE failed
    BY <1>8 DEF Execs, SysExec
  <2>2. program' = path \/ (program' = program /\ rax' = Fail)
    BY <1>8 DEF Execs, SysExec, Returns
  <2>3. Fail # 0
    BY DEF Fail
  <2> QED
    BY <2>1, <2>2, <2>3, Zenon
<1>9. CASE InitExec
  <2>1. program = SbinInit
    BY <1>9 DEF InitExec, At
  <2>2. hello_finished /\ ~ShellHadItsTurn
    BY <2>1, FourPrograms DEF AfterHello, ShellHadItsTurn
  <2> QED
    BY <1>8, <1>9, <2>1, <2>2 DEF InitExec, AfterHello
<1>10. CASE ExecuteProgram
  <2>1. PICK c \in DOMAIN Runs : Executing(c) /\ Execs(Runs[c], "output")
    BY <1>10 DEF ExecuteProgram
  <2>2. program = Shell /\ hello_finished
    BY <2>1 DEF Executing, At, AfterHello
  <2>3. Runs[c] \in {Hello, Mantle}
    BY DEF Runs
  <2>4. /\ UNCHANGED hello_finished
        /\ \/ program' \in {Hello, Mantle}
           \/ program' = Shell /\ upc' = "output"
    BY <1>8, <2>1, <2>2, <2>3, Zenon
  <2> QED
    BY <2>2, <2>4 DEF AfterHello, ShellHadItsTurn
<1>11. CASE ExecuteQuery
  BY <1>4, <1>11 DEF ExecuteQuery
<1>12. CASE ExecuteEmpty \/ ExecuteMessage
  BY <1>12 DEF ExecuteEmpty, ExecuteMessage, NoCall, vars, AfterHello, ShellHadItsTurn
<1>13. CASE ShellRead
  BY <1>13 DEF ShellRead, Simple, kernel, AfterHello, ShellHadItsTurn
<1>14. CASE UNCHANGED svars
  BY <1>14 DEF svars, vars, AfterHello, ShellHadItsTurn
<1> QED
  BY <1>1, <1>2, <1>3, <1>5, <1>7, <1>9, <1>10, <1>11, <1>12, <1>13, <1>14 DEF SessionNext, CpuStep

(* Once the shell prompted, neither hello nor mantle, run in its place,       *)
(* brings init or a second shell back: their exit is not the first one, which *)
(* alone hands over to /sbin/init.                                            *)
THEOREM OneShellAlways == SessionSpec => OneShellPerBoot
<1> DEFINE Later == program \in {SbinInit, Shell} => upc # "main"
<1>1. SessionInit => AfterHello
  BY SyscallAssumption, SessionAssumption DEF SessionInit, Init, AfterHello
<1>2. OnTrack /\ AfterHello /\ [SessionNext]_svars => AfterHello'
  BY TurnStep
<1>3. OnTrack /\ AfterHello /\ ShellHadItsTurn /\ [SessionNext]_svars => ShellHadItsTurn'
  BY TurnStep
<1>4. AfterHello /\ Prompted => ShellHadItsTurn
  BY DEF AfterHello, Prompted, At, ShellHadItsTurn
<1>5. ShellHadItsTurn => Later
  BY FourPrograms DEF ShellHadItsTurn
<1>6. NeverAstray <=> []OnTrack
  BY PTL DEF NeverAstray, OnTrack
<1> QED
  BY <1>1, <1>2, <1>3, <1>4, <1>5, <1>6, PTL DEF SessionSpec, OneShellPerBoot
=============================================================================
