--------------------------- MODULE ConsoleSession ---------------------------
(***************************************************************************)
(* A whole console session: the kernel of Syscall running the four programs *)
(* of userspace/.  Each program is a control state upc and each of its      *)
(* steps is the system call it makes next; output_line's two writes are one *)
(* step.  A program whose pages were cleared under it can only fault, one   *)
(* whose pages were replaced under it may do anything (Astray).  In some     *)
(* sessions, upc = "any", the files are other programs that make any calls.  *)
(***************************************************************************)
EXTENDS Syscall

CONSTANTS
    Shell,     \* "/bin/mantle-shell"
    Mantle,    \* "/bin/mantle"
    Lines      \* what keyboard_read can deliver before Enter

Command == {"", "exit", "pwd", "ls", "uname", "echo", "mantle", "hello", "cd", "other"}

ASSUME SessionAssumption ==
    /\ Paths = {Hello, SbinInit, Shell, Mantle}
    /\ Cardinality(Paths) = 4
    /\ Lines \subseteq Command

VARIABLES
    upc,    \* where the running program is
    line,   \* the shell's line buffer
    out     \* what the last step wrote to the console

svars == <<vars, upc, line, out>>

(* Of the files of other programs, two of every kind and a third suffice. *)
SessionInit ==
    /\ Init /\ line = "" /\ out = ""
    /\ upc = "none" \/ (upc = "any" /\ rootfs[Mantle] = "missing" /\ rootfs[Shell] \in {"missing", "good"})

-----------------------------------------------------------------------------
At(p, label) == phase = "user" /\ window = "program" /\ program = p /\ upc = label

(* A call whose arguments are the program's own buffers, its result, the text *)
(* it puts on the console and where the program goes on.                      *)
Call(op, r, text, next) ==
    /\ Simple(op, r)
    /\ out' = text
    /\ upc' = next
    /\ UNCHANGED line

Entered == IF phase' = "user" THEN "main" ELSE "stopped"

SessionBoot == upc = "none" /\ Boot /\ upc' = Entered /\ out' = "" /\ UNCHANGED line

Greeting == [p \in {Hello, Mantle} |-> IF p = Hello THEN "MantleOS userspace"
                                                    ELSE "MantleOS mantle 0.1"]

(* main of hello.c and of mantle.c. *)
Greet(p) == At(p, "main") /\ Call("write", 1, Greeting[p], "return")

(* _start: what main returns is passed to mantle_exit. *)
ExitWith(code) ==
    /\ SysExit(code)
    /\ upc' = Entered
    /\ out' = ""
    /\ UNCHANGED line

MainReturns == \E p \in Paths : At(p, "return") /\ ExitWith(IF p = SbinInit THEN 1 ELSE 0)

(* An exec either enters main of the new program or comes back with -1. *)
Execs(path, failed) ==
    /\ SysExec(path)
    /\ upc' = IF rax' = 0 THEN "main" ELSE failed
    /\ out' = ""
    /\ UNCHANGED line

-----------------------------------------------------------------------------
(* main of init.c. *)
InitStarted == At(SbinInit, "main") /\ Call("write", 1, "MANTLE_INIT_USER_OK", "exec")
InitExec_noCheck == At(SbinInit, "exec") /\ Execs(Shell, "return")
InitExec == At(SbinInit, "exec") /\ Execs(Shell, "failed")
InitFailed_retry == At(SbinInit, "failed") /\ Call("write", 1, "MANTLE_INIT_SHELL_ERROR", "exec")
InitFailed == At(SbinInit, "failed") /\ Call("write", 1, "MANTLE_INIT_SHELL_ERROR", "return")

-----------------------------------------------------------------------------
(* main and execute_line of mantle-shell.c. *)
ShellStarted == At(Shell, "main") /\ Call("write", 1, "MANTLE_SHELL_CONSOLE_OK", "prompt")
ShellPrompt == At(Shell, "prompt") /\ Call("write", 1, "mantle@mantleos", "read")

(* The read returns when Enter is pressed or the buffer is full. *)
ShellRead ==
    /\ At(Shell, "read")
    /\ Simple("read", 1)
    /\ line' \in Lines
    /\ upc' = "execute"
    /\ out' = ""

Executing(c) == At(Shell, "execute") /\ line = c

NoCall(next) == upc' = next /\ out' = "" /\ UNCHANGED <<vars, line>>

ExecuteEmpty_spins == Executing("") /\ NoCall("execute")

ExecuteEmpty == Executing("") /\ NoCall("prompt")

ExecuteExit == Executing("exit") /\ ExitWith(0)

(* The call a command makes and the results its arguments allow: the listing  *)
(* may not fit the shell's 128 bytes, and only "/" is a directory.            *)
Query == [pwd |-> [op |-> "getcwd", r |-> {1}], uname |-> [op |-> "uname", r |-> {1}],
          ls |-> [op |-> "readdir", r |-> {1, Fail}], cd |-> [op |-> "chdir", r |-> {0, Fail}]]

ExecuteQuery ==
    \E c \in DOMAIN Query : \E r \in Query[c].r :
        /\ Executing(c)
        /\ Call(Query[c].op, r, "", IF c = "cd" /\ r = 0 THEN "prompt" ELSE "output")

Runs == [hello |-> Hello, mantle |-> Mantle]

ExecuteProgram == \E c \in DOMAIN Runs : Executing(c) /\ Execs(Runs[c], "output")

ExecuteMessage == \E c \in {"echo", "other"} : Executing(c) /\ NoCall("output")

ShellOutput == At(Shell, "output") /\ Call("write", 1, "reply", "prompt")

(* The program's code is no longer its own: any call, and maybe another       *)
(* program's entry point, until a fault.                                      *)
Astray ==
    /\ phase = "user" /\ window = "mixed" /\ upc # "any"
    /\ Next
    /\ upc' = IF window' = "program" THEN "main" ELSE upc
    /\ out' = ""
    /\ UNCHANGED line

SessionFault == upc # "any" /\ Fault /\ out' = "" /\ UNCHANGED <<upc, line>>

(* Other programs than those of userspace/. *)
OtherProgram == upc = "any" /\ Next /\ UNCHANGED <<upc, line, out>>

(* Everything the processor does by itself. *)
CpuStep ==
    \/ SessionBoot \/ SessionFault \/ Astray \/ OtherProgram
    \/ \E p \in {Hello, Mantle} : Greet(p)
    \/ MainReturns
    \/ InitStarted \/ InitExec \/ InitFailed
    \/ ShellStarted \/ ShellPrompt \/ ShellOutput
    \/ ExecuteEmpty \/ ExecuteExit \/ ExecuteQuery \/ ExecuteProgram
    \/ ExecuteMessage

SessionNext == CpuStep \/ ShellRead

(* The processor never stops by itself; the person at the keyboard may. *)
SessionSpec == SessionInit /\ [][SessionNext]_svars /\ WF_svars(CpuStep)
-----------------------------------------------------------------------------
Prompted == At(Shell, "read")
NeverAstray == [](window # "mixed" /\ upc # "any")

(* The boot chain hello, init, shell: when the four files are what the loader *)
(* accepts, the shell's marker reaches the console, by way of hello's exit    *)
(* and init's exec.                                                           *)
BootReachesShell ==
    (\A p \in Paths : rootfs[p] = "good") /\ upc # "any" => <>(out = "MANTLE_SHELL_CONSOLE_OK")

(* The same on every machine that lets ring 3 fetch, call and use its stack.  *)
BootReachesShellOnceAdmitted == Ring3Admitted /\ ~StackTouchFaults => BootReachesShell

(* Whatever the root filesystem holds, a boot ends at the shell's prompt or   *)
(* halted with a message: no silent loop, unless a file that fails its load   *)
(* half way replaced the code that called exec.                               *)
BootDecides == NeverAstray => <>(Prompted \/ (phase = "halted" /\ seen \cap StopReasons # {}))

(* A line that was read is answered: the shell comes back to its prompt, or   *)
(* the session ends (exit, or a program that ran in the shell's place).       *)
LineAnswered == NeverAstray => (At(Shell, "execute") ~> (Prompted \/ phase = "halted"))

(* When the shell cannot be found or its header is refused, init survives its *)
(* exec, says so, and ends the session with its status 1.                     *)
InitReportsBadShell ==
    rootfs[Hello] = "good" /\ rootfs[SbinInit] = "good" /\ rootfs[Shell] \in {"missing", "badHeader"}
      /\ Ring3Admitted /\ ~StackTouchFaults /\ upc # "any"
      => /\ <>(out = "MANTLE_INIT_SHELL_ERROR")
         /\ <>(phase = "halted" /\ process = [state |-> "EXITED", exit_code |-> 1])

(* The shell is entered at most once: once it prompted, neither hello nor     *)
(* mantle, run in its place, brings init or a second shell back.              *)
OneShellPerBoot ==
    NeverAstray => [](Prompted => [](program \in {SbinInit, Shell} => upc # "main"))

(* Types: the kernel's, and the programs' control states and commands.        *)
SessionTypeOK ==
    /\ TypeOK
    /\ upc \in {"none", "any", "stopped", "main", "return", "exec", "failed", "prompt", "read", "execute", "output"}
    /\ line \in Command
=============================================================================
