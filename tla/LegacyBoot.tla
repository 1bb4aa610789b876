----------------------------- MODULE LegacyBoot -----------------------------
(***************************************************************************)
(* The Linux-based MantleOS from process 1 of the initial image to the      *)
(* supervised console: mantle-init execs into mantle-root-init and          *)
(* mantle-supervise, which starts the services, runs the boot checks        *)
(* (mantle-shell -c and mantle-script as children it waits for) and then    *)
(* keeps services and session alive.                                        *)
(***************************************************************************)
EXTENDS InitSwitchRoot, Supervisor, ShellPipeline

CONSTANTS
    Scripts,           \* [tree, tokens, admin]: a script as its tree, or as tokens when that is <<>>
    Outcome(_),        \* how mantle-script leaves a script: MantleScript, or any other interpreter
    NoScript           \* no script has been given to it

(* Bound: the commands of the longest line; fairness is stated for each. *)
MaxRunning == 3
ASSUME LinesAssumption == \A l \in Lines : Len(Parse(l).cmds) <= MaxRunning

VARIABLES
    check,      \* which check is under way: "shell", then "script", then "ended"
    script,     \* the script mantle-script was given
    ran         \* how it left the interpreter

cvars == <<check, script, ran>>
vars == <<ivars, svars, pvars, cvars>>

Init == IInit /\ SupInit /\ PInit /\ check = "shell" /\ script = NoScript /\ ran = Outcome(NoScript)

-----------------------------------------------------------------------------
(* exec: of process 1 only /run/mantle is left, made by mantle-root-init and  *)
(* by nobody else; what it was made of does not matter any more.              *)
Blank == [device |-> FALSE, media |-> FALSE, mounts |-> FALSE, init |-> FALSE, supervise |-> FALSE]
InitStep ==
    /\ ipc # "supervise" /\ IStep /\ ipc' # "supervise"
    /\ UNCHANGED <<svars, pvars, cvars>>
EnterSupervise ==
    /\ ipc \in {"recovery", "rootinit"} /\ HasSupervise
    /\ ipc' = "supervise" /\ SupExec(ipc = "rootinit")
    /\ image' = Blank /\ tries' = 0 /\ helper' = "none" /\ status' = 0
    /\ newroot' = "empty" /\ root' = "initramfs" /\ lost' = FALSE
    /\ UNCHANGED <<pvars, cvars>>

(* The checks share nothing with the services, the session and mantlectl, and *)
(* each is waited for by its own number: the others' steps are put before or  *)
(* after them.                                                                *)
Alone == spc # "checks" /\ UNCHANGED <<ivars, pvars, cvars>>
Supervise == Alone /\ SupStep
Disturb == Alone /\ Others

(* runv of mantle-shell: its own steps and its children's, until it ends. *)
CheckShell ==
    /\ spc = "checks" /\ check = "shell"
    /\ ShellStep
    /\ UNCHANGED <<ivars, svars, cvars>>
CheckCommand(i) ==
    /\ spc = "checks" /\ check = "shell"
    /\ CommandStep(i)
    /\ UNCHANGED <<ivars, svars, cvars>>
ShellEnds ==
    /\ spc = "checks" /\ check = "shell" /\ lpc = "done"
    /\ ShellGone /\ check' = "script"
    /\ UNCHANGED <<ivars, svars, script, ran>>

(* runv of mantle-script, whose end is waited for. *)
CheckScript ==
    /\ spc = "checks" /\ check = "script"
    /\ script' \in Scripts
    /\ ran' = Outcome(script')
    /\ check' = "ended"
    /\ UNCHANGED <<ivars, svars, pvars>>
ChecksEnd ==
    /\ check = "ended" /\ ~ran.hangs
    /\ ChecksReturn
    /\ script' = NoScript /\ ran' = Outcome(NoScript)
    /\ UNCHANGED <<ivars, pvars, check>>

Next == InitStep \/ EnterSupervise \/ Supervise \/ Disturb \/ CheckShell
        \/ (\E i \in 1 .. MaxCommands : CheckCommand(i)) \/ ShellEnds \/ CheckScript \/ ChecksEnd

-----------------------------------------------------------------------------
(* Fairness.  Process 1 and the processes it waits for run on (WF).  A fork   *)
(* that is tried again and again succeeds at some time, and waitpid, which    *)
(* looks at the children in the order of their creation, comes to each of     *)
(* them (SF).  Nothing is assumed of services, sessions, users and signals.   *)
Started_(s) == live[s] < MaxLive /\ live'[s] > live[s]
Reaped(s) == pidfile[s] = "zombie" /\ pidfile'[s] = "gone"
Fairness ==
    /\ WF_vars(InitStep) /\ WF_vars(EnterSupervise) /\ WF_vars(Supervise)
    /\ WF_vars(CheckShell) /\ WF_vars(ShellEnds) /\ WF_vars(CheckScript) /\ WF_vars(ChecksEnd)
    /\ \A i \in 1 .. MaxRunning : WF_vars(CheckCommand(i))
    /\ SF_vars(Alone /\ ForkSession)
    /\ SF_vars(Alone /\ SessionTurn /\ spc' = "closing")
    /\ \A s \in Services : SF_vars(Alone /\ SessionTurn /\ Reaped(s)) /\ SF_vars(Alone /\ LookAfter /\ Started_(s))
Spec == Init /\ [][Next]_vars /\ Fairness

-----------------------------------------------------------------------------
(* A check that never ends: none of the line's commands can go on, or         *)
(* mantle-script turns for ever on one token.                                 *)
CheckHangs ==
    /\ spc = "checks"
    /\ \/ check = "shell" /\ lpc = "wait" /\ Runs(at) /\ \A i \in Procs : ~CanMove(i)
       \/ check = "ended" /\ ran.hangs

(* services/README.md, "garde la console utilisateur disponible": from its    *)
(* exec on, through the splash, the wait for services that may never be ready *)
(* and the boot checks, and after the end of every session, the supervisor    *)
(* brings a session, unless it was told to stop one or to end itself, or a    *)
(* check hangs: run_boot_checks waits for its children without a limit.       *)
SessionAvailable ==
    (spc # "off" /\ session # "running")
       ~> (session = "running" \/ stopFile \/ stopping \/ CheckHangs)
=============================================================================
