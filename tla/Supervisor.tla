----------------------------- MODULE Supervisor -----------------------------
(***************************************************************************)
(* mantle-supervise as process 1, the log and network services it starts,   *)
(* the console session it keeps, and mantlectl beside it.  A process        *)
(* identifier is only what kill(pid, 0) and waitpid make of it, so a pid    *)
(* file is the state of the process its number denotes: alive, a zombie     *)
(* nobody reaped, gone, or foreign once the number is somebody else's.      *)
(* Delays are not measured: a bounded wait may end at any turn.             *)
(***************************************************************************)
EXTENDS Naturals, FiniteSets

CONSTANTS
    Services,   \* "log" and "network"
    NetModes,   \* the modes of network.conf looked at: "dhcp", "static"
    MaxLive     \* bound: instances of a service that are counted

ASSUME SupervisorAssumption == "network" \in Services /\ MaxLive \in Nat \ {0}

VARIABLES
    spc,          \* where mantle-supervise is; "off" before it is started
    runDir,       \* whether /run/mantle exists, made by mantle-root-init only
    netMode,
    pidfile,      \* /run/mantle/<service>.pid
    live,         \* how many instances of each service run
    netReady,     \* /run/mantle/network.ready
    stopping,
    stopFile,     \* /run/mantle/session.stop
    session,      \* the console session: "none", "running" or "zombie"
    sessionFile,  \* whether /run/mantle-session.pid holds its number
    ctl,          \* the mantlectl under way: its action, and the number it read
    afterStop     \* history: sessions started since the stop file was made

env == <<runDir, netMode>>
svc == <<pidfile, live>>
console == <<session, sessionFile>>
control == <<stopFile, ctl, afterStop>>
svars == <<spc, stopping, netReady, env, svc, console, control>>
NoCtl == [action |-> "none", pid |-> "none"]

SupInit ==
    /\ spc = "off" /\ runDir = FALSE /\ netMode \in NetModes
    /\ pidfile = [s \in Services |-> "none"]
    /\ live = [s \in Services |-> 0]
    /\ netReady = FALSE /\ stopping = FALSE /\ stopFile = FALSE
    /\ session = "none" /\ sessionFile = FALSE /\ ctl = NoCtl /\ afterStop = 0

-----------------------------------------------------------------------------
(* kill(pid, 0) == 0. *)
Answers(p) == p \in {"alive", "zombie", "foreign"}

(* exec of mantle-supervise: by mantle-root-init, which has made /run/mantle, *)
(* or in recovery mode by mantle-init, which has not.                         *)
SupExec(made) ==
    /\ spc = "off"
    /\ spc' = "splash" /\ runDir' = made
    /\ UNCHANGED <<stopping, netReady, netMode, svc, console, control>>

Needed_always(s) == TRUE
Needed(s) == ~Answers(pidfile[s])

(* ensure_service for each service; a fork may fail, and without the          *)
(* directory the number of the new process is written nowhere.                *)
EnsureServices ==
    \E started \in SUBSET {s \in Services : Needed(s)} :
        /\ pidfile' = [s \in Services |-> IF s \in started /\ runDir THEN "alive" ELSE pidfile[s]]
        /\ live' = [s \in Services |-> IF s \in started /\ live[s] < MaxLive THEN live[s] + 1 ELSE live[s]]

(* main up to the first wait: the splash, the pid file, the services. *)
SupStart ==
    /\ spc = "splash"
    /\ EnsureServices
    /\ spc' = "wait"
    /\ UNCHANGED <<stopping, netReady, env, console, control>>

service_ready(s) == Answers(pidfile[s])

(* The wait ends when both services answer and the network is up, or after    *)
(* its hundred turns, or at a signal.                                         *)
WaitEnds_untilReady ==
    /\ spc = "wait"
    /\ stopping \/ (netReady /\ \A s \in Services : service_ready(s))
    /\ spc' = IF stopping THEN "top" ELSE "checks"
    /\ UNCHANGED <<stopping, netReady, env, svc, console, control>>
WaitEnds ==
    /\ spc = "wait"
    /\ \/ ~stopping /\ netReady /\ (\A s \in Services : service_ready(s)) /\ spc' = "checks"
       \/ spc' = "top"
    /\ UNCHANGED <<stopping, netReady, env, svc, console, control>>

(* run_boot_checks: the checks were waited for, whatever they returned.  The  *)
(* third, mantle-command on boot.mtc, only runs commands and is left out.     *)
ChecksReturn ==
    /\ spc = "checks"
    /\ spc' = "top"
    /\ UNCHANGED <<stopping, netReady, env, svc, console, control>>

(* The head of the supervision loop. *)
Top_keepsAsking ==
    /\ spc = "top" /\ ~stopping /\ EnsureServices /\ spc' = "fork"
    /\ UNCHANGED <<stopping, netReady, env, console, control>>
Top ==
    /\ spc = "top"
    /\ \/ /\ ~stopping
          /\ EnsureServices
          /\ spc' = IF stopFile THEN "top" ELSE "fork"
       \/ /\ stopping
          /\ spc' = "ended"
          /\ UNCHANGED <<pidfile, live>>
    /\ UNCHANGED <<stopping, netReady, env, console, control>>

ForkSession ==
    /\ spc = "fork"
    /\ spc' = "forked"
    /\ session' = "running"
    /\ afterStop' = IF stopFile /\ afterStop < 2 THEN afterStop + 1 ELSE afterStop
    /\ UNCHANGED <<stopping, netReady, env, svc, stopFile, sessionFile, ctl>>

ForkFails ==
    /\ spc = "fork"
    /\ spc' = "top"
    /\ UNCHANGED <<stopping, netReady, env, svc, console, control>>

WriteSessionPid ==
    /\ spc = "forked"
    /\ spc' = "session"
    /\ sessionFile' = TRUE
    /\ UNCHANGED <<stopping, netReady, env, svc, control, session>>

Zombies == {s \in Services : pidfile[s] = "zombie"}
SessionGone == session' = "none" /\ ctl' = IF ctl.pid = "session" THEN [ctl EXCEPT !.pid = "stale"] ELSE ctl

(* One turn of the session loop: waitpid reaps one child, the session or a    *)
(* service; the services are looked at in every turn that goes on.            *)
SessionTurn_sessionOnly ==
    /\ spc = "session"
    /\ IF session = "zombie" THEN SessionGone /\ spc' = "closing" /\ UNCHANGED <<pidfile, live>>
                             ELSE EnsureServices /\ UNCHANGED <<spc, session, ctl>>
    /\ UNCHANGED <<stopping, netReady, env, stopFile, sessionFile, afterStop>>
SessionTurn ==
    /\ spc = "session"
    /\ \/ /\ session = "zombie"
          /\ SessionGone
          /\ spc' = "closing"
          /\ UNCHANGED <<pidfile, live>>
       \/ /\ \E s \in Zombies : pidfile' = [pidfile EXCEPT ![s] = "gone"]
          /\ spc' = "look"
          /\ UNCHANGED <<live, session, ctl>>
       \/ /\ session # "zombie" /\ Zombies = {}
          /\ spc' = "look"
          /\ UNCHANGED <<pidfile, live, session, ctl>>
    /\ UNCHANGED <<stopping, netReady, env, stopFile, sessionFile, afterStop>>

LookAfter ==
    /\ spc = "look"
    /\ EnsureServices
    /\ spc' = "session"
    /\ UNCHANGED <<stopping, netReady, env, console, control>>

Closing ==
    /\ spc = "closing"
    /\ spc' = "top"
    /\ sessionFile' = FALSE
    /\ UNCHANGED <<stopping, netReady, env, svc, control, session>>

-----------------------------------------------------------------------------
(* The others.  A service may end at any time (its exec, its configuration or *)
(* its lease failed); its number may be given to a stranger once it is free.  *)
ServiceEnds(s) ==
    /\ spc # "off" /\ live[s] > 0
    /\ live' = [live EXCEPT ![s] = @ - 1]
    /\ pidfile' = IF pidfile[s] = "alive" THEN [pidfile EXCEPT ![s] = "zombie"] ELSE pidfile
    /\ UNCHANGED <<spc, stopping, netReady, env, console, control>>

Recycled(s) ==
    /\ \/ pidfile[s] = "gone" /\ pidfile' = [pidfile EXCEPT ![s] = "foreign"]
       \/ pidfile[s] = "foreign" /\ pidfile' = [pidfile EXCEPT ![s] = "gone"]
    /\ UNCHANGED <<spc, stopping, netReady, env, console, control, live>>

(* network.ready: the static branch of mantle-network never makes it, so the  *)
(* script that it gives udhcpc must (external), and nothing removes it when   *)
(* the service ends.                                                          *)
Lease ==
    /\ live["network"] > 0 /\ netMode = "dhcp" /\ runDir /\ ~netReady
    /\ netReady' = TRUE
    /\ UNCHANGED <<spc, stopping, env, svc, console, control>>

SessionEnds ==
    /\ session = "running"
    /\ session' = "zombie"
    /\ UNCHANGED <<spc, stopping, netReady, env, svc, control, sessionFile>>

Signal ==
    /\ spc \notin {"off", "ended"} /\ ~stopping
    /\ stopping' = TRUE
    /\ UNCHANGED <<spc, netReady, env, svc, console, control>>

(* mantlectl, run from the session's shell: it reads the session's number     *)
(* first and acts later, when that session may already have ended.            *)
CtlReads(action) ==
    /\ session = "running" /\ ctl = NoCtl
    /\ ctl' = [action |-> action,
               pid |-> IF ~sessionFile THEN "none" ELSE IF session = "none" THEN "stale" ELSE "session"]
    /\ UNCHANGED <<spc, stopping, netReady, env, svc, console, stopFile, afterStop>>

CtlActs ==
    /\ ctl # NoCtl
    /\ ctl' = NoCtl
    /\ stopFile' = (ctl.action = "stop" /\ runDir)
    /\ afterStop' = IF stopFile /\ stopFile' THEN afterStop ELSE 0
    /\ session' = IF ctl.action \in {"stop", "restart"} /\ ctl.pid = "session" /\ session = "running"
                  THEN "zombie" ELSE session
    /\ UNCHANGED <<spc, stopping, netReady, env, svc, sessionFile>>

-----------------------------------------------------------------------------
SupStep == SupStart \/ WaitEnds \/ Top \/ ForkSession \/ ForkFails \/ WriteSessionPid
           \/ SessionTurn \/ LookAfter \/ Closing
Others ==
    \/ \E s \in Services : ServiceEnds(s) \/ Recycled(s)
    \/ Lease \/ SessionEnds \/ Signal \/ CtlActs
    \/ \E action \in {"start", "stop", "restart"} : CtlReads(action)

(* The supervisor by itself; the checks take some time and change nothing of  *)
(* its state.                                                                 *)
SupNext == (\E made \in BOOLEAN : SupExec(made)) \/ ChecksReturn \/ SupStep \/ Others
SupSpec == SupInit /\ [][SupNext]_svars

-----------------------------------------------------------------------------
(* Types of the supervisor's state.                                           *)
SupTypeOK ==
    /\ spc \in {"off", "splash", "wait", "checks", "top", "fork", "forked", "session", "look", "closing", "ended"}
    /\ pidfile \in [Services -> {"none", "alive", "zombie", "gone", "foreign"}]
    /\ live \in [Services -> 0 .. MaxLive]
    /\ session \in {"none", "running", "zombie"}

(* A service never runs twice: ensure_service starts one only when the number *)
(* in its pid file denotes nobody, however services die, are reaped and       *)
(* numbers are reused - provided the pid files can be written at all.         *)
OneInstance == runDir => \A s \in Services : live[s] <= 1

(* A stop that was asked for lets at most one more session begin, the one     *)
(* whose fork was already decided when the stop file appeared.                *)
AtMostOneAfterStop == afterStop <= 1

(* While a session lasts, a service that died is reaped and started again,    *)
(* unless its number was taken by another process.                            *)
ServiceRestarted ==
    \A s \in Services :
        (pidfile[s] = "zombie" /\ session = "running")
           ~> (live[s] > 0 \/ session # "running" \/ pidfile[s] = "foreign" \/ spc = "ended")
=============================================================================
