---------------------------- MODULE ShellPipeline ----------------------------
(***************************************************************************)
(* One line given to mantle-shell -c: run_line's parser over the tokens of  *)
(* the line, and the pipeline it builds, one process per command, with the  *)
(* pipes' ends as sets of the processes that hold them, its redirections    *)
(* made.  What a command does is reduced to how much it reads and writes    *)
(* (external).                                                              *)
(***************************************************************************)
EXTENDS Naturals, Sequences, FiniteSets

CONSTANTS
    Lines,      \* the lines looked at, sequences of tokens
    PipeSize,   \* what a pipe holds
    Output      \* what the command gen writes

Redirects == {"<", ">", ">>"}
Operators == Redirects \cup {"|", ";"}
MaxCommands == 16
Shell == 0

ASSUME PipelineAssumption ==
    Lines \subseteq Seq(STRING) /\ PipeSize \in Nat \ {0} /\ Output \in Nat

VARIABLES
    line,      \* the line
    lpc,       \* "idle", "spawn", "wait" or "done"
    at,        \* the command to start or to wait for
    child,     \* the commands' processes
    pipe,      \* the bytes in the pipe after each command
    writers, readers,  \* the processes that hold its ends
    last       \* the status run_line returns

pvars == <<line, lpc, at, child, pipe, writers, readers, last>>

-----------------------------------------------------------------------------
IsWord(t) == t \notin Operators
Tok(s, i) == IF i <= Len(s) THEN s[i] ELSE "end"

(* The end of the words from i on. *)
WordsEnd(s, i) == CHOOSE j \in i .. Len(s) + 1 :
    (j > Len(s) \/ ~IsWord(s[j])) /\ \A k \in i .. j - 1 : IsWord(s[k])

(* A turn of run_line's loop at token i: a command is its words and at most   *)
(* one redirection; after it only a pipe, and something after the pipe, may   *)
(* follow.  later[k] is what the turns to come make of the tokens from k on.  *)
Turn(s, i, later) ==
    LET j == WordsEnd(s, i)
        redirected == Tok(s, j) \in Redirects
        k == IF redirected THEN j + 2 ELSE j
        bad == redirected /\ (j + 1 > Len(s) \/ ~IsWord(s[j + 1]))
        cmd == [name |-> IF j > i THEN s[i] ELSE "empty",
                redir |-> IF redirected THEN s[j] ELSE "none"]
    IN  IF bad THEN [error |-> TRUE, cmds |-> <<>>]
        ELSE IF k > Len(s) THEN [error |-> FALSE, cmds |-> <<cmd>>]
        ELSE IF s[k] # "|" \/ k = Len(s) THEN [error |-> TRUE, cmds |-> <<>>]
        ELSE [error |-> later[k + 1].error, cmds |-> <<cmd>> \o later[k + 1].cmds]

(* run_line's loop as a recursive function of the turns it has left. *)
Parse(s) ==
    LET parse[n \in 0 .. MaxCommands] ==
          [i \in 1 .. Len(s) + 1 |->
              IF i > Len(s) THEN [error |-> FALSE, cmds |-> <<>>]
              ELSE IF n = 0 THEN [error |-> s[i] # "|", cmds |-> <<>>]
              ELSE Turn(s, i, parse[n - 1])]
    IN  parse[MaxCommands][1]

Cmds == Parse(line).cmds
Count == Len(Cmds)
Procs == 1 .. Count

Name(i) == Cmds[i].name
FromFile(i) == Cmds[i].redir = "<"
ToFile(i) == Cmds[i].redir \in {">", ">>"}

(* Commands (external): what they write of their own, whether they read to    *)
(* the end of their input or leave after one piece, and their status.  A file *)
(* read to its end has as much in it as gen writes.  The terminal is at its   *)
(* end.  execvp of no name kills the child.                                   *)
Writes(c) == IF c = "gen" THEN Output ELSE 0
Reads(c) == IF c \in {"cat", "grep"} THEN "all" ELSE IF c = "head" THEN "one" ELSE "none"
Status(i) ==
    CASE Name(i) = "missing" \/ (Name(i) = "cd" /\ Count > 1) -> 127
      [] Name(i) = "empty" /\ Count > 1 -> 128
      [] Name(i) \in {"false", "grep"} -> 1
      [] OTHER -> 0
Builtin(c) == c \in {"true", "false", "cd", "empty"}

(* What command i writes without reading a pipe, how it reads the pipe before *)
(* it, and whether it writes to the one after it: a file takes their place.   *)
Own(i) == IF FromFile(i) /\ Reads(Name(i)) = "all" THEN Output ELSE Writes(Name(i))
Takes(i) == IF i > 1 /\ ~FromFile(i) THEN Reads(Name(i)) ELSE "none"
Fills(i) == i < Count /\ ~ToFile(i)

PInit ==
    /\ line = <<>> /\ lpc = "idle" /\ at = 1 /\ last = 0
    /\ child = <<>> /\ pipe = <<>> /\ writers = <<>> /\ readers = <<>>

(* The shell has ended and its caller goes on. *)
ShellGone ==
    /\ line' = <<>> /\ lpc' = "idle" /\ at' = 1 /\ last' = 0
    /\ child' = <<>> /\ pipe' = <<>> /\ writers' = <<>> /\ readers' = <<>>

(* main: -c, and the parser's verdict. *)
StartLine ==
    /\ lpc = "idle"
    /\ line' \in Lines
    /\ LET p == Parse(line')
           n == Len(p.cmds)
           error == p.error
       IN  /\ lpc' = IF error \/ n = 0 THEN "done" ELSE "spawn"
           /\ last' = IF error THEN 2 ELSE 0
           /\ child' = [i \in 1 .. n |-> [state |-> "none", left |-> 0]]
           /\ pipe' = [i \in 1 .. n |-> 0]
           /\ writers' = [i \in 1 .. n |-> {}]
           /\ readers' = [i \in 1 .. n |-> {}]
    /\ at' = 1

(* What the shell still holds of the pipes once command i was started. *)
ClosedWriters_none(i, w) == w
ClosedWriters(i, w) == [j \in DOMAIN w |-> w[j] \ {Shell}]
ClosedReaders(i, r) == [j \in DOMAIN r |-> IF j = i THEN r[j] ELSE r[j] \ {Shell}]

Opened(i) == i < Count
Next_(i) == IF i = Count THEN [pc |-> "wait", at |-> 1] ELSE [pc |-> "spawn", at |-> i + 1]

(* pipe fails: run_line gives up at once, and waits for nobody. *)
PipeFails ==
    /\ lpc = "spawn" /\ Opened(at)
    /\ lpc' = "done" /\ last' = 1
    /\ child' = [child EXCEPT ![at].state = "nopipe"]
    /\ writers' = [j \in DOMAIN writers |-> writers[j] \ {Shell}]
    /\ readers' = [j \in DOMAIN readers |-> readers[j] \ {Shell}]
    /\ UNCHANGED <<line, at, pipe>>

(* A builtin on a line of its own, whose redirection is not made; exit leaves *)
(* the shell wherever it stands.                                              *)
RunBuiltin ==
    /\ lpc = "spawn"
    /\ Name(at) = "exit" \/ (Count = 1 /\ Builtin(Name(at)))
    /\ lpc' = "done" /\ last' = Status(at)
    /\ writers' = [j \in DOMAIN writers |-> writers[j] \ {Shell}]
    /\ readers' = [j \in DOMAIN readers |-> readers[j] \ {Shell}]
    /\ UNCHANGED <<line, at, child, pipe>>

(* pipe, fork, the child's dup2s and the parent's closes.  The child inherits *)
(* all that the shell holds and keeps the read end of its own output pipe     *)
(* beside its stdin and stdout; the end whose place a file takes is dropped.  *)
(* Nobody sees what it does before that, so it is one step.  A file that does *)
(* not open ends the child with 126.  Where fork fails, 127 is kept as if it  *)
(* were a process.                                                            *)
Spawn ==
    LET i == at
        w == [writers EXCEPT ![i] = IF Opened(i) THEN {Shell} ELSE {}]
        r == [readers EXCEPT ![i] = IF Opened(i) THEN {Shell} ELSE {}]
        inherit(h, dropped) ==
            [j \in DOMAIN h |-> IF Shell \in h[j] /\ j # dropped THEN h[j] \cup {i} ELSE h[j]]
    IN
    /\ lpc = "spawn" /\ Name(i) # "exit" /\ ~(Count = 1 /\ Builtin(Name(i)))
    /\ \/ /\ child' = [child EXCEPT ![i] = [state |-> "running", left |-> Own(i)]]
          /\ writers' = ClosedWriters(i, inherit(w, IF ToFile(i) THEN i ELSE 0))
          /\ readers' = ClosedReaders(i, inherit(r, IF FromFile(i) THEN i - 1 ELSE 0))
       \/ /\ \/ child' = [child EXCEPT ![i].state = "refused"] /\ Cmds[i].redir # "none"
             \/ child' = [child EXCEPT ![i].state = "failed"]
          /\ writers' = ClosedWriters(i, w)
          /\ readers' = ClosedReaders(i, r)
    /\ lpc' = Next_(i).pc /\ at' = Next_(i).at
    /\ last' = IF Count = 1 /\ child'[i].state = "failed" THEN 127 ELSE last
    /\ UNCHANGED <<line, pipe>>

(* waitpid of each process in turn; the status that counts is the last one's. *)
StatusOf(i) ==
    CASE child[i].state = "failed" -> IF Count = 1 THEN 127 ELSE 0
      [] child[i].state = "refused" -> 126
      [] OTHER -> Status(i)
CountsStatus_first(i) == i = 1
CountsStatus(i) == i = Count

WaitChild ==
    /\ lpc = "wait"
    /\ child[at].state # "running"
    /\ last' = IF CountsStatus(at) THEN StatusOf(at) ELSE last
    /\ lpc' = IF at = Count THEN "done" ELSE "wait"
    /\ at' = IF at = Count THEN at ELSE at + 1
    /\ UNCHANGED <<line, child, pipe, writers, readers>>

-----------------------------------------------------------------------------
Runs(i) == i \in DOMAIN child /\ child[i].state = "running"
Leave(i) ==
    /\ child' = [child EXCEPT ![i].state = "ended"]
    /\ writers' = [j \in DOMAIN writers |-> writers[j] \ {i}]
    /\ readers' = [j \in DOMAIN readers |-> readers[j] \ {i}]

(* A command writes a piece: to its pipe when there is room, or it is killed  *)
(* by SIGPIPE when nobody holds the other end; to a file or the terminal.     *)
WritePiece(i) ==
    /\ Runs(i) /\ child[i].left > 0
    /\ \/ /\ Fills(i) => pipe[i] < PipeSize /\ readers[i] # {}
          /\ child' = [child EXCEPT ![i].left = @ - 1]
          /\ pipe' = IF Fills(i) THEN [pipe EXCEPT ![i] = @ + 1] ELSE pipe
          /\ UNCHANGED <<writers, readers>>
       \/ /\ Fills(i) /\ readers[i] = {}
          /\ Leave(i)
          /\ UNCHANGED pipe
    /\ UNCHANGED <<line, lpc, at, last>>

ReadPiece(i) ==
    /\ Runs(i) /\ child[i].left = 0
    /\ Takes(i) # "none" /\ pipe[i - 1] > 0
    /\ pipe' = [pipe EXCEPT ![i - 1] = @ - 1]
    /\ IF Takes(i) = "one" THEN Leave(i)
       ELSE child' = [child EXCEPT ![i].left = 1] /\ UNCHANGED <<writers, readers>>
    /\ UNCHANGED <<line, lpc, at, last>>

(* End of file on the pipe before it, or no pipe to read. *)
AtEnd(i) == Takes(i) # "none" => pipe[i - 1] = 0 /\ writers[i - 1] = {}
Finish(i) ==
    /\ Runs(i) /\ child[i].left = 0
    /\ AtEnd(i)
    /\ Leave(i)
    /\ UNCHANGED <<line, lpc, at, pipe, last>>

ShellStep == StartLine \/ PipeFails \/ RunBuiltin \/ Spawn \/ WaitChild
CommandStep(i) == WritePiece(i) \/ ReadPiece(i) \/ Finish(i)

(* The shell on its own, started again when it has ended. *)
PNext == ShellStep \/ (\E i \in 1 .. MaxCommands : CommandStep(i)) \/ (lpc = "done" /\ ShellGone)
PSpec == PInit /\ [][PNext]_pvars

-----------------------------------------------------------------------------
NotStarted(i) == child[i].state \in {"failed", "refused"}

(* Every pipe has a reader that takes all it is given, or room for all that   *)
(* can come.  Not so when such a reader reads a file instead or could not be  *)
(* started: the writer holds the read end of its own pipe and waits on it.    *)
Patient ==
    \A i \in 2 .. Count :
        \/ Takes(i) = "all" /\ ~NotStarted(i)
        \/ ~Fills(i - 1) \/ NotStarted(i - 1)
        \/ Takes(i - 1) # "all" /\ Own(i - 1) <= PipeSize

(* A patient pipeline comes to its end: every reader sees the end of its      *)
(* input, whatever the order in which the processes start, write, block and   *)
(* leave, and whatever else fails, unless a failure makes it impatient.       *)
PipelineEnds == (lpc = "spawn" /\ Patient) ~> (lpc = "done" \/ ~Patient)

(* Neither a write to a full pipe nor a read from an empty one with a writer. *)
CanMove(i) ==
    /\ Runs(i)
    /\ IF child[i].left > 0 THEN Fills(i) => pipe[i] < PipeSize
       ELSE AtEnd(i) \/ pipe[i - 1] > 0

(* While run_line waits for a command of a patient pipeline, some command can *)
(* go on: the ends that the shell and the children keep open never have all   *)
(* of them wait for each other.                                               *)
NeverStuck == lpc = "wait" /\ Patient /\ Runs(at) => \E i \in Procs : CanMove(i)

PipeFailed == \E i \in DOMAIN child : child[i].state = "nopipe"
LastFailed == Count > 0 /\ child[Count].state = "failed"
Exits == \E i \in DOMAIN line : line[i] = "exit"

(* The status of a line is 2 when the parser refuses it, 1 when a pipe could  *)
(* not be made, 126 when the last command's file did not open, and else that  *)
(* of the last command, whatever became of the others.  Not so for a line     *)
(* with exit in it, or when the last fork failed.                             *)
PipelineStatus ==
    lpc = "done" /\ ~Exits /\ ~LastFailed
      => last = IF Parse(line).error THEN 2
                ELSE IF PipeFailed THEN 1
                ELSE IF Count = 0 THEN 0
                ELSE IF child[Count].state = "refused" THEN 126
                ELSE Status(Count)
=============================================================================
