---------------------------- MODULE LegacyProofs ----------------------------
(* Machine-checked proofs about the Linux-based system: mantle-supervise and  *)
(* mantlectl for any set of services, mantle-shell for any lines, commands    *)
(* and pipe sizes, mantle-init for any images and number of tries, and the    *)
(* boot that is composed of them, with any script interpreter.                *)
EXTENDS LegacyBoot, WellFoundedInduction, TLAPS

-----------------------------------------------------------------------------
(* Types of the state the invariants read. *)
STypes ==
    /\ SupTypeOK
    /\ runDir \in BOOLEAN /\ stopFile \in BOOLEAN /\ sessionFile \in BOOLEAN
    /\ afterStop \in Nat

(* Before the supervisor is started nothing of it exists: /run/mantle cannot  *)
(* appear under services that already run.                                    *)
NothingYet == spc = "off" => \A s \in Services : pidfile[s] = "none" /\ live[s] = 0

(* With /run/mantle, an instance that runs is the only one and the one whose  *)
(* number the pid file holds.                                                 *)
FileTellsInstance ==
    runDir => \A s \in Services : live[s] <= 1 /\ (live[s] = 1 => pidfile[s] = "alive")

(* A fork that is still to come after the stop file appeared is the first.    *)
ForkDecidedBefore ==
    /\ afterStop <= 1
    /\ stopFile /\ spc = "fork" => afterStop = 0
    /\ ~stopFile => afterStop = 0

(* Outside the session loop there is no session, and the supervisor publishes *)
(* a session's number only while it waits for it.                             *)
SessionWhere ==
    /\ spc \notin {"forked", "session", "look"} => session = "none"
    /\ sessionFile <=> spc \in {"session", "look", "closing"}

SupInv == STypes /\ NothingYet /\ FileTellsInstance /\ ForkDecidedBefore /\ SessionWhere
-----------------------------------------------------------------------------
(* The initial state. *)
LEMMA SupInvInit == SupInit => SupInv
<1> SUFFICES ASSUME SupInit PROVE SupInv
  OBVIOUS
<1>0. runDir \in BOOLEAN /\ stopFile \in BOOLEAN /\ sessionFile \in BOOLEAN
  BY Zenon DEF SupInit
<1>1. STypes /\ ForkDecidedBefore
  BY <1>0, SupervisorAssumption DEF SupInit, STypes, SupTypeOK, ForkDecidedBefore
<1>2. NothingYet /\ FileTellsInstance
  BY DEF SupInit, NothingYet, FileTellsInstance
<1>3. SessionWhere
  BY DEF SupInit, SessionWhere
<1> QED
  BY <1>1, <1>2, <1>3 DEF SupInv

(* ensure_service starts only what no process answers for, so types and the   *)
(* one instance of each service survive it.                                   *)
LEMMA EnsureKeeps ==
    ASSUME STypes, FileTellsInstance, EnsureServices, UNCHANGED runDir
    PROVE  /\ pidfile' \in [Services -> {"none", "alive", "zombie", "gone", "foreign"}]
           /\ live' \in [Services -> 0 .. MaxLive]
           /\ FileTellsInstance'
<1>1. PICK started \in SUBSET {s \in Services : Needed(s)} :
        /\ pidfile' = [s \in Services |-> IF s \in started /\ runDir THEN "alive" ELSE pidfile[s]]
        /\ live' = [s \in Services |-> IF s \in started /\ live[s] < MaxLive THEN live[s] + 1 ELSE live[s]]
  BY DEF EnsureServices
<1>2. pidfile' \in [Services -> {"none", "alive", "zombie", "gone", "foreign"}]
  BY <1>1 DEF STypes, SupTypeOK
<1>3. live' \in [Services -> 0 .. MaxLive]
  BY <1>1, SupervisorAssumption DEF STypes, SupTypeOK
<1>4. ASSUME runDir, NEW s \in Services
      PROVE  live'[s] <= 1 /\ (live'[s] = 1 => pidfile'[s] = "alive")
  <2>1. live[s] \in Nat /\ live[s] <= 1 /\ (live[s] = 1 => pidfile[s] = "alive")
    BY <1>4, SupervisorAssumption DEF STypes, SupTypeOK, FileTellsInstance
  <2>2. CASE s \in started
    <3>1. pidfile[s] # "alive"
      BY <2>2 DEF Needed, Answers
    <3> QED
      BY <1>1, <1>4, <2>1, <2>2, <3>1, SupervisorAssumption
  <2>3. CASE s \notin started
    BY <1>1, <2>1, <2>3
  <2> QED
    BY <2>2, <2>3
<1> QED
  BY <1>2, <1>3, <1>4 DEF FileTellsInstance
-----------------------------------------------------------------------------
(* A step of the supervisor, of a service, of the session, of mantlectl or of *)
(* the kernel preserves the invariant.                                        *)
LEMMA SupInvStep == SupInv /\ [SupNext]_svars => SupInv'
<1> SUFFICES ASSUME SupInv, [SupNext]_svars
             PROVE  SupInv'
  OBVIOUS
<1> USE SupervisorAssumption
         DEF SupInv, STypes, SupTypeOK, NothingYet, ForkDecidedBefore, SessionWhere,
             env, svc, console, control
<1>1. ASSUME NEW made \in BOOLEAN, SupExec(made)
      PROVE  SupInv'
  BY <1>1 DEF SupExec, FileTellsInstance
<1>2. CASE ChecksReturn
  BY <1>2 DEF ChecksReturn, FileTellsInstance
<1>3. CASE SupStart
  BY <1>3, EnsureKeeps DEF SupStart
<1>4. CASE WaitEnds
  BY <1>4 DEF WaitEnds, FileTellsInstance
<1>5. CASE Top
  <2>1. CASE ~stopping
    BY <1>5, <2>1, EnsureKeeps DEF Top
  <2>2. CASE stopping
    BY <1>5, <2>2 DEF Top, FileTellsInstance
  <2> QED
    BY <2>1, <2>2
<1>6. CASE ForkSession
  BY <1>6 DEF ForkSession, FileTellsInstance
<1>7. CASE ForkFails
  BY <1>7 DEF ForkFails, FileTellsInstance
<1>8. CASE WriteSessionPid
  BY <1>8 DEF WriteSessionPid, FileTellsInstance
<1>9. CASE SessionTurn
  <2>1. CASE session = "zombie" /\ SessionGone /\ spc' = "closing" /\ UNCHANGED <<pidfile, live>>
    BY <1>9, <2>1 DEF SessionTurn, SessionGone, FileTellsInstance
  <2>2. ASSUME NEW s \in Zombies, pidfile' = [pidfile EXCEPT ![s] = "gone"],
               spc' = "look", UNCHANGED <<live, session, ctl>>
        PROVE  SupInv'
    <3>1. s \in Services /\ pidfile[s] = "zombie"
      BY DEF Zombies
    <3>2. FileTellsInstance'
      BY <1>9, <2>2, <3>1 DEF SessionTurn, FileTellsInstance
    <3> QED
      BY <1>9, <2>2, <3>1, <3>2 DEF SessionTurn
  <2>3. CASE session # "zombie" /\ spc' = "look" /\ UNCHANGED <<pidfile, live, session, ctl>>
    BY <1>9, <2>3 DEF SessionTurn, FileTellsInstance
  <2> QED
    BY <1>9, <2>1, <2>2, <2>3 DEF SessionTurn
<1>10. CASE LookAfter
  BY <1>10, EnsureKeeps DEF LookAfter
<1>11. CASE Closing
  BY <1>11 DEF Closing, FileTellsInstance
<1>12. ASSUME NEW s \in Services, ServiceEnds(s)
       PROVE  SupInv'
  <2>1. FileTellsInstance'
    BY <1>12 DEF ServiceEnds, FileTellsInstance
  <2> QED
    BY <1>12, <2>1 DEF ServiceEnds
<1>13. ASSUME NEW s \in Services, Recycled(s)
       PROVE  SupInv'
  <2>1. FileTellsInstance'
    BY <1>13 DEF Recycled, FileTellsInstance
  <2> QED
    BY <1>13, <2>1 DEF Recycled
<1>14. CASE Lease
  BY <1>14 DEF Lease, FileTellsInstance
<1>15. CASE SessionEnds
  BY <1>15 DEF SessionEnds, FileTellsInstance
<1>16. CASE Signal
  BY <1>16 DEF Signal, FileTellsInstance
<1>17. CASE CtlActs
  BY <1>17 DEF CtlActs, FileTellsInstance
<1>18. ASSUME NEW action \in {"start", "stop", "restart"}, CtlReads(action)
       PROVE  SupInv'
  BY <1>18 DEF CtlReads, FileTellsInstance
<1>19. CASE UNCHANGED svars
  BY <1>19 DEF svars, FileTellsInstance
<1> QED
  BY <1>1, <1>2, <1>3, <1>4, <1>5, <1>6, <1>7, <1>8, <1>9, <1>10, <1>11, <1>12, <1>13, <1>14,
     <1>15, <1>16, <1>17, <1>18, <1>19 DEF SupNext, SupStep, Others

(* The invariant holds of every behaviour of the supervisor. *)
LEMMA SupInvAlways == SupSpec => []SupInv
  BY SupInvInit, SupInvStep, PTL DEF SupSpec

(* For every set of services: with /run/mantle, ensure_service never lets a   *)
(* service run twice, however services die, are reaped late and numbers are   *)
(* reused.                                                                    *)
THEOREM OneInstanceAlways == SupSpec => []OneInstance
<1>1. SupInv => OneInstance
  BY DEF SupInv, FileTellsInstance, OneInstance
<1> QED
  BY <1>1, SupInvAlways, PTL

(* Whatever mantlectl, signals and sessions do, a stop request is followed by *)
(* at most the one session whose fork was decided before it.                  *)
THEOREM AtMostOneAfterStopAlways == SupSpec => []AtMostOneAfterStop
<1>1. SupInv => AtMostOneAfterStop
  BY DEF SupInv, ForkDecidedBefore, AtMostOneAfterStop
<1> QED
  BY <1>1, SupInvAlways, PTL

(* The supervisor forks a console session only when the one before it was     *)
(* reaped and its number withdrawn: there are never two.                      *)
THEOREM SessionAfterSession ==
    SupSpec => [][ForkSession => session = "none" /\ ~sessionFile]_svars
<1>1. SupInv /\ [SupNext]_svars => [ForkSession => session = "none" /\ ~sessionFile]_svars
  BY DEF SupInv, SessionWhere, ForkSession
<1> QED
  BY <1>1, SupInvAlways, PTL DEF SupSpec

-----------------------------------------------------------------------------
(* Induction over the natural numbers, for a set: the well-foundedness of <   *)
(* gives a least number outside it.                                          *)
LEMMA NatSetInduction ==
    ASSUME NEW S, 0 \in S, \A n \in Nat : n \in S => n + 1 \in S
    PROVE  Nat \subseteq S
<1> DEFINE R == OpToRel(<, Nat)
           T == Nat \ S
<1>1. IsWellFoundedOn(R, Nat)
  BY NatLessThanWellFounded
<1>2. \A x, y \in Nat : y < x => <<y, x>> \in R
  BY DEF OpToRel
<1> HIDE DEF R
<1>3. ASSUME T # {} PROVE FALSE
  <2>1. T \subseteq Nat
    OBVIOUS
  <2> HIDE DEF T
  <2>2. \E x \in T : \A y \in T : ~(<<y, x>> \in R)
    BY <1>1, <1>3, <2>1, WFMin
  <2>3. PICK x \in T : \A y \in T : ~(<<y, x>> \in R)
    BY <2>2
  <2> USE DEF T
  <2>4. x # 0 /\ x - 1 \in Nat /\ x - 1 < x /\ x = (x - 1) + 1
    BY <2>3
  <2>5. x - 1 \in S
    BY <1>2, <2>3, <2>4
  <2> QED
    BY <2>4, <2>5
<1> QED
  BY <1>3

(* A set of numbers that is not empty has a least one.                        *)
LEMMA MinOfNat ==
    ASSUME NEW S \in SUBSET Nat, S # {}
    PROVE  \E x \in S : \A y \in S : x <= y
<1> DEFINE R == OpToRel(<, Nat)
<1>1. IsWellFoundedOn(R, Nat)
  BY NatLessThanWellFounded
<1>2. \A x, y \in Nat : y < x => <<y, x>> \in R
  BY DEF OpToRel
<1> HIDE DEF R
<1>3. PICK x \in S : \A y \in S : ~(<<y, x>> \in R)
  BY <1>1, WFMin
<1>4. \A y \in S : x <= y
  <2> TAKE y \in S
  <2>1. x \in Nat /\ y \in Nat /\ ~(y < x)
    BY <1>2, <1>3
  <2> QED
    BY <2>1
<1> QED
  BY <1>4

(* The words of a command end inside the line or at its end.                  *)
LEMMA WordsEndType ==
    ASSUME NEW s \in Seq(STRING), NEW i \in 1 .. Len(s)
    PROVE  WordsEnd(s, i) \in i .. Len(s) + 1
<1> DEFINE S == {j \in i .. Len(s) + 1 : j > Len(s) \/ ~IsWord(s[j])}
<1>1. Len(s) \in Nat /\ Len(s) + 1 \in S /\ S \in SUBSET Nat
  OBVIOUS
<1>2. PICK j \in S : \A y \in S : j <= y
  <2> HIDE DEF S
  <2> QED
    BY <1>1, MinOfNat
<1>3. \A k \in i .. j - 1 : IsWord(s[k])
  <2> TAKE k \in i .. j - 1
  <2>1. k \in i .. Len(s) + 1 /\ ~(j <= k)
    BY <1>1, <1>2
  <2> QED
    BY <1>2, <2>1
<1>4. \E x \in i .. Len(s) + 1 :
         (x > Len(s) \/ ~IsWord(s[x])) /\ \A k \in i .. x - 1 : IsWord(s[k])
  BY <1>2, <1>3
<1> QED
  BY <1>4, Zenon DEF WordsEnd

(* What the parser may give: a verdict, and at most n commands, each named by *)
(* a token of the line or without a name, and with one redirection or none.   *)
Names(s) == {s[i] : i \in 1 .. Len(s)} \cup {"empty"}
Command(s) == [name : Names(s), redir : Redirects \cup {"none"}]
Parsed(s, n) == {p \in [error : BOOLEAN, cmds : Seq(Command(s))] : Len(p.cmds) <= n}

(* What the parser may give, from its two parts.                              *)
LEMMA ParsedIntro ==
    ASSUME NEW s \in Seq(STRING), NEW n \in Nat, NEW e \in BOOLEAN,
           NEW c \in Seq(Command(s)), Len(c) <= n
    PROVE  [error |-> e, cmds |-> c] \in Parsed(s, n)
BY DEF Parsed

(* A turn of the loop adds at most one command to those of the turns to come. *)
LEMMA TurnParses ==
    ASSUME NEW s \in Seq(STRING), NEW i \in 1 .. Len(s), NEW n \in Nat,
           NEW later \in [1 .. Len(s) + 1 -> Parsed(s, n)]
    PROVE  Turn(s, i, later) \in Parsed(s, n + 1)
<1> DEFINE j == WordsEnd(s, i)
           redirected == Tok(s, j) \in Redirects
           k == IF redirected THEN j + 2 ELSE j
           bad == redirected /\ (j + 1 > Len(s) \/ ~IsWord(s[j + 1]))
           cmd == [name |-> IF j > i THEN s[i] ELSE "empty",
                   redir |-> IF redirected THEN s[j] ELSE "none"]
<1>0. n + 1 \in Nat /\ 0 <= n + 1 /\ 1 <= n + 1
  OBVIOUS
<1>1. j \in 1 .. Len(s) + 1 /\ k \in Nat /\ k >= 1
  BY WordsEndType
<1>2. cmd \in Command(s) /\ <<>> \in Seq(Command(s)) /\ Len(<<>>) = 0
  <2>1. (IF j > i THEN s[i] ELSE "empty") \in Names(s)
    BY DEF Names
  <2>2. (IF redirected THEN s[j] ELSE "none") \in Redirects \cup {"none"}
    <3>1. redirected => Tok(s, j) = s[j]
      BY DEF Tok, Redirects
    <3> QED
      BY <3>1
  <2> HIDE DEF redirected, j
  <2> QED
    BY <2>1, <2>2 DEF Command
<1>3. <<cmd>> \in Seq(Command(s)) /\ Len(<<cmd>>) = 1
  <2> HIDE DEF cmd
  <2> QED
    BY <1>2
<1>4. Turn(s, i, later) =
        IF bad THEN [error |-> TRUE, cmds |-> <<>>]
        ELSE IF k > Len(s) THEN [error |-> FALSE, cmds |-> <<cmd>>]
        ELSE IF s[k] # "|" \/ k = Len(s) THEN [error |-> TRUE, cmds |-> <<>>]
        ELSE [error |-> later[k + 1].error, cmds |-> <<cmd>> \o later[k + 1].cmds]
  BY Zenon DEF Turn
<1> HIDE DEF j, redirected, k, bad, cmd
<1>5. CASE ~bad /\ ~(k > Len(s)) /\ ~(s[k] # "|" \/ k = Len(s))
  <2> DEFINE rest == later[k + 1]
  <2>1. k + 1 \in 1 .. Len(s) + 1
    BY <1>1, <1>5
  <2>2. rest \in Parsed(s, n)
    BY <2>1
  <2>3. rest.error \in BOOLEAN /\ rest.cmds \in Seq(Command(s)) /\ Len(rest.cmds) <= n
    BY <2>2 DEF Parsed
  <2> HIDE DEF rest
  <2>4. <<cmd>> \o rest.cmds \in Seq(Command(s)) /\ Len(<<cmd>> \o rest.cmds) <= n + 1
    BY <1>3, <2>3
  <2>5. [error |-> rest.error, cmds |-> <<cmd>> \o rest.cmds] \in Parsed(s, n + 1)
    BY <1>0, <2>3, <2>4, ParsedIntro
  <2> QED
    BY <1>4, <1>5, <2>5 DEF rest
<1>6. [error |-> TRUE, cmds |-> <<>>] \in Parsed(s, n + 1)
  BY <1>0, <1>2, ParsedIntro
<1>7. [error |-> FALSE, cmds |-> <<cmd>>] \in Parsed(s, n + 1)
  BY <1>0, <1>3, ParsedIntro
<1> QED
  BY <1>4, <1>5, <1>6, <1>7

(* The loop with n turns left, given what it does with one turn less. *)
Level(s, n, later) ==
    [i \in 1 .. Len(s) + 1 |->
        IF i > Len(s) THEN [error |-> FALSE, cmds |-> <<>>]
        ELSE IF n = 0 THEN [error |-> s[i] # "|", cmds |-> <<>>]
        ELSE Turn(s, i, later)]
ParseRun(s, m, h) == h = [n \in 0 .. m |-> Level(s, n, h[n - 1])]

(* With no turn left it does not matter what later turns would do.            *)
LEMMA LevelZero == \A s, x, y : Level(s, 0, x) = Level(s, 0, y)
  BY DEF Level

(* The recursive function that Parse chooses exists, for any number of turns. *)
LEMMA ParseRunExists ==
    ASSUME NEW s \in Seq(STRING)
    PROVE  \A m \in Nat : \E h : ParseRun(s, m, h)
<1> DEFINE S == {m \in Nat : \E h : ParseRun(s, m, h)}
<1>1. 0 \in S
  <2> DEFINE h == [n \in 0 .. 0 |-> Level(s, 0, 0)]
  <2>1. h = [n \in 0 .. 0 |-> Level(s, n, h[n - 1])]
    <3>1. Level(s, 0, 0) = Level(s, 0, h[0 - 1])
      BY LevelZero
    <3> QED
      BY <3>1
  <2> QED
    BY <2>1 DEF ParseRun
<1>2. ASSUME NEW m \in Nat, m \in S PROVE m + 1 \in S
  <2>1. PICK h : h = [n \in 0 .. m |-> Level(s, n, h[n - 1])]
    BY <1>2 DEF ParseRun
  <2> DEFINE g == [n \in 0 .. m + 1 |-> IF n = m + 1 THEN Level(s, m + 1, h[m]) ELSE h[n]]
  <2>2. ASSUME NEW n \in 0 .. m + 1 PROVE g[n] = Level(s, n, g[n - 1])
    <3>1. CASE n = m + 1
      BY <3>1
    <3>2. CASE n \in 0 .. m /\ n # 0
      <4>1. g[n - 1] = h[n - 1] /\ g[n] = h[n]
        BY <3>2
      <4> QED
        BY <2>1, <3>2, <4>1
    <3>3. CASE n = 0
      <4>1. g[0] = h[0] /\ h[0] = Level(s, 0, h[0 - 1])
        BY <2>1
      <4> QED
        BY <3>3, <4>1, LevelZero
    <3> QED
      BY <3>1, <3>2, <3>3
  <2>3. g = [n \in 0 .. m + 1 |-> Level(s, n, g[n - 1])]
    BY <2>2
  <2> HIDE DEF g
  <2>4. ParseRun(s, m + 1, g)
    BY <2>3 DEF ParseRun
  <2> QED
    BY <2>4
<1> HIDE DEF S
<1>3. Nat \subseteq S
  BY <1>1, <1>2, NatSetInduction
<1> QED
  BY <1>3 DEF S

(* Every value of that function is a verdict and at most n commands.          *)
LEMMA ParseRunParses ==
    ASSUME NEW s \in Seq(STRING), NEW m \in Nat, NEW h, ParseRun(s, m, h)
    PROVE  \A n \in 0 .. m : h[n] \in [1 .. Len(s) + 1 -> Parsed(s, n)]
<1> DEFINE S == {n \in Nat : n <= m => h[n] \in [1 .. Len(s) + 1 -> Parsed(s, n)]}
<1>0. ASSUME NEW n \in Nat, NEW i \in 1 .. Len(s) + 1
      PROVE  /\ [error |-> FALSE, cmds |-> <<>>] \in Parsed(s, n)
             /\ [error |-> s[i] # "|", cmds |-> <<>>] \in Parsed(s, n)
  <2>1. <<>> \in Seq(Command(s)) /\ Len(<<>>) <= n
    OBVIOUS
  <2>2. (s[i] # "|") \in BOOLEAN
    BY Zenon
  <2> QED
    BY <2>1, <2>2, ParsedIntro
<1>1. 0 \in S
  <2>1. h[0] = Level(s, 0, h[0 - 1])
    BY DEF ParseRun
  <2> QED
    BY <1>0, <2>1 DEF Level
<1>2. ASSUME NEW n \in Nat, n \in S PROVE n + 1 \in S
  <2> SUFFICES ASSUME n + 1 <= m PROVE h[n + 1] \in [1 .. Len(s) + 1 -> Parsed(s, n + 1)]
    OBVIOUS
  <2>1. h[n] \in [1 .. Len(s) + 1 -> Parsed(s, n)]
    BY <1>2
  <2>2. h[n + 1] = Level(s, n + 1, h[n])
    <3>1. n + 1 \in 0 .. m /\ (n + 1) - 1 = n
      OBVIOUS
    <3> QED
      BY <3>1 DEF ParseRun
  <2>3. ASSUME NEW i \in 1 .. Len(s) + 1, i <= Len(s)
        PROVE  Turn(s, i, h[n]) \in Parsed(s, n + 1)
    <3>1. i \in 1 .. Len(s)
      BY <2>3
    <3> QED
      BY <2>1, <3>1, TurnParses
  <2> QED
    BY <1>0, <2>2, <2>3 DEF Level
<1> HIDE DEF S
<1>3. Nat \subseteq S
  BY <1>1, <1>2, NatSetInduction
<1> QED
  BY <1>3 DEF S

(* What Parse gives, for every line.                                          *)
LEMMA ParseParses == ASSUME NEW s \in Seq(STRING) PROVE Parse(s) \in Parsed(s, MaxCommands)
<1> DEFINE h == CHOOSE f : ParseRun(s, MaxCommands, f)
<1>1. ParseRun(s, MaxCommands, h)
  <2>1. \E f : ParseRun(s, MaxCommands, f)
    BY ParseRunExists DEF MaxCommands
  <2> QED
    BY <2>1
<1>2. Parse(s) = h[MaxCommands][1]
  BY Zenon DEF Parse, ParseRun, Level
<1> HIDE DEF h
<1>3. MaxCommands \in Nat /\ MaxCommands \in 0 .. MaxCommands
  BY DEF MaxCommands
<1>4. h[MaxCommands] \in [1 .. Len(s) + 1 -> Parsed(s, MaxCommands)]
  BY <1>1, <1>3, ParseRunParses
<1> QED
  BY <1>2, <1>4

(* The empty line has no commands.                                            *)
LEMMA ParseEmpty == Parse(<<>>) = [error |-> FALSE, cmds |-> <<>>]
<1> DEFINE h == CHOOSE f : ParseRun(<<>>, MaxCommands, f)
<1>0. <<>> \in Seq(STRING) /\ Len(<<>>) = 0
  OBVIOUS
<1>1. ParseRun(<<>>, MaxCommands, h)
  <2>1. \E f : ParseRun(<<>>, MaxCommands, f)
    BY <1>0, ParseRunExists DEF MaxCommands
  <2> QED
    BY <2>1
<1>2. Parse(<<>>) = h[MaxCommands][1]
  BY Zenon DEF Parse, ParseRun, Level
<1> HIDE DEF h
<1>3. h[MaxCommands] = Level(<<>>, MaxCommands, h[MaxCommands - 1])
  BY <1>1 DEF MaxCommands, ParseRun
<1> QED
  BY <1>0, <1>2, <1>3 DEF Level

(* The commands of a line. *)
LEMMA CmdsType ==
    ASSUME line \in Seq(STRING)
    PROVE  /\ Cmds \in Seq(Command(line)) /\ Count \in 0 .. MaxCommands
           /\ Parse(line).error \in BOOLEAN
           /\ \A i \in Procs : Cmds[i] \in Command(line)
<1>1. Parse(line) \in Parsed(line, MaxCommands)
  BY ParseParses
<1>2. Cmds \in Seq(Command(line)) /\ Len(Cmds) <= MaxCommands
  BY <1>1 DEF Parsed, Cmds
<1>6. Parse(line).error \in BOOLEAN
  BY <1>1 DEF Parsed
<1>3. Len(Cmds) \in Nat /\ \A i \in 1 .. Len(Cmds) : Cmds[i] \in Command(line)
  BY <1>2
<1>4. Count \in 0 .. MaxCommands
  <2>1. Count \in Nat /\ Count <= 16
    BY <1>2, <1>3, Zenon DEF Count, MaxCommands
  <2> QED
    BY <2>1 DEF MaxCommands
<1>5. \A i \in Procs : Cmds[i] \in Command(line)
  BY <1>3 DEF Count, Procs
<1> QED
  BY <1>2, <1>4, <1>5, <1>6, Zenon
-----------------------------------------------------------------------------
(* run_line works at the line's commands. *)
Active == lpc \in {"spawn", "wait"}

Process == [state : {"none", "running", "ended", "failed", "refused", "nopipe"}, left : Nat]

PipeTypes ==
    /\ line \in Seq(STRING)
    /\ lpc \in {"idle", "spawn", "wait", "done"}
    /\ child \in [Procs -> Process]
    /\ pipe \in [Procs -> 0 .. PipeSize]
    /\ writers \in [Procs -> SUBSET Nat] /\ readers \in [Procs -> SUBSET Nat]
    /\ at \in Nat

(* Where run_line stands: what it works at was accepted by the parser, and a  *)
(* builtin on a line of its own is never waited for.                          *)
Control ==
    /\ Active => ~Parse(line).error /\ at \in Procs
    /\ lpc = "wait" /\ Count = 1 => ~Builtin(Name(1))

(* The commands before at were started, the others not yet, and no pipe was   *)
(* missing.                                                                   *)
InOrder ==
    /\ lpc = "spawn" => \A i \in Procs : child[i].state = "none" <=> i >= at
    /\ lpc = "wait" => \A i \in Procs : child[i].state # "none"
    /\ Active => ~PipeFailed

(* The only holder of a pipe's write end is the command before it, unless a   *)
(* file took its place, and that command holds the read end too: end of file  *)
(* comes, and SIGPIPE does not.                                               *)
PipeEnds ==
    Active => \A i \in Procs :
        /\ writers[i] = IF Runs(i) /\ Fills(i) THEN {i} ELSE {}
        /\ Runs(i) /\ i < Count => i \in readers[i]

(* A command that reads its pipe to the end outlives the pipe's writer, one   *)
(* that copies nothing puts no more into its pipe than it writes, and a       *)
(* command not yet started has put nothing there.                             *)
Over == {"ended", "failed", "refused"}
Outlives(i) ==
    child[i].state = "ended" /\ Takes(i) = "all" => child[i - 1].state \in Over \/ ~Fills(i - 1)
Held(i) == IF Fills(i) THEN pipe[i] ELSE 0
Modest(i) == Takes(i) # "all" => Held(i) + child[i].left <= Own(i)
Flow ==
    Active => \A i \in Procs :
        /\ Outlives(i)
        /\ child[i].state = "none" => pipe[i] = 0 /\ child[i].left = 0
        /\ Modest(i)

PipeInv == PipeTypes /\ Control /\ PipelineStatus /\ InOrder /\ PipeEnds /\ Flow

(* While the line stays, so do its commands. *)
LEMMA LineKept ==
    ASSUME line' = line
    PROVE  /\ Cmds' = Cmds /\ Count' = Count /\ Procs' = Procs /\ Parse(line)' = Parse(line)
           /\ Exits' = Exits /\ Status(Count)' = Status(Count)
           /\ \A i : /\ Name(i)' = Name(i) /\ Takes(i)' = Takes(i)
                    /\ Fills(i)' = Fills(i) /\ Own(i)' = Own(i)
<1>1. Parse(line)' = Parse(line)
  OBVIOUS
<1>2. Cmds' = Cmds
  BY <1>1 DEF Cmds
<1>3. Count' = Count
  BY <1>2 DEF Count
<1>4. Procs' = Procs
  BY <1>3 DEF Procs
<1>5. Exits' = Exits
  BY DEF Exits
<1>6. Status(Count)' = Status(Count)
  BY <1>2, <1>3 DEF Status, Name
<1>7. ASSUME NEW i
      PROVE  /\ Name(i)' = Name(i) /\ Takes(i)' = Takes(i)
             /\ Fills(i)' = Fills(i) /\ Own(i)' = Own(i)
  BY <1>2, <1>3 DEF Name, Takes, Fills, Own, FromFile, ToFile
<1> QED
  BY <1>1, <1>2, <1>3, <1>4, <1>5, <1>6, <1>7

(* How a command reads and writes.                                            *)
LEMMA CommandTypes ==
    ASSUME NEW i
    PROVE  /\ Own(i) \in Nat /\ Takes(i) \in {"all", "one", "none"}
           /\ Takes(i) # "none" => i > 1
           /\ Fills(i) => i < Count
<1>1. Own(i) \in Nat
  BY PipelineAssumption DEF Own, Writes
<1>2. Takes(i) \in {"all", "one", "none"} /\ (Takes(i) # "none" => i > 1)
  BY DEF Takes, Reads
<1> QED
  BY <1>1, <1>2 DEF Fills

(* The number of commands is a number.                                        *)
LEMMA CountType ==
    ASSUME PipeTypes
    PROVE  Count \in Nat /\ Procs = 1 .. Count
BY CmdsType DEF PipeTypes, Procs, MaxCommands

(* No line. *)
LEMMA PipeInvInit == PInit => PipeInv
<1> SUFFICES ASSUME PInit PROVE PipeInv
  OBVIOUS
<1>1. Cmds = <<>> /\ Count = 0 /\ Procs = {} /\ line \in Seq(STRING)
  <2>1. Cmds = <<>> /\ line \in Seq(STRING)
    BY ParseEmpty DEF PInit, Cmds
  <2>2. Count = 0
    BY <2>1 DEF Count
  <2> QED
    BY <2>1, <2>2 DEF Procs
<1>2. PipeTypes
  BY <1>1 DEF PInit, PipeTypes
<1>3. Control /\ PipelineStatus /\ InOrder /\ PipeEnds /\ Flow
  BY DEF PInit, Control, PipelineStatus, InOrder, PipeEnds, Flow, Active
<1> QED
  BY <1>2, <1>3 DEF PipeInv

(* The shell has ended.                                                       *)
LEMMA PipeInvGone == ShellGone => PipeInv'
<1> SUFFICES ASSUME ShellGone PROVE PipeInv'
  OBVIOUS
<1>1. Cmds' = <<>> /\ Count' = 0 /\ Procs' = {} /\ line' \in Seq(STRING)
  <2>1. Cmds' = <<>> /\ line' \in Seq(STRING)
    BY ParseEmpty DEF ShellGone, Cmds
  <2>2. Count' = 0
    BY <2>1 DEF Count
  <2> QED
    BY <2>1, <2>2 DEF Procs
<1>2. PipeTypes'
  BY <1>1 DEF ShellGone, PipeTypes
<1>3. Control' /\ PipelineStatus' /\ InOrder' /\ PipeEnds' /\ Flow'
  BY DEF ShellGone, Control, PipelineStatus, InOrder, PipeEnds, Flow, Active
<1> QED
  BY <1>2, <1>3 DEF PipeInv

(* StartLine: the parser refuses the line, or leaves commands to start.       *)
LEMMA PipeInvStart == StartLine => PipeInv'
<1> SUFFICES ASSUME StartLine PROVE PipeInv'
  OBVIOUS
<1>1. line' \in Seq(STRING)
  BY PipelineAssumption DEF StartLine
<1>2. Parse(line') \in Parsed(line', MaxCommands)
  BY <1>1, ParseParses
<1>3. Parse(line').cmds \in Seq(Command(line')) /\ Parse(line').error \in BOOLEAN
  BY <1>2 DEF Parsed
<1>4. Count' = Len(Parse(line').cmds) /\ Count' \in Nat /\ Procs' = 1 .. Count'
  BY <1>3 DEF Count, Cmds, Procs
<1>5. /\ lpc' = IF Parse(line').error \/ Count' = 0 THEN "done" ELSE "spawn"
      /\ last' = IF Parse(line').error THEN 2 ELSE 0
      /\ child' = [i \in 1 .. Count' |-> [state |-> "none", left |-> 0]]
      /\ pipe' = [i \in 1 .. Count' |-> 0]
      /\ writers' = [i \in 1 .. Count' |-> {}]
      /\ readers' = [i \in 1 .. Count' |-> {}]
      /\ at' = 1
  BY <1>4, Zenon DEF StartLine
<1>6. PipeTypes'
  BY <1>1, <1>4, <1>5, PipelineAssumption DEF PipeTypes, Process
<1>7. Control'
  <2>1. Active' => lpc' = "spawn" /\ ~Parse(line').error /\ 1 \in Procs'
    BY <1>3, <1>4, <1>5 DEF Active
  <2> QED
    BY <1>5, <2>1 DEF Control, Active
<1>11. ~PipeFailed'
  BY <1>5 DEF PipeFailed
<1>8. PipelineStatus'
  BY <1>4, <1>5, <1>11 DEF PipelineStatus
<1>9. InOrder' /\ PipeEnds'
  BY <1>4, <1>5, <1>11 DEF InOrder, PipeEnds, Runs, Active
<1>10. Flow'
  <2>1. ASSUME NEW i PROVE Own(i)' \in Nat
    BY PipelineAssumption DEF Own, Writes
  <2> QED
    BY <1>4, <1>5, <2>1 DEF Flow, Active, Outlives, Modest, Held
<1> QED
  BY <1>6, <1>7, <1>8, <1>9, <1>10 DEF PipeInv

(* PipeFails: run_line gives up, with 1.                                      *)
LEMMA PipeInvPipeFails == PipeInv /\ PipeFails => PipeInv'
<1> SUFFICES ASSUME PipeInv, PipeFails PROVE PipeInv'
  OBVIOUS
<1>1. Procs' = Procs /\ Parse(line)' = Parse(line)
  BY LineKept DEF PipeFails
<1>2. Count \in Nat /\ Procs = 1 .. Count /\ at \in Procs /\ ~Parse(line).error
  BY CountType DEF PipeInv, Control, Active, PipeFails
<1>3. child' \in [Procs -> Process] /\ child'[at].state = "nopipe" /\ DOMAIN child' = Procs
  BY <1>2 DEF PipeInv, PipeTypes, PipeFails, Process
<1>4. PipeTypes'
  BY <1>1, <1>2, <1>3 DEF PipeInv, PipeTypes, PipeFails
<1>5. Control' /\ InOrder' /\ PipeEnds' /\ Flow'
  BY DEF PipeFails, Control, InOrder, PipeEnds, Flow, Active
<1>6. PipelineStatus'
  BY <1>1, <1>2, <1>3 DEF PipelineStatus, PipeFailed, PipeFails
<1> QED
  BY <1>4, <1>5, <1>6 DEF PipeInv

(* RunBuiltin: the status is the one of the only command, or the line has     *)
(* exit in it.                                                                *)
LEMMA PipeInvBuiltin == PipeInv /\ RunBuiltin => PipeInv'
<1> SUFFICES ASSUME PipeInv, RunBuiltin PROVE PipeInv'
  OBVIOUS
<1>1. /\ Count' = Count /\ Procs' = Procs /\ Parse(line)' = Parse(line)
      /\ Exits' = Exits /\ Status(Count)' = Status(Count)
  BY LineKept DEF RunBuiltin
<1>2. Count \in Nat /\ Procs = 1 .. Count /\ at \in Procs /\ Cmds[at] \in Command(line) /\ ~Parse(line).error
  BY CountType, CmdsType DEF PipeInv, PipeTypes, Control, Active, RunBuiltin
<1>3. PipeTypes'
  BY <1>1, <1>2 DEF PipeInv, PipeTypes, RunBuiltin
<1>4. Control' /\ InOrder' /\ PipeEnds' /\ Flow'
  BY DEF RunBuiltin, Control, InOrder, PipeEnds, Flow, Active
<1>5. PipelineStatus'
  <2>1. CASE Name(at) = "exit"
    <3>1. Name(at) \in Names(line)
      BY <1>2 DEF Name, Command
    <3>2. Exits
      BY <2>1, <3>1 DEF Names, PipeInv, PipeTypes, Exits
    <3> QED
      BY <1>1, <3>2 DEF PipelineStatus
  <2>2. CASE Name(at) # "exit"
    <3>1. Count = 1 /\ at = 1
      BY <1>2, <2>2 DEF RunBuiltin
    <3>2. last' = Status(Count) /\ child' = child
      BY <3>1 DEF RunBuiltin
    <3>3. ~PipeFailed' /\ child[Count].state = "none"
      BY <1>2, <3>1, <3>2 DEF PipeInv, InOrder, Active, RunBuiltin, PipeFailed
    <3> QED
      BY <1>1, <1>2, <3>1, <3>2, <3>3 DEF PipelineStatus
  <2> QED
    BY <2>1, <2>2
<1> QED
  BY <1>3, <1>4, <1>5 DEF PipeInv

(* WaitChild: the last status is the one of the last command.                 *)
LEMMA PipeInvWait == PipeInv /\ WaitChild => PipeInv'
<1> SUFFICES ASSUME PipeInv, WaitChild PROVE PipeInv'
  OBVIOUS
<1>1. /\ Count' = Count /\ Procs' = Procs /\ Parse(line)' = Parse(line)
      /\ Exits' = Exits /\ Status(Count)' = Status(Count)
      /\ \A i : /\ Name(i)' = Name(i) /\ Takes(i)' = Takes(i)
               /\ Fills(i)' = Fills(i) /\ Own(i)' = Own(i)
  BY LineKept DEF WaitChild
<1>2. Count \in Nat /\ Procs = 1 .. Count /\ at \in Procs /\ ~Parse(line).error
  BY CountType DEF PipeInv, Control, Active, WaitChild
<1>3. PipeTypes'
  BY <1>1, <1>2 DEF PipeInv, PipeTypes, WaitChild
<1>4. Control'
  BY <1>1, <1>2 DEF WaitChild, PipeInv, Control, Active
<1>5. InOrder' /\ PipeEnds'
  BY <1>1 DEF WaitChild, PipeInv, InOrder, PipeEnds, Active, Runs, PipeFailed
<1>6. Flow'
  BY <1>1 DEF WaitChild, PipeInv, Flow, Active, Outlives, Modest, Held
<1>7. PipelineStatus'
  <2> SUFFICES ASSUME at = Count, ~LastFailed PROVE PipelineStatus'
    BY <1>1 DEF PipelineStatus, WaitChild, LastFailed
  <2>1. child[Count].state # "failed" /\ child' = child
    BY <1>2 DEF LastFailed, WaitChild
  <2>2. last' = IF child[Count].state = "refused" THEN 126 ELSE Status(Count)
    BY <2>1 DEF WaitChild, CountsStatus, StatusOf
  <2>3. ~PipeFailed'
    BY <2>1 DEF WaitChild, PipeInv, InOrder, Active, PipeFailed
  <2> QED
    BY <1>1, <1>2, <2>1, <2>2, <2>3 DEF PipelineStatus
<1> QED
  BY <1>3, <1>4, <1>5, <1>6, <1>7 DEF PipeInv

(* A step of command i leaves run_line where it is; with what it does to its  *)
(* process and to the pipes it has the right types.                           *)
CommandFrame(i) ==
    /\ Runs(i)
    /\ line' = line /\ lpc' = lpc /\ at' = at /\ last' = last
    /\ child' \in [Procs -> Process]
    /\ child'[i].state \in {"running", "ended"}
    /\ \A j \in Procs : j # i => child'[j] = child[j]
    /\ pipe' \in [Procs -> 0 .. PipeSize]
    /\ writers' \in [Procs -> SUBSET Nat] /\ readers' \in [Procs -> SUBSET Nat]

(* What such a step leaves alone.                                             *)
LEMMA CommandKeeps ==
    ASSUME PipeInv, NEW i, CommandFrame(i)
    PROVE  PipeTypes' /\ Control' /\ PipelineStatus' /\ InOrder'
<1>1. /\ Count' = Count /\ Procs' = Procs /\ Parse(line)' = Parse(line)
      /\ Exits' = Exits /\ Status(Count)' = Status(Count) /\ \A j : Name(j)' = Name(j)
  BY LineKept DEF CommandFrame
<1>2. Count \in Nat /\ Procs = 1 .. Count /\ i \in Procs /\ child[i].state = "running"
  BY CountType DEF PipeInv, PipeTypes, CommandFrame, Runs
<1>3. PipeTypes'
  BY <1>1, <1>2 DEF PipeInv, PipeTypes, CommandFrame
<1>4. Control'
  BY <1>1, <1>2 DEF PipeInv, Control, Active, CommandFrame
<1>5. \A j \in Procs : \A x \in {"none", "failed", "refused", "nopipe"} :
         child'[j].state = x <=> child[j].state = x
  BY <1>2 DEF CommandFrame
<1>6. DOMAIN child = Procs /\ DOMAIN child' = Procs
  BY DEF PipeInv, PipeTypes, CommandFrame
<1>7. PipeFailed' <=> PipeFailed
  BY <1>5, <1>6 DEF PipeFailed
<1>8. PipelineStatus'
  <2>1. Count > 0 => Count \in Procs
    BY <1>2
  <2>2. Count > 0 => /\ child'[Count].state = "failed" <=> child[Count].state = "failed"
                     /\ child'[Count].state = "refused" <=> child[Count].state = "refused"
    BY <1>5, <2>1
  <2>3. LastFailed' <=> LastFailed
    BY <1>1, <2>2 DEF LastFailed
  <2>4. lpc' = lpc /\ last' = last /\ PipelineStatus
    BY DEF PipeInv, CommandFrame
  <2>5. CASE Count > 0
    BY <1>1, <1>7, <2>2, <2>3, <2>4, <2>5 DEF PipelineStatus
  <2>6. CASE ~(Count > 0)
    <3>1. Count = 0
      BY <1>2, <2>6
    <3> QED
      BY <1>1, <1>7, <2>3, <2>4, <3>1 DEF PipelineStatus
  <2> QED
    BY <2>5, <2>6
<1>9. InOrder'
  BY <1>1, <1>5, <1>7 DEF PipeInv, InOrder, CommandFrame, Active
<1> QED
  BY <1>3, <1>4, <1>8, <1>9

(* Spawn.  The new process is the only one with the write end of its pipe, if *)
(* it writes to it, and it holds the read end as well.                        *)
LEMMA PipeInvSpawn == PipeInv /\ Spawn => PipeInv'
<1> SUFFICES ASSUME PipeInv, Spawn PROVE PipeInv'
  OBVIOUS
<1> DEFINE i == at
           w == [writers EXCEPT ![i] = IF Opened(i) THEN {Shell} ELSE {}]
           r == [readers EXCEPT ![i] = IF Opened(i) THEN {Shell} ELSE {}]
           inherit(h, dropped) ==
               [j \in DOMAIN h |-> IF Shell \in h[j] /\ j # dropped THEN h[j] \cup {i} ELSE h[j]]
           dw == IF ToFile(i) THEN i ELSE 0
           dr == IF FromFile(i) THEN i - 1 ELSE 0
           forked == /\ child' = [child EXCEPT ![i] = [state |-> "running", left |-> Own(i)]]
                     /\ writers' = ClosedWriters(i, inherit(w, dw))
                     /\ readers' = ClosedReaders(i, inherit(r, dr))
           unforked == /\ \/ child' = [child EXCEPT ![i].state = "refused"]
                          \/ child' = [child EXCEPT ![i].state = "failed"]
                       /\ writers' = ClosedWriters(i, w)
                       /\ readers' = ClosedReaders(i, r)
<1>1. /\ Count' = Count /\ Procs' = Procs /\ Parse(line)' = Parse(line)
      /\ \A j : /\ Name(j)' = Name(j) /\ Takes(j)' = Takes(j)
               /\ Fills(j)' = Fills(j) /\ Own(j)' = Own(j)
  BY LineKept DEF Spawn
<1>2. Count \in Nat /\ Procs = 1 .. Count /\ at \in Procs /\ ~Parse(line).error /\ lpc = "spawn"
  BY CountType DEF PipeInv, Control, Active, Spawn
<1>3. lpc' = (IF i = Count THEN "wait" ELSE "spawn") /\ at' = (IF i = Count THEN 1 ELSE i + 1)
  BY DEF Spawn, Next_
<1>4. forked \/ unforked
  BY Zenon DEF Spawn
<1>5. /\ ~(Count = 1 /\ Builtin(Name(i)))
      /\ line' = line /\ pipe' = pipe
  BY Zenon DEF Spawn
<1>6. /\ child[i].state = "none" /\ pipe[i] = 0 /\ child[i].left = 0
      /\ child \in [Procs -> Process]
      /\ pipe \in [Procs -> 0 .. PipeSize]
      /\ writers \in [Procs -> SUBSET Nat] /\ readers \in [Procs -> SUBSET Nat]
  BY <1>2 DEF PipeInv, InOrder, Flow, Active, PipeTypes
<1>7. Own(i) \in Nat /\ (Fills(i) <=> i < Count /\ ~ToFile(i))
  BY CommandTypes DEF Fills
<1>8. /\ child' \in [Procs -> Process]
      /\ child'[i].state \in {"running", "failed", "refused"} /\ child'[i].left <= Own(i)
      /\ \A j \in Procs : j # i => child'[j] = child[j]
  <2>1. CASE forked
    BY <1>2, <1>6, <1>7, <2>1 DEF Process
  <2>2. CASE unforked
    <3>1. PICK x \in {"failed", "refused"} : child' = [child EXCEPT ![i].state = x]
      BY <2>2
    <3>2. child'[i].state = x /\ child'[i].left = 0
      BY <1>2, <1>6, <3>1 DEF Process
    <3>3. child' \in [Procs -> Process] /\ \A j \in Procs : j # i => child'[j] = child[j]
      BY <1>2, <1>6, <3>1 DEF Process
    <3> QED
      BY <1>7, <3>2, <3>3
  <2> QED
    BY <1>4, <2>1, <2>2
<1>9. /\ writers' \in [Procs -> SUBSET Nat] /\ readers' \in [Procs -> SUBSET Nat]
      /\ \A j \in Procs : j # i => writers'[j] = writers[j]
      /\ writers'[i] = IF child'[i].state = "running" /\ Fills(i) THEN {i} ELSE {}
      /\ \A j \in Procs : j # i => readers[j] \ {Shell} \subseteq readers'[j]
      /\ child'[i].state = "running" /\ i < Count => i \in readers'[i]
  <2>1. \A j \in Procs : Shell \notin writers[j]
    <3> TAKE j \in Procs
    <3>1. j # Shell
      BY <1>2 DEF Shell
    <3>2. writers[j] = IF Runs(j) /\ Fills(j) THEN {j} ELSE {}
      BY <1>2 DEF PipeInv, PipeEnds, Active
    <3>3. writers[j] = {j} \/ writers[j] = {}
      BY <3>2, Zenon
    <3> QED
      BY <3>1, <3>3
  <2>2. /\ w \in [Procs -> SUBSET Nat] /\ r \in [Procs -> SUBSET Nat]
        /\ \A j \in Procs : j # i => w[j] = writers[j] /\ r[j] = readers[j]
        /\ w[i] = (IF i < Count THEN {Shell} ELSE {}) /\ r[i] = (IF i < Count THEN {Shell} ELSE {})
    BY <1>2, <1>6 DEF Shell, Opened
  <2>6. \A S, x : x \notin S => S \ {x} = S
    OBVIOUS
  <2> HIDE DEF w, r
  <2>7. dw \in Nat /\ dr \in Nat /\ dr # i /\ (dw = i <=> ToFile(i))
    BY <1>2
  <2> HIDE DEF dw, dr
  <2>3. CASE forked
    <3>1. child'[i].state = "running"
      BY <1>2, <1>6, <2>3
    <3> DEFINE wi == inherit(w, dw)
               ri == inherit(r, dr)
    <3>6. \A j \in Procs : /\ wi[j] = IF Shell \in w[j] /\ j # dw THEN w[j] \cup {i} ELSE w[j]
                           /\ ri[j] = IF Shell \in r[j] /\ j # dr THEN r[j] \cup {i} ELSE r[j]
      BY <2>2
    <3>7. DOMAIN wi = Procs /\ DOMAIN ri = Procs
      BY <2>2
    <3>8. wi \in [Procs -> SUBSET Nat] /\ ri \in [Procs -> SUBSET Nat]
      BY <1>2, <2>2
    <3>12. writers' = ClosedWriters(i, wi) /\ readers' = ClosedReaders(i, ri)
      BY <2>3
    <3> HIDE DEF wi, ri
    <3>2. \A j \in Procs : j # i => wi[j] = writers[j]
      BY <2>1, <2>2, <3>6
    <3>13. \A j \in Procs : j # i => readers[j] \subseteq ri[j]
      BY <2>2, <3>6
    <3>14. i \in Procs /\ i # Shell
      BY <1>2 DEF Shell
    <3>3. writers' \in [Procs -> SUBSET Nat] /\ readers' \in [Procs -> SUBSET Nat]
      BY <3>12, <3>7, <3>8 DEF ClosedWriters, ClosedReaders
    <3>4. \A j \in Procs : writers'[j] = wi[j] \ {Shell}
      BY <3>12, <3>7 DEF ClosedWriters
    <3>5. \A j \in Procs : readers'[j] = IF j = i THEN ri[j] ELSE ri[j] \ {Shell}
      BY <3>12, <3>7 DEF ClosedReaders
    <3>9. \A j \in Procs : j # i => writers'[j] = writers[j] /\ readers[j] \ {Shell} \subseteq readers'[j]
      <4> TAKE j \in Procs
      <4> HAVE j # i
      <4>1. writers'[j] = writers[j] \ {Shell} /\ writers[j] \ {Shell} = writers[j]
        BY <2>1, <2>6, <3>2, <3>4
      <4>2. readers'[j] = ri[j] \ {Shell} /\ readers[j] \subseteq ri[j]
        BY <3>5, <3>13
      <4> QED
        BY <4>1, <4>2
    <3>10. i < Count => i \in readers'[i]
      BY <2>2, <2>7, <3>5, <3>6, <3>14
    <3>11. writers'[i] = IF Fills(i) THEN {i} ELSE {}
      <4>1. CASE Fills(i)
        <5>1. w[i] = {Shell} /\ i # dw
          BY <1>7, <2>2, <2>7, <4>1
        <5>2. writers'[i] = ({Shell} \cup {i}) \ {Shell}
          BY <3>4, <3>6, <3>14, <5>1
        <5>3. ({Shell} \cup {i}) \ {Shell} = {i}
          BY <3>14
        <5> QED
          BY <4>1, <5>2, <5>3
      <4>2. CASE ~Fills(i)
        <5>1. wi[i] = w[i]
          BY <1>7, <2>2, <2>7, <3>6, <3>14, <4>2
        <5>2. w[i] \ {Shell} = {}
          BY <2>2
        <5> QED
          BY <3>4, <3>14, <4>2, <5>1, <5>2
      <4> QED
        BY <4>1, <4>2
    <3> QED
      BY <3>1, <3>3, <3>9, <3>10, <3>11
  <2>4. CASE unforked
    <3>0. PICK x \in {"failed", "refused"} : child' = [child EXCEPT ![i].state = x]
      BY <2>4
    <3>1. child'[i].state # "running"
      BY <1>2, <1>6, <3>0 DEF Process
    <3>3. writers' \in [Procs -> SUBSET Nat] /\ readers' \in [Procs -> SUBSET Nat]
      BY <2>2, <2>4 DEF ClosedWriters, ClosedReaders
    <3>4. \A j \in Procs : writers'[j] = w[j] \ {Shell}
      BY <2>2, <2>4 DEF ClosedWriters
    <3>5. \A j \in Procs : readers'[j] = IF j = i THEN r[j] ELSE r[j] \ {Shell}
      BY <2>2, <2>4 DEF ClosedReaders
    <3>6. \A j \in Procs : j # i => writers'[j] = writers[j] /\ readers[j] \ {Shell} \subseteq readers'[j]
      <4> TAKE j \in Procs
      <4> HAVE j # i
      <4>1. writers'[j] = writers[j] \ {Shell} /\ writers[j] \ {Shell} = writers[j]
        BY <2>1, <2>2, <2>6, <3>4
      <4>2. readers'[j] = readers[j] \ {Shell}
        BY <2>2, <3>5
      <4> QED
        BY <4>1, <4>2
    <3>7. writers'[i] = {}
      BY <1>2, <2>2, <3>4
    <3> QED
      BY <3>1, <3>3, <3>6, <3>7
  <2> QED
    BY <1>4, <2>3, <2>4
<1> HIDE DEF forked, unforked
<1>16. ~PipeFailed'
  <2>1. DOMAIN child = Procs /\ DOMAIN child' = Procs /\ ~PipeFailed
    BY <1>2, <1>6, <1>8 DEF PipeInv, InOrder, Active
  <2> QED
    BY <1>8, <2>1 DEF PipeFailed
<1>10. PipeTypes'
  BY <1>1, <1>2, <1>3, <1>5, <1>6, <1>8, <1>9 DEF PipeInv, PipeTypes
<1>11. Control'
  BY <1>1, <1>2, <1>3, <1>5 DEF Control, Active
<1>12. PipelineStatus'
  BY <1>3 DEF PipelineStatus
<1>13. InOrder'
  <2>1. \A j \in Procs : child[j].state = "none" <=> j >= i
    BY <1>2 DEF PipeInv, InOrder
  <2>2. \A j \in Procs : child'[j].state = "none" <=> j >= i + 1
    <3> TAKE j \in Procs
    <3>1. CASE j = i
      BY <1>2, <1>8, <3>1
    <3>2. CASE j # i
      <4>1. child'[j].state = child[j].state
        BY <1>8, <3>2
      <4> QED
        BY <1>2, <2>1, <3>2, <4>1
    <3> QED
      BY <3>1, <3>2
  <2> QED
    BY <1>1, <1>2, <1>3, <1>16, <2>2 DEF InOrder
<1>14. PipeEnds'
  <2> SUFFICES ASSUME NEW j \in Procs
               PROVE  /\ writers'[j] = IF Runs(j)' /\ Fills(j) THEN {j} ELSE {}
                      /\ Runs(j)' /\ j < Count => j \in readers'[j]
    BY <1>1 DEF PipeEnds, Runs
  <2>1. Runs(j)' <=> child'[j].state = "running"
    BY <1>8 DEF Runs
  <2>2. CASE j = i
    BY <1>9, <2>1, <2>2
  <2>3. CASE j # i
    <3>1. /\ writers[j] = IF Runs(j) /\ Fills(j) THEN {j} ELSE {}
          /\ Runs(j) /\ j < Count => j \in readers[j]
      BY <1>2 DEF PipeInv, PipeEnds, Active
    <3>2. Runs(j) <=> Runs(j)'
      BY <1>6, <1>8, <2>1, <2>3 DEF Runs
    <3>3. writers'[j] = writers[j] /\ readers[j] \ {Shell} \subseteq readers'[j] /\ j # Shell
      BY <1>2, <1>9, <2>3 DEF Shell
    <3> QED
      BY <3>1, <3>2, <3>3
  <2> QED
    BY <2>2, <2>3
<1>15. Flow'
  <2> SUFFICES ASSUME NEW j \in Procs
               PROVE  /\ Outlives(j)'
                      /\ child'[j].state = "none" => pipe[j] = 0 /\ child'[j].left = 0
                      /\ Modest(j)'
    BY <1>1, <1>5 DEF Flow
  <2>1. /\ Outlives(j) /\ Modest(j)
        /\ child[j].state = "none" => pipe[j] = 0 /\ child[j].left = 0
    BY <1>2 DEF PipeInv, Flow, Active
  <2>2. CASE j = i
    <3>1. child'[j].state \notin {"none", "ended"} /\ child'[j].left \in Nat
      BY <1>2, <1>8, <2>2 DEF Process
    <3>2. Held(j)' = 0
      BY <1>1, <1>5, <1>6, <2>2 DEF Held
    <3> QED
      BY <1>1, <1>7, <1>8, <2>2, <3>1, <3>2 DEF Outlives, Modest
  <2>3. CASE j # i
    <3>1. child'[j] = child[j] /\ child'[j].state = child[j].state /\ child'[j].left = child[j].left
      BY <1>8, <2>3
    <3>2. Held(j)' = Held(j)
      BY <1>1, <1>5 DEF Held
    <3>3. Modest(j)'
      BY <1>1, <2>1, <3>1, <3>2 DEF Modest
    <3>4. Outlives(j)'
      <4> SUFFICES ASSUME child[j].state = "ended", Takes(j) = "all", Fills(j - 1)
                   PROVE  child'[j - 1].state \in Over
        BY <1>1, <3>1 DEF Outlives
      <4>1. j > 1 /\ child[j - 1].state \in Over
        BY <2>1, CommandTypes DEF Outlives
      <4>2. j - 1 \in Procs /\ j - 1 # i
        BY <1>2, <1>6, <4>1 DEF Over
      <4> QED
        BY <1>8, <4>1, <4>2
    <3> QED
      BY <2>1, <3>1, <3>3, <3>4
  <2> QED
    BY <2>2, <2>3
<1> QED
  BY <1>10, <1>11, <1>12, <1>13, <1>14, <1>15 DEF PipeInv

(* A process that ends lets go of all its ends. *)
LEMMA LeaveKeeps ==
    ASSUME PipeInv, NEW i, Runs(i), Leave(i),
           line' = line, lpc' = lpc, at' = at, last' = last,
           pipe' \in [Procs -> 0 .. PipeSize]
    PROVE  /\ CommandFrame(i) /\ PipeEnds' /\ i \in Procs
           /\ child'[i].state = "ended" /\ child'[i].left = child[i].left
<1>1. Count' = Count /\ Procs' = Procs /\ \A j : Fills(j)' = Fills(j)
  BY LineKept
<1>2. Count \in Nat /\ Procs = 1 .. Count /\ i \in Procs /\ child[i].state = "running"
  BY CountType DEF PipeInv, PipeTypes, Runs
<1>3. /\ child \in [Procs -> Process]
      /\ writers \in [Procs -> SUBSET Nat] /\ readers \in [Procs -> SUBSET Nat]
  BY DEF PipeInv, PipeTypes
<1>4. /\ child' \in [Procs -> Process]
      /\ child'[i].state = "ended" /\ child'[i].left = child[i].left
      /\ \A j \in Procs : j # i => child'[j] = child[j]
  BY <1>2, <1>3 DEF Leave, Process
<1>5. /\ writers' \in [Procs -> SUBSET Nat] /\ readers' \in [Procs -> SUBSET Nat]
      /\ \A j \in Procs : writers'[j] = writers[j] \ {i} /\ readers'[j] = readers[j] \ {i}
  BY <1>3 DEF Leave
<1>6. CommandFrame(i)
  BY <1>4, <1>5 DEF CommandFrame
<1>7. PipeEnds'
  <2> SUFFICES ASSUME Active, NEW j \in Procs
               PROVE  /\ writers'[j] = IF Runs(j)' /\ Fills(j) THEN {j} ELSE {}
                      /\ Runs(j)' /\ j < Count => j \in readers'[j]
    BY <1>1 DEF PipeEnds, Runs, Active
  <2>1. /\ writers[j] = IF Runs(j) /\ Fills(j) THEN {j} ELSE {}
        /\ Runs(j) /\ j < Count => j \in readers[j]
    BY DEF PipeInv, PipeEnds, Active
  <2>2. CASE j = i
    <3>1. ~Runs(j)'
      BY <1>4, <2>2 DEF Runs
    <3>2. writers'[j] = {}
      BY <1>5, <2>1, <2>2
    <3> QED
      BY <3>1, <3>2
  <2>3. CASE j # i
    <3>1. Runs(j)' <=> Runs(j)
      BY <1>3, <1>4, <2>3 DEF Runs
    <3>2. writers'[j] = writers[j] \ {i} /\ readers'[j] = readers[j] \ {i}
      BY <1>5
    <3> QED
      BY <2>1, <2>3, <3>1, <3>2
  <2> QED
    BY <2>2, <2>3
<1> QED
  BY <1>2, <1>4, <1>6, <1>7

(* Flow, for the commands that a step does not touch: it only ever takes out  *)
(* of another command's pipe.                                                 *)
LEMMA FlowKept ==
    ASSUME PipeInv, NEW i, CommandFrame(i),
           \A j \in Procs : j # i => pipe'[j] <= pipe[j],
           Active /\ child'[i].state = "ended" /\ Takes(i) = "all" => child[i - 1].state \in Over \/ ~Fills(i - 1),
           Active /\ Takes(i) # "all" => (IF Fills(i) THEN pipe'[i] ELSE 0) + child'[i].left <= Own(i)
    PROVE  Flow'
<1>1. /\ Count' = Count /\ Procs' = Procs
      /\ \A j : Takes(j)' = Takes(j) /\ Fills(j)' = Fills(j) /\ Own(j)' = Own(j)
  BY LineKept DEF CommandFrame
<1>2. Count \in Nat /\ Procs = 1 .. Count /\ i \in Procs /\ child[i].state = "running"
  BY CountType DEF PipeInv, PipeTypes, CommandFrame, Runs
<1>3. /\ child \in [Procs -> Process]
      /\ pipe \in [Procs -> 0 .. PipeSize] /\ pipe' \in [Procs -> 0 .. PipeSize]
      /\ \A j \in Procs : j # i => child'[j] = child[j]
      /\ child'[i].state \in {"running", "ended"}
  BY DEF PipeInv, PipeTypes, CommandFrame
<1> SUFFICES ASSUME Active, NEW j \in Procs
             PROVE  /\ Outlives(j)'
                    /\ child'[j].state = "none" => pipe'[j] = 0 /\ child'[j].left = 0
                    /\ Modest(j)'
  BY <1>1 DEF Flow, Active, CommandFrame
<1>4. /\ Outlives(j) /\ Modest(j)
      /\ child[j].state = "none" => pipe[j] = 0 /\ child[j].left = 0
  BY DEF PipeInv, Flow
<1>5. Takes(j) = "all" /\ child[j - 1].state \in Over => child'[j - 1].state \in Over
  <2> SUFFICES ASSUME Takes(j) = "all", child[j - 1].state \in Over PROVE child'[j - 1].state \in Over
    OBVIOUS
  <2>1. j > 1
    BY CommandTypes
  <2>2. j - 1 \in Procs /\ j - 1 # i
    BY <1>2, <2>1 DEF Over
  <2> QED
    BY <1>3, <2>2
<1>6. CASE j = i
  <2>1. Outlives(j)'
    BY <1>1, <1>5, <1>6 DEF Outlives
  <2>2. Modest(j)'
    BY <1>1, <1>6 DEF Modest, Held
  <2> QED
    BY <1>3, <1>6, <2>1, <2>2
<1>7. CASE j # i
  <2>1. /\ child'[j].state = child[j].state /\ child'[j].left = child[j].left
        /\ pipe'[j] <= pipe[j] /\ pipe'[j] \in Nat /\ pipe[j] \in Nat /\ child[j].left \in Nat
    BY <1>3, <1>7, PipelineAssumption DEF Process
  <2>2. Own(j) \in Nat
    BY CommandTypes
  <2>3. Outlives(j)'
    BY <1>1, <1>4, <1>5, <2>1 DEF Outlives
  <2>4. Modest(j)'
    BY <1>1, <1>4, <2>1, <2>2 DEF Modest, Held
  <2> QED
    BY <1>4, <2>1, <2>3, <2>4
<1> QED
  BY <1>6, <1>7

(* The three steps of a command. *)
LEMMA PipeInvWrite ==
    ASSUME PipeInv, NEW i, WritePiece(i)
    PROVE  PipeInv'
<1>1. Count' = Count /\ Procs' = Procs /\ \A j : Fills(j)' = Fills(j)
  BY LineKept DEF WritePiece
<1>2. Count \in Nat /\ Procs = 1 .. Count /\ i \in Procs /\ child[i].state = "running" /\ Runs(i)
  BY CountType DEF PipeInv, PipeTypes, WritePiece, Runs
<1>3. /\ child \in [Procs -> Process]
      /\ pipe \in [Procs -> 0 .. PipeSize]
      /\ writers \in [Procs -> SUBSET Nat] /\ readers \in [Procs -> SUBSET Nat]
      /\ line' = line /\ lpc' = lpc /\ at' = at /\ last' = last
      /\ child[i].left > 0
  BY DEF PipeInv, PipeTypes, WritePiece
<1>4. CASE /\ Fills(i) => pipe[i] < PipeSize
           /\ child' = [child EXCEPT ![i].left = @ - 1]
           /\ pipe' = IF Fills(i) THEN [pipe EXCEPT ![i] = @ + 1] ELSE pipe
           /\ UNCHANGED <<writers, readers>>
  <2>1. /\ child' \in [Procs -> Process]
        /\ child'[i].state = "running" /\ child'[i].left = child[i].left - 1
        /\ \A j \in Procs : j # i => child'[j] = child[j]
    BY <1>2, <1>3, <1>4 DEF Process
  <2>2. /\ pipe' \in [Procs -> 0 .. PipeSize]
        /\ \A j \in Procs : j # i => pipe'[j] = pipe[j]
        /\ Fills(i) => pipe'[i] = pipe[i] + 1
    BY <1>2, <1>3, <1>4, PipelineAssumption
  <2>3. CommandFrame(i)
    BY <1>2, <1>3, <1>4, <2>1, <2>2 DEF CommandFrame
  <2>4. \A j : Runs(j)' <=> Runs(j)
    BY <1>2, <1>3, <2>1 DEF Runs
  <2>5. PipeEnds'
    <3> SUFFICES ASSUME Active, NEW j \in Procs
                 PROVE  /\ writers[j] = IF Runs(j)' /\ Fills(j) THEN {j} ELSE {}
                        /\ Runs(j)' /\ j < Count => j \in readers[j]
      BY <1>1, <1>3, <1>4 DEF PipeEnds, Runs, Active
    <3> QED
      BY <2>4 DEF PipeInv, PipeEnds
  <2>6. Flow'
    <3>1. Active /\ Takes(i) # "all" => (IF Fills(i) THEN pipe[i] ELSE 0) + child[i].left <= Own(i)
      BY <1>2 DEF PipeInv, Flow, Modest, Held
    <3>2. \A j \in Procs : j # i => pipe'[j] <= pipe[j]
      BY <1>3, <2>2, PipelineAssumption
    <3>3. Active /\ Takes(i) # "all" => (IF Fills(i) THEN pipe'[i] ELSE 0) + child'[i].left <= Own(i)
      <4>1. Own(i) \in Nat /\ pipe[i] \in Nat /\ child[i].left \in Nat
        BY <1>2, <1>3, CommandTypes, PipelineAssumption DEF Process
      <4> QED
        BY <2>1, <2>2, <3>1, <4>1
    <3> QED
      BY <2>1, <2>3, <3>2, <3>3, FlowKept
  <2> QED
    BY <2>3, <2>5, <2>6, CommandKeeps DEF PipeInv
<1>5. CASE Fills(i) /\ readers[i] = {} /\ Leave(i) /\ UNCHANGED pipe
  <2>1. ~Active
    BY <1>2, <1>5, CommandTypes DEF PipeInv, PipeEnds
  <2>2. CommandFrame(i) /\ PipeEnds'
    BY <1>2, <1>3, <1>5, LeaveKeeps
  <2>3. Flow'
    BY <1>3, <2>1 DEF Flow, Active
  <2> QED
    BY <2>2, <2>3, CommandKeeps DEF PipeInv
<1> QED
  BY <1>4, <1>5 DEF WritePiece

(* ReadPiece, of a command that leaves after it and of one that goes on.      *)
LEMMA PipeInvRead ==
    ASSUME PipeInv, NEW i, ReadPiece(i)
    PROVE  PipeInv'
<1>1. Count' = Count /\ Procs' = Procs /\ \A j : Fills(j)' = Fills(j)
  BY LineKept DEF ReadPiece
<1>2. Count \in Nat /\ Procs = 1 .. Count /\ i \in Procs /\ child[i].state = "running" /\ Runs(i) /\ i > 1
  BY CountType, CommandTypes DEF PipeInv, PipeTypes, ReadPiece, Runs
<1>3. /\ child \in [Procs -> Process]
      /\ pipe \in [Procs -> 0 .. PipeSize]
      /\ writers \in [Procs -> SUBSET Nat] /\ readers \in [Procs -> SUBSET Nat]
      /\ line' = line /\ lpc' = lpc /\ at' = at /\ last' = last
      /\ child[i].left = 0 /\ pipe[i - 1] > 0 /\ pipe' = [pipe EXCEPT ![i - 1] = @ - 1]
      /\ Takes(i) # "none"
  BY DEF PipeInv, PipeTypes, ReadPiece
<1>4. /\ i - 1 \in Procs
      /\ pipe' \in [Procs -> 0 .. PipeSize]
      /\ \A j \in Procs : pipe'[j] <= pipe[j]
      /\ pipe'[i] = pipe[i]
  <2>1. i - 1 \in Procs /\ i # i - 1
    BY <1>2
  <2>2. pipe[i - 1] - 1 \in 0 .. PipeSize /\ pipe[i - 1] - 1 <= pipe[i - 1]
    BY <1>3, <2>1, PipelineAssumption
  <2>3. \A j \in Procs : pipe'[j] = IF j = i - 1 THEN pipe[i - 1] - 1 ELSE pipe[j]
    BY <1>3, <2>1
  <2>4. pipe' \in [Procs -> 0 .. PipeSize]
    BY <1>3, <2>1, <2>2
  <2>5. \A j \in Procs : pipe'[j] <= pipe[j]
    BY <1>3, <2>2, <2>3, PipelineAssumption
  <2> QED
    BY <1>2, <2>1, <2>3, <2>4, <2>5
<1>5. Active /\ Takes(i) # "all" => (IF Fills(i) THEN pipe[i] ELSE 0) + child[i].left <= Own(i)
  BY <1>2 DEF PipeInv, Flow, Modest, Held
<1>6. CASE Takes(i) = "one"
  <2>1. Leave(i)
    BY <1>6 DEF ReadPiece
  <2>2. CommandFrame(i) /\ PipeEnds' /\ child'[i].left = child[i].left
    BY <1>2, <1>3, <1>4, <2>1, LeaveKeeps
  <2>3. Flow'
    BY <1>4, <1>5, <1>6, <2>2, FlowKept
  <2> QED
    BY <2>2, <2>3, CommandKeeps DEF PipeInv
<1>7. CASE Takes(i) # "one"
  <2>1. child' = [child EXCEPT ![i].left = 1] /\ UNCHANGED <<writers, readers>>
    BY <1>7 DEF ReadPiece
  <2>2. Takes(i) = "all"
    BY <1>3, <1>7, CommandTypes
  <2>3. /\ child' \in [Procs -> Process]
        /\ child'[i].state = "running"
        /\ \A j \in Procs : j # i => child'[j] = child[j]
    BY <1>2, <1>3, <2>1 DEF Process
  <2>4. CommandFrame(i)
    BY <1>2, <1>3, <1>4, <2>1, <2>3 DEF CommandFrame
  <2>5. \A j : Runs(j)' <=> Runs(j)
    BY <1>2, <1>3, <2>3 DEF Runs
  <2>6. PipeEnds'
    <3> SUFFICES ASSUME Active, NEW j \in Procs
                 PROVE  /\ writers[j] = IF Runs(j)' /\ Fills(j) THEN {j} ELSE {}
                        /\ Runs(j)' /\ j < Count => j \in readers[j]
      BY <1>1, <1>3, <2>1 DEF PipeEnds, Runs, Active
    <3> QED
      BY <2>5 DEF PipeInv, PipeEnds
  <2>7. Flow'
    BY <1>4, <2>2, <2>3, <2>4, FlowKept
  <2> QED
    BY <2>4, <2>6, <2>7, CommandKeeps DEF PipeInv
<1> QED
  BY <1>6, <1>7

(* Finish: end of file was seen only after the writer had gone.               *)
LEMMA PipeInvFinish ==
    ASSUME PipeInv, NEW i, Finish(i)
    PROVE  PipeInv'
<1>1. Count \in Nat /\ Procs = 1 .. Count /\ i \in Procs /\ child[i].state = "running" /\ Runs(i)
  BY CountType DEF PipeInv, PipeTypes, Finish, Runs
<1>2. /\ child \in [Procs -> Process]
      /\ pipe \in [Procs -> 0 .. PipeSize]
      /\ line' = line /\ lpc' = lpc /\ at' = at /\ last' = last /\ pipe' = pipe
      /\ child[i].left = 0 /\ Leave(i)
  BY DEF PipeInv, PipeTypes, Finish
<1>3. CommandFrame(i) /\ PipeEnds' /\ child'[i].left = child[i].left
  BY <1>1, <1>2, LeaveKeeps
<1>4. Active /\ Takes(i) = "all" => child[i - 1].state \in Over \/ ~Fills(i - 1)
  <2> SUFFICES ASSUME Active, Takes(i) = "all", Fills(i - 1)
               PROVE  child[i - 1].state \in Over
    OBVIOUS
  <2>0. i > 1
    BY CommandTypes
  <2>1. i - 1 \in Procs /\ i - 1 < Count /\ writers[i - 1] = {}
    BY <1>1, <2>0 DEF Finish, AtEnd
  <2>2. ~Runs(i - 1)
    <3>1. writers[i - 1] = IF Runs(i - 1) /\ Fills(i - 1) THEN {i - 1} ELSE {}
      BY <2>1 DEF PipeInv, PipeEnds
    <3> QED
      BY <2>1, <3>1
  <2>3. child[i - 1].state # "running"
    BY <1>2, <2>1, <2>2 DEF Runs
  <2>4. child[i - 1].state # "none"
    <3>1. CASE lpc = "spawn"
      <4>1. \A j \in Procs : child[j].state = "none" <=> j >= at
        BY <3>1 DEF PipeInv, InOrder
      <4>2. at \in Nat /\ ~(i >= at)
        BY <1>1, <4>1 DEF PipeInv, PipeTypes
      <4> QED
        BY <1>1, <2>1, <4>1, <4>2
    <3>2. CASE lpc = "wait"
      BY <2>1, <3>2 DEF PipeInv, InOrder
    <3> QED
      BY <3>1, <3>2 DEF Active
  <2>5. child[i - 1].state # "nopipe"
    BY <1>2, <2>1 DEF PipeInv, InOrder, PipeFailed
  <2> QED
    BY <1>2, <2>1, <2>3, <2>4, <2>5 DEF Process, Over
<1>5. Active /\ Takes(i) # "all" => (IF Fills(i) THEN pipe'[i] ELSE 0) + child'[i].left <= Own(i)
  <2>1. Active /\ Takes(i) # "all" => (IF Fills(i) THEN pipe[i] ELSE 0) + child[i].left <= Own(i)
    BY <1>1 DEF PipeInv, Flow, Modest, Held
  <2> QED
    BY <1>2, <1>3, <2>1
<1>6. \A j \in Procs : j # i => pipe'[j] <= pipe[j]
  BY <1>2, PipelineAssumption
<1>7. Flow'
  BY <1>3, <1>4, <1>5, <1>6, FlowKept
<1> QED
  BY <1>3, <1>7, CommandKeeps DEF PipeInv

(* A step of the shell or of a command preserves the invariant.               *)
LEMMA PipeInvStep == PipeInv /\ [PNext]_pvars => PipeInv'
<1> SUFFICES ASSUME PipeInv, [PNext]_pvars PROVE PipeInv'
  OBVIOUS
<1>1. CASE ShellStep
  BY <1>1, PipeInvStart, PipeInvPipeFails, PipeInvBuiltin, PipeInvSpawn, PipeInvWait DEF ShellStep
<1>2. ASSUME NEW i \in 1 .. MaxCommands, CommandStep(i) PROVE PipeInv'
  BY <1>2, PipeInvWrite, PipeInvRead, PipeInvFinish DEF CommandStep
<1>3. CASE ShellGone
  BY <1>3, PipeInvGone
<1>4. CASE UNCHANGED pvars
  <2>1. /\ Count' = Count /\ Procs' = Procs /\ Parse(line)' = Parse(line)
        /\ Exits' = Exits /\ Status(Count)' = Status(Count)
        /\ \A i : /\ Name(i)' = Name(i) /\ Takes(i)' = Takes(i)
                 /\ Fills(i)' = Fills(i) /\ Own(i)' = Own(i)
    BY <1>4, LineKept DEF pvars
  <2>2. PipeFailed' = PipeFailed /\ LastFailed' = LastFailed
    BY <1>4, <2>1 DEF pvars, PipeFailed, LastFailed
  <2>3. PipeTypes' /\ Control' /\ InOrder'
    BY <1>4, <2>1, <2>2 DEF pvars, PipeInv, PipeTypes, Control, InOrder, Active
  <2>4. PipeEnds' /\ Flow'
    BY <1>4, <2>1 DEF pvars, PipeInv, PipeEnds, Flow, Active, Runs, Outlives, Modest, Held
  <2>5. PipelineStatus'
    BY <1>4, <2>1, <2>2 DEF pvars, PipeInv, PipelineStatus
  <2> QED
    BY <2>3, <2>4, <2>5 DEF PipeInv
<1> QED
  BY <1>1, <1>2, <1>3, <1>4 DEF PNext

(* The invariant holds of every behaviour of the shell.                       *)
LEMMA PipeInvAlways == PSpec => []PipeInv
<1>1. PInit => PipeInv
  BY PipeInvInit
<1>2. PipeInv /\ [PNext]_pvars => PipeInv'
  BY PipeInvStep
<1> QED
  BY <1>1, <1>2, PTL DEF PSpec

(* For every line without exit, every order of the processes' steps and       *)
(* whatever fails but the last fork: run_line returns 2 for a line it         *)
(* refuses, 1 for a missing pipe, and else what became of the last command.   *)
THEOREM PipelineStatusAlways == PSpec => []PipelineStatus
<1>1. PipeInv => PipelineStatus
  BY DEF PipeInv
<1> QED
  BY <1>1, PipeInvAlways, PTL

(* The processes that wait for each other cannot go round. *)
LEMMA SomeoneMoves == PipeInv => NeverStuck
<1> SUFFICES ASSUME PipeInv, lpc = "wait", Patient, Runs(at)
             PROVE  \E i \in Procs : CanMove(i)
  BY DEF NeverStuck
<1>1. Count \in Nat /\ Procs = 1 .. Count /\ at \in Procs /\ Active
  BY CountType DEF PipeInv, PipeTypes, Control, Active
<1>2. /\ child \in [Procs -> Process]
      /\ pipe \in [Procs -> 0 .. PipeSize] /\ PipeSize \in Nat \ {0}
  BY PipelineAssumption DEF PipeInv, PipeTypes
<1>3. \A j \in Procs : Runs(j) <=> child[j].state = "running"
  BY <1>2 DEF Runs
<1>4. \A j \in Procs : Runs(j) \/ child[j].state \in Over
  <2> TAKE j \in Procs
  <2>1. child[j].state \notin {"none", "nopipe"} /\ child[j] \in Process
    BY <1>1, <1>2 DEF PipeInv, InOrder, PipeFailed
  <2> QED
    BY <1>3, <2>1 DEF Process, Over
(* The last one that runs. *)
<1>5. PICK i \in Procs : Runs(i) /\ \A j \in Procs : j > i => ~Runs(j)
  <2> DEFINE S == {d \in Nat : \E j \in Procs : Runs(j) /\ d = Count - j}
  <2>1. Count - at \in S /\ S \in SUBSET Nat
    BY <1>1
  <2> HIDE DEF S
  <2>2. PICK d \in S : \A y \in S : d <= y
    BY <2>1, MinOfNat
  <2>3. PICK j \in Procs : Runs(j) /\ d = Count - j
    BY <2>2 DEF S
  <2>4. ASSUME NEW k \in Procs, k > j PROVE ~Runs(k)
    <3>1. Count - k \in Nat /\ ~(d <= Count - k)
      BY <1>1, <2>3, <2>4
    <3> QED
      BY <2>2, <3>1 DEF S
  <2> QED
    BY <2>3, <2>4
(* From it back, as long as they run and wait for input that is not there. *)
<1>6. PICK k \in 1 .. i : /\ \A j \in k .. i : Runs(j) /\ (j < i => pipe[j] = 0)
                          /\ \A m \in 1 .. i : (\A j \in m .. i : Runs(j) /\ (j < i => pipe[j] = 0)) => k <= m
  <2> DEFINE S == {m \in 1 .. i : \A j \in m .. i : Runs(j) /\ (j < i => pipe[j] = 0)}
  <2>1. i \in S /\ S \in SUBSET Nat
    BY <1>1, <1>5
  <2> HIDE DEF S
  <2>2. PICK m \in S : \A y \in S : m <= y
    BY <2>1, MinOfNat
  <2> QED
    BY <2>2 DEF S
<1>7. k \in Procs /\ Runs(k) /\ i \in Nat /\ k <= i /\ k \in Nat
  BY <1>1, <1>6
<1>8. CASE child[k].left > 0
  <2>1. CASE Fills(k) => pipe[k] < PipeSize
    BY <1>7, <1>8, <2>1 DEF CanMove
  <2>2. CASE k < i
    <3>1. pipe[k] = 0
      BY <1>6, <1>7, <2>2
    <3> QED
      BY <1>2, <2>1, <3>1
  <2>3. CASE Fills(k) /\ k = i
    <3>1. k + 1 \in Procs /\ k + 1 \in 2 .. Count /\ (k + 1) - 1 = k /\ child[k + 1].state \in Over
      BY <1>1, <1>4, <1>5, <1>7, <2>3, CommandTypes
    <3>2. Takes(k + 1) # "all" \/ NotStarted(k + 1)
      <4> SUFFICES ASSUME Takes(k + 1) = "all", child[k + 1].state = "ended" PROVE FALSE
        BY <3>1 DEF NotStarted, Over
      <4>1. child[k].state \in Over
        <5>1. Outlives(k + 1)
          BY <1>1, <3>1 DEF PipeInv, Flow
        <5> QED
          BY <2>3, <3>1, <5>1 DEF Outlives
      <4> QED
        BY <1>3, <1>7, <4>1 DEF Over
    <3>3. Takes(k) # "all" /\ Own(k) <= PipeSize
      <4>1. ~NotStarted(k)
        BY <1>3, <1>7 DEF NotStarted
      <4>2. \/ Takes(k + 1) = "all" /\ ~NotStarted(k + 1)
            \/ ~Fills(k) \/ NotStarted(k)
            \/ Takes(k) # "all" /\ Own(k) <= PipeSize
        BY <3>1 DEF Patient
      <4> QED
        BY <2>3, <3>2, <4>1, <4>2
    <3>4. pipe[k] + child[k].left <= Own(k)
      BY <1>1, <1>7, <2>3, <3>3 DEF PipeInv, Flow, Modest, Held
    <3>5. pipe[k] < PipeSize
      <4>1. pipe[k] \in Nat /\ child[k].left \in Nat /\ Own(k) \in Nat
        BY <1>2, <1>7, CommandTypes DEF Process
      <4> QED
        BY <1>2, <1>8, <3>3, <3>4, <4>1
    <3> QED
      BY <2>1, <3>5
  <2> QED
    BY <1>7, <2>1, <2>2, <2>3
<1>9. CASE ~(child[k].left > 0)
  <2>1. CASE AtEnd(k) \/ pipe[k - 1] > 0
    BY <1>7, <1>9, <2>1 DEF CanMove
  <2>2. CASE ~AtEnd(k) /\ ~(pipe[k - 1] > 0)
    <3>1. k > 1 /\ k - 1 \in Procs /\ k - 1 < Count /\ pipe[k - 1] = 0 /\ writers[k - 1] # {}
      <4>1. k > 1
        BY <2>2, CommandTypes DEF AtEnd
      <4>2. k - 1 \in Procs /\ k - 1 < Count
        BY <1>1, <1>7, <4>1
      <4>3. pipe[k - 1] = 0
        BY <1>2, <2>2, <4>2
      <4> QED
        BY <2>2, <4>1, <4>2, <4>3 DEF AtEnd
    <3>2. Runs(k - 1)
      BY <1>1, <3>1 DEF PipeInv, PipeEnds
    <3>3. \A j \in k - 1 .. i : Runs(j) /\ (j < i => pipe[j] = 0)
      BY <1>6, <1>7, <3>1, <3>2
    <3>4. k - 1 \in 1 .. i /\ ~(k <= k - 1)
      BY <1>7, <3>1
    <3> QED
      BY <1>6, <3>3, <3>4
  <2> QED
    BY <2>1, <2>2
<1> QED
  BY <1>8, <1>9

(* For any number of commands, with any redirections, and any size of the     *)
(* pipes: run_line never waits for a patient pipeline in which every command  *)
(* waits for another.                                                         *)
THEOREM NeverStuckAlways == PSpec => []NeverStuck
<1>1. PipeInv => NeverStuck
  BY SomeoneMoves
<1> QED
  BY <1>1, PipeInvAlways, PTL

-----------------------------------------------------------------------------
(* mantle-init.  It leaves the initial image for good only with a real root   *)
(* on /newroot or because a status was lost, and what it then finds there     *)
(* decides how it goes on.                                                    *)
RootKnown ==
    /\ newroot \in {"empty", "real"} /\ (newroot = "real" => image.mounts)
    /\ ipc \in {"device", "media", "forked", "waiting", "decide", "switch"} => root = "initramfs"
    /\ ipc = "rootinit" => root = "newroot" /\ newroot = "real" /\ image.init
    /\ ipc = "recovery" => \/ root = "initramfs"
                           \/ newroot = "real" /\ ~image.init
                           \/ newroot = "empty" /\ lost

(* Where the status is believed it tells the truth, or it was lost. *)
StatusKnown ==
    /\ ipc = "switch" => newroot = "real" \/ lost
    /\ ipc = "decide" /\ status = 0 => newroot = "real" \/ lost
    /\ ipc = "forked" => helper = "running" \/ lost
    /\ helper = "running" => ipc \in {"forked", "waiting"}

InitInv == RootKnown /\ StatusKnown /\ DeadEndOnlyByRace

(* The start of process 1. *)
LEMMA InitInvInit == IInit => InitInv
BY DEF IInit, InitInv, RootKnown, StatusKnown, DeadEndOnlyByRace

(* A step of process 1 or of its helper preserves it. *)
LEMMA InitInvStep == InitInv /\ IStep => InitInv'
<1> SUFFICES ASSUME InitInv, IStep PROVE InitInv'
  OBVIOUS
<1> USE DEF InitInv, RootKnown, StatusKnown, DeadEndOnlyByRace
<1>1. CASE TryDevice
  BY <1>1 DEF TryDevice
<1>2. CASE TryMedia
  BY <1>2 DEF TryMedia
<1>3. CASE HelperEnds
  BY <1>3 DEF HelperEnds
<1>4. CASE Wait
  BY <1>4 DEF Wait
<1>5. CASE Decide
  BY <1>5 DEF Decide, Mounted
<1>6. CASE SwitchRoot
  BY <1>6 DEF SwitchRoot
<1>7. CASE ExecSupervise
  BY <1>7 DEF ExecSupervise, Recovery, RootInit, HasSupervise, Complete
<1> QED
  BY <1>1, <1>2, <1>3, <1>4, <1>5, <1>6, <1>7 DEF IStep

-----------------------------------------------------------------------------
(* The composed boot.  Every step of it is a step of one of its parts, or     *)
(* leaves that part alone: to the supervisor and to the shell the others are  *)
(* stuttering.                                                                *)
LEMMA StepOfSupervisor == [Next]_vars => [SupNext]_svars
<1> SUFFICES ASSUME [Next]_vars PROVE [SupNext]_svars
  OBVIOUS
<1>1. CASE InitStep
  BY <1>1 DEF InitStep
<1>2. CASE EnterSupervise
  <2>1. (ipc = "rootinit") \in BOOLEAN
    BY Zenon
  <2>2. SupExec(ipc = "rootinit")
    BY <1>2 DEF EnterSupervise
  <2>3. \E made \in BOOLEAN : SupExec(made)
    BY <2>1, <2>2, Zenon
  <2> QED
    BY <2>3 DEF SupNext
<1>3. CASE Supervise
  BY <1>3 DEF Supervise, SupNext
<1>4. CASE Disturb
  BY <1>4 DEF Disturb, SupNext
<1>5. CASE CheckShell
  BY <1>5 DEF CheckShell
<1>6. ASSUME NEW i \in 1 .. MaxCommands, CheckCommand(i) PROVE [SupNext]_svars
  BY <1>6 DEF CheckCommand
<1>7. CASE ShellEnds
  BY <1>7 DEF ShellEnds
<1>8. CASE CheckScript
  BY <1>8 DEF CheckScript
<1>9. CASE ChecksEnd
  BY <1>9 DEF ChecksEnd, SupNext
<1>10. CASE UNCHANGED vars
  BY <1>10 DEF vars
<1> QED
  BY <1>1, <1>2, <1>3, <1>4, <1>5, <1>6, <1>7, <1>8, <1>9, <1>10 DEF Next

(* The same for the shell and its commands. *)
LEMMA StepOfShell == [Next]_vars => [PNext]_pvars
<1> SUFFICES ASSUME [Next]_vars PROVE [PNext]_pvars
  OBVIOUS
<1>1. CASE InitStep \/ EnterSupervise \/ Supervise \/ Disturb
  BY <1>1 DEF InitStep, EnterSupervise, Supervise, Disturb, Alone
<1>2. CASE CheckShell
  BY <1>2 DEF CheckShell, PNext
<1>3. ASSUME NEW i \in 1 .. MaxCommands, CheckCommand(i) PROVE [PNext]_pvars
  BY <1>3 DEF CheckCommand, PNext
<1>4. CASE ShellEnds
  BY <1>4 DEF ShellEnds, PNext
<1>5. CASE CheckScript \/ ChecksEnd
  BY <1>5 DEF CheckScript, ChecksEnd
<1>6. CASE UNCHANGED vars
  BY <1>6 DEF vars
<1> QED
  BY <1>1, <1>2, <1>3, <1>4, <1>5, <1>6 DEF Next

(* And for process 1, until it is mantle-supervise and forgets what it was.   *)
LEMMA StepOfInit == InitInv /\ [Next]_vars => InitInv'
<1> SUFFICES ASSUME InitInv, [Next]_vars PROVE InitInv'
  OBVIOUS
<1>1. CASE InitStep
  BY <1>1, InitInvStep DEF InitStep
<1>2. CASE EnterSupervise
  BY <1>2 DEF EnterSupervise, InitInv, RootKnown, StatusKnown, DeadEndOnlyByRace
<1>3. CASE UNCHANGED ivars
  BY <1>3 DEF ivars, InitInv, RootKnown, StatusKnown, DeadEndOnlyByRace, Complete
<1>4. ASSUME NEW i \in 1 .. MaxCommands, CheckCommand(i) PROVE UNCHANGED ivars
  BY <1>4 DEF CheckCommand
<1>5. CASE Supervise \/ Disturb \/ CheckShell \/ ShellEnds \/ CheckScript \/ ChecksEnd
  BY <1>3, <1>5 DEF Supervise, Disturb, Alone, CheckShell, ShellEnds, CheckScript, ChecksEnd
<1>6. CASE UNCHANGED vars
  BY <1>3, <1>6 DEF vars
<1> QED
  BY <1>1, <1>2, <1>3, <1>4, <1>5, <1>6 DEF Next

(* The boot implements the supervisor on its own: what is proved of every     *)
(* behaviour of that one holds in the composition.                            *)
THEOREM BootImplementsSupervisor == Spec => SupSpec
<1>1. Init => SupInit
  BY DEF Init
<1> QED
  BY <1>1, StepOfSupervisor, PTL DEF Spec, SupSpec

(* The boot implements the shell on its own, started again and again.         *)
THEOREM BootImplementsShell == Spec => PSpec
<1>1. Init => PInit
  BY DEF Init
<1> QED
  BY <1>1, StepOfShell, PTL DEF Spec, PSpec

(* With any images, services, lines and scripts, and any interpreter: the     *)
(* checks of the boot and the supervision do not spoil each other.            *)
THEOREM BootKeepsPromises ==
    Spec => [](OneInstance /\ AtMostOneAfterStop /\ PipelineStatus /\ NeverStuck)
BY BootImplementsSupervisor, BootImplementsShell, OneInstanceAlways, AtMostOneAfterStopAlways,
   PipelineStatusAlways, NeverStuckAlways, PTL

(* mantle-init gives up only on an incomplete real root, or after it lost the *)
(* status of a mount that failed, however often media, forks and mounts fail. *)
THEOREM DeadEndOnlyByRaceAlways == Spec => []DeadEndOnlyByRace
<1>1. Init => InitInv
  BY InitInvInit DEF Init
<1>2. InitInv => DeadEndOnlyByRace
  BY DEF InitInv
<1> QED
  BY <1>1, <1>2, StepOfInit, PTL DEF Spec

(* run_line never has more commands than its arrays cmds and pids have room   *)
(* for, and the number of the command it starts or waits for is among them.   *)
THEOREM CommandsFit ==
    PSpec => [](Count <= MaxCommands /\ (lpc \in {"spawn", "wait"} => at \in 1 .. MaxCommands))
<1>1. PipeInv => Count <= MaxCommands /\ (lpc \in {"spawn", "wait"} => at \in 1 .. MaxCommands)
  <2> SUFFICES ASSUME PipeInv PROVE Count <= MaxCommands /\ (lpc \in {"spawn", "wait"} => at \in 1 .. MaxCommands)
    OBVIOUS
  <2>1. Count \in 0 .. MaxCommands /\ Procs = 1 .. Count
    BY CmdsType DEF PipeInv, PipeTypes, Procs
  <2> QED
    BY <2>1 DEF PipeInv, Control, Active, MaxCommands
<1> QED
  BY <1>1, PipeInvAlways, PTL
=============================================================================
