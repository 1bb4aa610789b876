---------------------------- MODULE MantleScript ----------------------------
(***************************************************************************)
(* mantle-script, which executes a script while it parses it.  A script is  *)
(* the sequence of the tokens lex yields, ending in "eof"; the string "$x"  *)
(* stands for "${x}".  The reference is an evaluator of syntax trees, and   *)
(* Render the way a tree is written down.                                   *)
(***************************************************************************)
EXTENDS Naturals, Sequences, SequencesExt

CONSTANTS
    Programs,   \* what is on PATH: a function from names to exit statuses
    MaxVars     \* the bindings vars holds, 128 in the code

ASSUME ScriptAssumption == MaxVars \in Nat

Punctuation == {"{", "}", "(", ")", "="}
Strings == {"text", "$x"}
IsWordToken(t) == t \notin Punctuation \cup Strings \cup {"nl", "eof"}
IsValueToken(t) == IsWordToken(t) \/ t \in Strings

(* The interpreter: the tokens ahead, vars, what was printed and run, the     *)
(* value of the call that just returned, and whether a loop never ends.       *)
Started(tokens, admin) ==
    [ts |-> tokens, vars |-> <<>>, out |-> <<>>, r |-> 0, admin |-> admin, hangs |-> FALSE]

-----------------------------------------------------------------------------
Now(m) == Head(m.ts)
Returns(m, r) == [m EXCEPT !.r = r]
Dropped(m, n) == [m EXCEPT !.ts = SubSeq(@, n + 1, Len(@))]

(* How many tokens from here pass the test; "eof" passes none of them. *)
Ahead(m, Test(_)) == SelectInSeq(m.ts, LAMBDA t : ~Test(t)) - 1
SkipNewlines(m) == Dropped(m, Ahead(m, LAMBDA t : t = "nl"))
skip_lines(m) == Dropped(m, Ahead(m, LAMBDA t : t \notin {"eof", "}"}))

(* A fixed run of tokens: it is consumed up to the first that does not fit,   *)
(* and nothing is given back.                                                 *)
Fits(t, kind) == CASE kind = "word" -> IsWordToken(t) [] kind = "value" -> IsValueToken(t) [] OTHER -> t = kind
Matched(m, shape) ==
    CHOOSE n \in 0 .. Len(shape) :
        /\ \A i \in 1 .. n : Fits(m.ts[i], shape[i])
        /\ n < Len(shape) => ~Fits(m.ts[n + 1], shape[n + 1])
Expect(m, shape) == Dropped(m, Matched(m, shape))
Found(m, shape) == Matched(m, shape) = Len(shape)

(* getvar: the first binding of a name is the one that counts. *)
Bound(name, vars) ==
    LET i == SelectInSeq(vars, LAMBDA b : b.name = name) IN IF i = 0 THEN "" ELSE vars[i].text
Interpolate(t, vars) == IF t = "$x" THEN Bound("x", vars) ELSE t
Bind(vars, name, text) ==
    IF Len(vars) < MaxVars THEN Append(vars, [name |-> name, text |-> text]) ELSE vars

(* run_argv: the status of the program, 127 when there is none. *)
RunArgv(args) ==
    IF args = <<>> THEN 0 ELSE IF args[1] \in DOMAIN Programs THEN Programs[args[1]] ELSE 127

-----------------------------------------------------------------------------
Let(m, execute) ==
    LET shape == <<"word", "=", "value">>
    IN  IF ~Found(m, shape) THEN Returns(Expect(m, shape), 2)
        ELSE [Expect(m, shape) EXCEPT !.r = 0,
                 !.vars = IF execute THEN Bind(@, m.ts[1], Interpolate(m.ts[3], @)) ELSE @]

PrintText(m, execute) ==
    IF ~Found(m, <<"value">>) THEN Returns(m, 2)
    ELSE [Expect(m, <<"value">>) EXCEPT !.r = 0,
             !.out = IF execute THEN Append(@, Interpolate(m.ts[1], m.vars)) ELSE @]

Run(m, execute) ==
    LET n == Ahead(m, IsValueToken)
        args == [i \in 1 .. n |-> Interpolate(m.ts[i], m.vars)]
    IN  [Dropped(m, n) EXCEPT !.r = IF execute THEN RunArgv(args) ELSE 0,
             !.out = IF execute /\ n > 0 THEN Append(@, args[1]) ELSE @]

(* exit: its code is left where it is, to be taken for the next statement. *)
Exit(m, execute) == Returns(m, IF ~Found(m, <<"word">>) THEN 2 ELSE IF execute /\ m.ts[1] = "1" THEN 1 ELSE 0)

BlockExecutes_ignoresOuter(execute, condition) == condition
BlockExecutes(execute, condition) == execute /\ condition

RECURSIVE Statement(_, _), Block(_, _), BlockLoop(_, _, _)

(* if and require: the condition, then the block. *)
Guarded(m, execute, shape, condition) ==
    LET c == Expect(m, shape)
        b == SkipNewlines(c)
    IN  IF ~Found(m, shape) THEN Returns(c, 2)
        ELSE IF ~Found(b, <<"{">>) THEN Returns(b, 2)
        ELSE Block(Expect(b, <<"{">>), BlockExecutes(execute, condition))
Require(m, execute) == Guarded(m, execute, <<"admin">>, m.admin)
If(m, execute) ==
    LET shape == <<"command.exists", "(", "value", ")">>
    IN  Guarded(m, execute, shape, Found(m, shape) /\ m.ts[3] \in DOMAIN Programs)

Statement(m, execute) ==
    LET s == SkipNewlines(m)
        rest == Dropped(s, 1)
    IN  CASE Now(s) \in {"}", "eof"} -> Returns(s, 0)
          [] ~IsWordToken(Now(s)) /\ Now(s) \notin {"}", "eof"} -> Returns(s, 2)
          [] Now(s) = "let" -> Let(rest, execute)
          [] Now(s) = "print" -> PrintText(rest, execute)
          [] Now(s) = "run" -> Run(rest, execute)
          [] Now(s) = "if" -> If(rest, execute)
          [] Now(s) = "require" -> Require(rest, execute)
          [] Now(s) = "exit" -> Exit(rest, execute)
          [] OTHER -> Returns(skip_lines(rest), 2)

(* block's loop: a turn that consumes nothing is repeated for ever. *)
BlockLoop(m, execute, result) ==
    IF Now(m) \in {"}", "eof"} THEN Returns(IF Now(m) = "}" THEN Dropped(m, 1) ELSE m, result)
    ELSE LET s == Statement(m, execute)
             next == SkipNewlines(s)
         IN  IF s.hangs \/ Len(next.ts) = Len(m.ts) THEN [next EXCEPT !.hangs = TRUE]
             ELSE BlockLoop(next, execute, IF s.r # 0 /\ execute THEN s.r ELSE result)
Block(m, execute) == BlockLoop(m, execute, 0)

(* main of mantle-script: one block; a closing brace too many ends it. *)
RunScript(tokens, admin) == Block(Started(tokens, admin), TRUE)

-----------------------------------------------------------------------------
(* Reference: a tree is a sequence of nodes [k, a, b, body].  Eval threads    *)
(* the binding of x, the effects and the last status that was not 0.          *)
RECURSIVE Render(_), Eval(_, _, _)
RenderNode(n) ==
    CASE n.k = "let" -> <<"let", "x", "=", n.a>>
      [] n.k = "print" -> <<"print", n.a>>
      [] n.k = "run" -> <<"run", n.a>>
      [] n.k = "if" -> <<"if", "command.exists", "(", n.a, ")", "{", "nl">> \o Render(n.body) \o <<"}">>
      [] n.k = "require" -> <<"require", "admin", "nl", "{">> \o Render(n.body) \o <<"}">>
Render(tree) == IF tree = <<>> THEN <<>> ELSE RenderNode(Head(tree)) \o <<"nl">> \o Render(Tail(tree))
Source(tree) == Render(tree) \o <<"eof">>

Text(e, t) == IF t = "$x" THEN e.x ELSE t
EvalNode(n, e, admin) ==
    CASE n.k = "let" -> [e EXCEPT !.x = IF e.bound THEN @ ELSE Text(e, n.a), !.bound = TRUE]
      [] n.k = "print" -> [e EXCEPT !.out = Append(@, Text(e, n.a))]
      [] n.k = "run" -> [e EXCEPT !.out = Append(@, Text(e, n.a)), !.r = IF RunArgv(<<Text(e, n.a)>>) = 0 THEN @ ELSE RunArgv(<<Text(e, n.a)>>)]
      [] n.k = "if" -> IF n.a \in DOMAIN Programs THEN Eval(n.body, e, admin) ELSE e
      [] n.k = "require" -> IF admin THEN Eval(n.body, e, admin) ELSE e
Eval(tree, e, admin) == IF tree = <<>> THEN e ELSE Eval(Tail(tree), EvalNode(Head(tree), e, admin), admin)
Meaning(tree, admin) == Eval(tree, [x |-> "", bound |-> FALSE, out |-> <<>>, r |-> 0], admin)
=============================================================================
