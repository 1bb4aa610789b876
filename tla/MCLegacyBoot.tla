--------------------------- MODULE MCLegacyBoot ---------------------------
EXTENDS LegacyScripts

MCServices == {"log", "network"}
Img(d, m, ok, i, s) == [device |-> d, media |-> m, mounts |-> ok, init |-> i, supervise |-> s]
MCImages == {Img(TRUE, FALSE, TRUE, TRUE, TRUE), Img(FALSE, TRUE, TRUE, TRUE, TRUE),
             Img(TRUE, TRUE, FALSE, TRUE, TRUE), Img(FALSE, FALSE, TRUE, TRUE, TRUE),
             Img(FALSE, TRUE, TRUE, FALSE, TRUE), Img(FALSE, TRUE, TRUE, FALSE, FALSE),
             Img(TRUE, FALSE, TRUE, TRUE, FALSE)}

MCLines == {<<>>, <<"true">>, <<"false">>, <<"exit">>, <<"missing">>, <<"|", "cat">>,
            <<"gen", ">", "f">>, <<"gen", ">">>, <<"gen", "|">>, <<"true", ";", "true">>,
            <<"cat", "<", "f", "x">>, <<"gen", "|", "grep">>, <<"gen", "|", "cat", "|", "cat">>,
            <<"gen", "|", "head">>, <<"gen", "|", "exit">>, <<"gen", "|", "cat", "|", "true">>,
            <<"cat", "|", "cat">>, <<"cd", "|", "cat">>,
            <<"gen", "|", "cat", "<", "f">>, <<"gen", ">", "f", "|", "cat">>, <<"gen", "|", "cat", ">", "f">>,
            <<"cat", "<", "f", "|", "cat", "|", "grep", ">>", "f">>, <<"cat", "|", ">", "f">>}

MCPrograms == [c \in {"true", "false"} |-> IF c = "true" THEN 0 ELSE 1]
Leaf(k, a) == [k |-> k, a |-> a, body |-> <<>>]
Leaves == {Leaf("print", "text"), Leaf("print", "$x"), Leaf("run", "false"), Leaf("run", "nosuch"), Leaf("let", "text"), Leaf("let", "true")}
Guards(bodies) == UNION {{[k |-> "if", a |-> "true", body |-> b], [k |-> "if", a |-> "nosuch", body |-> b],
                          [k |-> "require", a |-> "admin", body |-> b]} : b \in bodies}
Short(nodes) == {<<n>> : n \in nodes}
Inner == Guards({<<>>} \cup Short(Leaves))
Outer == Guards({<<n, Leaf("print", "$x")>> : n \in Inner})
MCTrees == Short(Leaves \cup Inner)
           \cup {<<n, l>> : n \in Leaves, l \in Leaves}
           \cup {<<Leaf("let", "true"), n, Leaf("print", "$x")>> : n \in Outer \cup Leaves}

(* boot.mt, invalid.mt, a misplaced brace, and errors in each statement. *)
MCSources == {
    <<"let", "result", "=", "text", "nl", "if", "command.exists", "(", "true", ")", "{", "nl", "run", "true", "nl", "}", "nl", "print", "text", "nl", "exit", "0", "nl", "eof">>,
    <<"if", "command.exists", "(", "true", ")", "{", "nl", "eof">>,
    <<"{", "run", "true", "}", "eof">>, <<"}", "run", "true", "eof">>,
    <<"let", "x", "text", "nl", "eof">>, <<"print", "nl", "eof">>, <<"if", "true", "nl", "eof">>,
    <<"require", "admin", "run", "true", "eof">>, <<"exit", "eof">>, <<"exit", "1", "eof">>, <<"run", "nl", "eof">>}
MCScripts == {[tree |-> t, tokens |-> <<>>, admin |-> a] : t \in MCTrees, a \in BOOLEAN}
             \cup {[tree |-> <<>>, tokens |-> ts, admin |-> TRUE] : ts \in MCSources}
=============================================================================
