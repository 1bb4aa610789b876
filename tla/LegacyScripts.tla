---------------------------- MODULE LegacyScripts ----------------------------
(* The boot with the interpreter of MantleScript in it.                       *)
EXTENDS LegacyBoot, MantleScript

EmptyScript == [tree |-> <<>>, tokens |-> <<"eof">>, admin |-> TRUE]
Tokens(s) == IF s.tree # <<>> THEN Source(s.tree) ELSE s.tokens
ScriptOutcome(s) == IF s = EmptyScript THEN Started(s.tokens, s.admin) ELSE RunScript(Tokens(s), s.admin)

(* A well-formed script without exit prints and runs exactly what its tree    *)
(* says, in order, skips the blocks whose condition fails with all that is    *)
(* nested in them, returns the last status that was not 0, and ends.          *)
ScriptExact ==
    script.tree # <<>> =>
        LET meaning == Meaning(script.tree, script.admin)
        IN  ~ran.hangs /\ ran.out = meaning.out /\ ran.r = meaning.r
=============================================================================
