----------------------------- MODULE MCPackageTx -----------------------------
EXTENDS PackageTx
CONSTANTS usr, lib, passwd, shadow, edit, tool, rogue, odd, forged

(* edit and tool share a path; rogue names a critical one after an ordinary   *)
(* one, odd another one with a doubled slash; forged does not verify.         *)
MCManifest == [k \in Packages |->
    CASE k = edit -> <<usr, lib>> [] k = tool -> <<lib>>
      [] k = rogue -> <<usr, passwd>> [] k = odd -> <<shadow>> [] k = forged -> <<usr>>]
MCPlain == [k \in Packages |-> IF k = odd THEN {} ELSE {1, 2}]
MCInitial == [f \in Files |-> IF f = lib THEN Absent ELSE Old]

(* Two commands at once on disjoint paths, with copies that fail, kills and   *)
(* ignored failures; one command at a time with every failure and one process *)
(* identifier for all; the package that spells a name its own way; a backup   *)
(* that fails; a list that is written short.                                  *)
CarefulSetting == [faults |-> {"copy", "kill", "db"}, reuse |-> FALSE,
                   disciplined |-> TRUE, procs |-> Procs, ids |-> Ids, pkgs |-> {edit, tool, rogue}]
RoughSetting == [faults |-> FaultKinds, reuse |-> TRUE, disciplined |-> FALSE,
                 procs |-> {"p"}, ids |-> {11}, pkgs |-> {edit, rogue, forged}]
OddSetting == [faults |-> {"copy", "kill"}, reuse |-> FALSE, disciplined |-> TRUE,
               procs |-> {"p"}, ids |-> {11}, pkgs |-> {odd}]
MCSettings == {CarefulSetting, RoughSetting, OddSetting}
BackupSettings == {[faults |-> {"backup"}, reuse |-> FALSE, disciplined |-> TRUE,
                    procs |-> {"p"}, ids |-> Ids, pkgs |-> {edit, tool}]}
=============================================================================
