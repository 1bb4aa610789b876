-------------------------- MODULE MCConsoleSession --------------------------
(* The four programs of userspace/, each file of every kind, or three files  *)
(* of other programs; paging and EFER as ring 3 needs them, as boot.S sets   *)
(* them, and as boot.S sets them under a firmware that left NXE on.          *)
EXTENDS ConsoleSession
Admitting == [upper |-> {"P", "W", "U"}, efer |-> {"LME", "NXE", "SCE"}]
AsBuilt == [upper |-> {"P", "W"}, efer |-> {"LME"}]
AsBuiltNX == [upper |-> {"P", "W"}, efer |-> {"LME", "NXE"}]
MCMachines == {Admitting, AsBuilt, AsBuiltNX}
NXMachines == {AsBuiltNX}
GoodMachines == {Admitting}
=============================================================================
