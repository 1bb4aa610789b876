------------------------------ MODULE MCRootfs ------------------------------
(* Three entries at most, paths of 0 to 5 bytes.                              *)
EXTENDS Rootfs

MCPaths == {"/a/x", "/a/y", "/b", "/", "", "long"}
MCPathLen == [p \in MCPaths |-> CASE p \in {"/a/x", "/a/y"} -> 4 [] p = "/b" -> 2
                                  [] p = "/" -> 1 [] p = "" -> 0 [] p = "long" -> 5]
MCTop == [p \in MCPaths |-> CASE p \in {"/a/x", "/a/y"} -> "a" [] p = "/b" -> "b"
                              [] p = "long" -> "long" [] OTHER -> "none"]
MCNameLen == [n \in {"a", "b", "long", "none"} |-> IF n = "long" THEN 4 ELSE IF n = "none" THEN 0 ELSE 1]

Packable == [path : MCPaths \ {""}, size : {0, 2}]
MCItems == {s \in UNION {[1 .. n -> Packable] : n \in 1 .. 4} :
              Len(s) = 4 => \A i \in DOMAIN s : s[i].size = 0 /\ s[i].path # "/"}

(* Modules at the limits of the checks: cut short, with wild offsets. *)
EntryAt(a, p, o, z) == [at |-> a, path |-> p, offset |-> o, size |-> z]
MCImages ==
    {[magic |-> m, size |-> z, entries |-> 1, table |-> <<EntryAt(2, p, o, l)>>] :
        m \in BOOLEAN, z \in {1, 4, 5, 7, 8, 9}, p \in {"/a/x", "/b", "", "long"},
        o \in {0, 6, 9, 31}, l \in {0, 2, 3, 31}}
    \cup {[magic |-> TRUE, size |-> z, entries |-> 2,
           table |-> <<EntryAt(2, p, 0, 1), EntryAt(5 + MCPathLen[p], q, o, 2)>>] :
            z \in {9, 10, 11, 13, 14, 16}, p \in {"/a/x", "/b"}, q \in {"/a/y", "/b", "/"},
            o \in {0, 12, 14}}
    \cup {[magic |-> TRUE, size |-> 30, entries |-> n, table |-> <<>>] : n \in {0, 4}}
=============================================================================
