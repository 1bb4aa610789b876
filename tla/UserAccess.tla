----------------------------- MODULE UserAccess -----------------------------
(***************************************************************************)
(* What the system calls of kernel/syscall.c do to user memory: which      *)
(* addresses each handler dereferences for which arguments, and the length *)
(* it finds for a string of the caller.  The kernel state the same calls   *)
(* change is in module Syscall.                                            *)
(*                                                                         *)
(* An argument register holds any value below Word.  A character is NUL, a *)
(* slash, or "c" for any other.                                            *)
(***************************************************************************)
EXTENDS Integers, FiniteSets

CONSTANTS
    Word,        \* 2^64
    UserBase,    \* USER_BASE
    UserLimit,   \* USER_LIMIT
    MaxPath,     \* MAX_PATH, the size of the kernel's path buffers
    UnameMin,    \* smallest buffer uname accepts (18)
    UnameSize    \* bytes uname copies (17)

ASSUME AccessAssumption ==
    /\ Word \in Nat /\ UserBase \in Nat \ {0} /\ UserLimit \in Nat
    /\ UserBase < UserLimit /\ UserLimit < Word
    /\ MaxPath \in Nat \ {0}
    /\ UnameMin \in Nat /\ UnameSize \in Nat /\ UnameSize <= UnameMin

VARIABLES
    mem,   \* the user window
    call   \* the last system call: its arguments and what it did

vars == <<mem, call>>

Reg == 0 .. Word - 1
Window == UserBase .. UserLimit - 1
Char == {"NUL", "/", "c"}

Fail == -1

(* The addresses a handler reads and writes through user pointers; buf and   *)
(* len are the buffer the caller offered for output, str its string, found   *)
(* the length computed for it.                                               *)
Call == [reads : SUBSET Int, writes : SUBSET Int, buf : Int, len : Int,
         str : Int, found : Int, result : Int]

Did(rd, wr, b, l, s, f, r) ==
    [reads |-> rd, writes |-> wr, buf |-> b, len |-> l, str |-> s, found |-> f,
     result |-> r]

NoCall == Did({}, {}, 0, 0, 0, Fail, Fail)
Refused(a, n) == Did({}, {}, a, n, 0, Fail, Fail)
Wrote(wr, a, n, r) == Did({}, wr, a, n, 0, Fail, r)
ReadString(rd, a, found, r) == Did(rd, {}, 0, 0, a, found, r)

-----------------------------------------------------------------------------
user_range(address, size) ==
    /\ address >= UserBase
    /\ address <= UserLimit
    /\ size <= UserLimit - address

(* Where the loop of string_length_user stops. *)
Stops(address, n) ==
    \/ n = MaxPath
    \/ ~user_range(address + n, 1)
    \/ mem[address + n] = "NUL"

LoopLength(address) ==
    CHOOSE n \in 0 .. MaxPath :
        Stops(address, n) /\ \A k \in 0 .. n - 1 : ~Stops(address, k)

string_length_user_noCheck(address) ==
    IF ~user_range(address, 1) THEN Fail ELSE LoopLength(address)

(* 0xffffffff is written Fail. *)
string_length_user(address) ==
    IF ~user_range(address, 1) THEN Fail
    ELSE LET n == LoopLength(address)
         IN  IF n = MaxPath \/ ~user_range(address + n, 1) THEN Fail ELSE n

(* The bytes string_length_user reads. *)
string_reads(address) ==
    IF ~user_range(address, 1) THEN {}
    ELSE {a \in address .. address + LoopLength(address) :
            a < address + MaxPath /\ user_range(a, 1)}

-----------------------------------------------------------------------------
Init ==
    /\ mem \in [Window -> Char]
    /\ call = NoCall

(* syscall_write. *)
Write(fd, a, n) ==
    /\ call' = IF fd \notin {1, 2} \/ ~user_range(a, n) THEN NoCall
               ELSE Did(a .. a + n - 1, {}, 0, 0, 0, Fail, n)
    /\ UNCHANGED mem

Filled(S, c) == [x \in Window |-> IF x \in S THEN c ELSE mem[x]]

(* syscall_read: k keys are delivered, fewer than n when the last is Enter. *)
ReadRefused(fd, a, n) ==
    /\ fd # 0 \/ n = 0 \/ ~user_range(a, n)
    /\ call' = Refused(a, n)
    /\ UNCHANGED mem

Read(fd, a, n, k) ==
    /\ fd = 0 /\ n # 0 /\ user_range(a, n)
    /\ k <= n
    /\ call' = Wrote(a .. a + k - 1, a, n, k)
    /\ mem' = Filled(a .. a + k - 1, "c")

(* The string argument of open and of exec, copied to a buffer of MaxPath     *)
(* bytes with its NUL.                                                        *)
CopyPath(a) ==
    LET n == string_length_user(a) IN
    /\ call' = ReadString(
                  string_reads(a) \cup (IF n = Fail \/ n >= MaxPath THEN {} ELSE a .. a + n),
                  a, n, n)
    /\ UNCHANGED mem

(* chdir accepts the one-character string "/". *)
Chdir(a) ==
    LET n == string_length_user(a) IN
    /\ call' = ReadString(
                  string_reads(a) \cup (IF n = 1 THEN {a, a + 1} ELSE {}),
                  a, n, IF n = 1 /\ mem[a] = "/" THEN 0 ELSE Fail)
    /\ UNCHANGED mem

CwdLength == 1     \* the current directory is always "/"

GetcwdFits_noRange(a, n) == n > CwdLength

GetcwdFits_offByOne(a, n) == user_range(a, n) /\ n >= CwdLength

GetcwdFits(a, n) == user_range(a, n) /\ n > CwdLength

(* getcwd copies the directory and its NUL. *)
Getcwd(a, n) ==
    IF GetcwdFits(a, n)
    THEN /\ call' = Wrote(a .. a + CwdLength, a, n, CwdLength)
         /\ mem' = [Filled({a}, "/") EXCEPT ![a + 1] = "NUL"]
    ELSE /\ call' = Refused(a, n)
         /\ UNCHANGED mem

(* readdir: mantle_rootfs_list writes at most the first n bytes (see          *)
(* Rootfs!ListInsideBuffer); k of them here, none when the path is not "/".   *)
Readdir(p, a, n, k) ==
    LET len == string_length_user(p)
        lists == len = 1 /\ user_range(a, n)
    IN  /\ k <= (IF lists /\ mem[p] = "/" THEN n ELSE 0)
        /\ call' = Did(string_reads(p) \cup (IF lists THEN {p, p + 1} ELSE {}),
                        a .. a + k - 1, a, n, p, len, IF k = 0 THEN Fail ELSE k)
        /\ mem' = Filled(a .. a + k - 1, "c")

(* uname copies its whole constant string, both final NULs included. *)
Uname(a, n) ==
    IF user_range(a, n) /\ n >= UnameMin
    THEN /\ call' = Wrote(a .. a + UnameSize - 1, a, n, UnameSize - 1)
         /\ mem' = Filled(a .. a + UnameSize - 1, "c")
    ELSE /\ call' = Refused(a, n)
         /\ UNCHANGED mem

(* sysretq: the caller runs again, and may call again. *)
Return ==
    /\ call # NoCall
    /\ call' = NoCall
    /\ UNCHANGED mem

Handle ==
    \/ \E a \in Reg : CopyPath(a) \/ Chdir(a)
    \/ \E a, n \in Reg : Getcwd(a, n) \/ Uname(a, n)
    \/ \E fd \in 0 .. 2, a, n \in Reg : Write(fd, a, n) \/ ReadRefused(fd, a, n)
    \/ \E a, n, k \in Reg : k # 0 /\ Read(0, a, n, k)
    \/ \E p, a, n, k \in Reg : Readdir(p, a, n, k)

Next == (call = NoCall /\ Handle) \/ Return

Spec == Init /\ [][Next]_vars

-----------------------------------------------------------------------------
(* The user window holds characters and the last call is a record of integers. *)
TypeOK == mem \in [Window -> Char] /\ call \in Call

(* "Les pointeurs userspace sont acceptés uniquement dans la fenêtre": for    *)
(* no argument, wrapping sizes and strings cut by the end of the window       *)
(* included, does a handler dereference an address outside it.                *)
AccessInsideWindow == call.reads \subseteq Window /\ call.writes \subseteq Window

(* A handler writes only inside the buffer it was offered: the NUL of getcwd, *)
(* the two of uname and the Enter key of read are within the stated size.     *)
WritesInsideBuffer == call.writes \subseteq call.buf .. call.buf + call.len - 1

Terminated(a, n) ==
    /\ n \in 0 .. MaxPath - 1
    /\ a .. a + n \subseteq Window
    /\ mem[a + n] = "NUL"
    /\ \A k \in 0 .. n - 1 : mem[a + k] # "NUL"

(* string_length_user returns the length of the string exactly when its NUL   *)
(* lies in the window and in the first MAX_PATH bytes, so that the copy with  *)
(* its NUL fits the kernel's buffer, and the error value otherwise.           *)
StringExact ==
    call.str # 0 /\ call.writes = {} =>
        IF call.found = Fail THEN \A n \in 0 .. MaxPath - 1 : ~Terminated(call.str, n)
                             ELSE Terminated(call.str, call.found)
=============================================================================
