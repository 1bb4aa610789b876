# MantleOS: models, checks and proofs

This directory holds a TLA+ development of MantleOS, kept beside its source:
modules that model the parts of the system, TLC configurations that check them
on small instances, and TLAPS proofs that hold for every instance. Paths below
are relative to the repository; `kernel.c` and `boot.S` are the files in
`src/kernel/arch/x86_64/`.

## 1. The system

MantleOS is two generations of code in one repository.

* The **current chain** boots on its own kernel: GRUB hands the kernel a
  Multiboot2 information block and a root-filesystem module, and an EFI loader of
  the repository's own means to (section 4 says how far it gets); the kernel
  parses it, mounts the module, loads `/bin/hello` into a fixed two-megabyte user
  window, enters ring 3, and serves ten or so system calls. The exit of the first
  program loads `/sbin/init`, which replaces itself with `/bin/mantle-shell`.
  There is one processor, one address space, one process at a time, and interrupts
  are never enabled; the keyboard is polled.
* The **older chain** (`init/`, `system/`, `services/`, `shell/`, `scripting/`,
  `ui/`) is a set of POSIX programs for a Linux-based image: an init, a service
  supervisor with its control tool, a package manager, a shell, a script
  interpreter. It is concurrent (processes, signals, files as shared state).

### Inventory

| Component | State | Operations | Talks to | What makes it correct |
| --- | --- | --- | --- | --- |
| ELF64 loader (`kernel/process/elf.c`) | user window, `user_page_table`, entry | `mantle_elf_load` | called by kernel main, exec, exit | never stores outside window or table; no page writable and executable; success means the described image |
| Root filesystem (`kernel/fs/rootfs.c`, `userspace/build-rootfs.py`) | mounted module | mount, open, list; packing | kernel main, open/readdir/exec | reads stay in the module, listings in the caller's buffer; what was packed is what is opened |
| System calls (`kernel/syscall.c`) | descriptors, `hello_finished`, marker flag | the dispatch table | every program; loader, rootfs, process | no user pointer is trusted; errors come back; descriptors change only on request |
| Process (`kernel/process/process.c`) | state and exit code | start, exit | syscalls | the state printed is the state reached |
| Keyboard (`kernel/syscall.c`) | none: polls the controller | `keyboard_read`, `syscall_read` | PS/2 controller | the text delivered is the text typed |
| Kernel main (`kernel.c`) | mounted image, console | boot sequence, page diagnostics, exception handler | all of the above | boot ends in a running program or in one stated reason |
| Multiboot2 (`kernel/boot/multiboot2.c`, `kernel.c`) | none | tag walk, module parsing | boot loader | walk stays in the information; first rootfs module wins |
| Framebuffer splash (`kernel/graphics/framebuffer.c`) | the screen | tag walk, drawing | boot loader | the walk ends |
| Page tables, GDT, TSS (`boot.S`) | tables, EFER | early setup, ring switch, SYSCALL entry | processor | ring 3 may run what the loader mapped |
| User programs (`userspace/*.c`) | the line being run | hello, init, shell, mantle | syscalls | the shell comes up, every line is answered |
| EFI loader (`boot/efi/loader.c`) | buffers, boot info | load kernel, build info | firmware, kernel | checks before copies; info matches memory; the kernel is entered as it expects |
| Package manager (`services/mantle.c`) | files, backups, journal | install, remove, rollback | file system | all or nothing, once a transaction that broke off is rolled back |
| Supervisor (`services/mantle-supervise.c`, `mantlectl.c`, `system/mantle-network.c`, `mantle-logd.c`) | pid and ready files | start, restart, stop, status | processes, files | a dead service is restarted, a live one is not started twice |
| Init and root switch (`init/mantle-init.c`, `system/mantle-root-init.c`) | children | mounts, reaping, switch | SIGCHLD | a failed helper is noticed |
| Script interpreter (`scripting/`) | tokens, variables | statement, block | shell | a well-formed script does what it says and ends |
| Shell (`shell/mantle-shell.c`) | pipeline | parse, fork, wait | processes | a pipeline ends |
| Desktop state (`ui/shell/mantle-shell-state.c`) | notification queue | post, dismiss | UI | the bounded queue keeps the newest |

What is hard to test here: checks whose operands can wrap; walks that rely on
checks another function made earlier; a load that fails after it has destroyed
its caller; the order of segments that share a page; key presses that overlap
each other and the reads; a controller that drops codes; hand-overs between
programs that depend on which exits first; and in the older chain crashes
between file operations, signal handlers racing `waitpid`, and processes waiting
for one another. `PROJECT.json` lists each hazard at its line with the
properties that would notice it.

## 2. Modules

| Module | Models | MC module, configurations |
| --- | --- | --- |
| `BootInfo` | first half of `mantle_kernel_main`: magic, `mantle_framebuffer_init`'s tag walk, `find_rootfs`, `mantle_mb2_parse_module`, mount | `MCBootInfo`, `BootInfo.cfg` |
| `EfiBoot` | the EFI loader in front of `BootInfo`, and its jump to `_start` | the same |
| `ElfLoader` | `mantle_elf_load` | `MCElfLoader`, `ElfLoader.cfg` |
| `Rootfs` | `build-rootfs.py`, mount, open, list | `MCRootfs`, `Rootfs.cfg` |
| `UserAccess` | pointer checks of all handlers | `MCUserAccess`, `UserAccess.cfg` |
| `Syscall` | second half of `mantle_kernel_main`, dispatch, descriptors, process, exceptions | through `MCConsoleSession` |
| `ConsoleSession` | the four user programs, or any program, over `Syscall` | `MCConsoleSession`, `ConsoleSession.cfg`, `RingEntry.cfg`, `ExecError.cfg` |
| `Keyboard` | `keyboard_read`, `syscall_read`; controller and typist external | `MCKeyboard`, `Keyboard.cfg`, `SpaceKey.cfg` |
| `PackageTx` | the package manager's install, rollback and remove | `MCPackageTx`, `PackageTx.cfg`, `PackageBackup.cfg` |
| `AtomicInstall` | what `PackageTx` promises: files change by whole packages | through `PackageTx` |
| `InitSwitchRoot` | `mantle-init` and `mantle-root-init` | through `LegacyBoot` |
| `Supervisor` | `mantle-supervise`, its services and session, `mantlectl` | through `LegacyBoot` |
| `ShellPipeline` | `mantle-shell -c` | through `LegacyBoot` |
| `MantleScript` | `mantle-script` | through `LegacyBoot` |
| `LegacyBoot` | the first three above as one boot, with any interpreter | through `LegacyScripts` |
| `LegacyScripts` | `LegacyBoot` with `MantleScript` as its interpreter | `MCLegacyBoot`, `LegacyBoot.cfg` |
| `ElfLoaderProofs`, `UserAccessProofs`, `RootfsProofs`, `BootProofs`, `SyscallProofs`, `KeyboardProofs`, `PackageTxProofs`, `LegacyProofs` | theorems and their proofs (section 5); `SyscallProofs` is about `Syscall` and `ConsoleSession`, `BootProofs` about `BootInfo` and `EfiBoot`, `LegacyProofs` about `LegacyBoot` and its parts | |

Operators whose names end in an underscore and a word (`HandOver_later`,
`Top_keepsAsking`, ...), `PermissionsKept` and `LastPageTruncated` are plausible
slips of the definition that follows them. Nothing uses them; each is
substituted for its original to see that a property notices.

**BootInfo.** `info` is the whole block: total size, a list of tags, and what
lies behind the list (`rest`, repeated). `k` is the tag under the cursor, and
`readEnd` the highest byte looked at; `Places` is where each tag begins, the
sizes before it rounded up to eight and added. The framebuffer walk (`FbEnd`, `FbFound`,
`FbSkip`) has no end bound in the code and has none here; `find_rootfs`
(`FindHeader` .. `FindSkip`) has all of its checks. A command line is its length
and whether it is the expected name. Mounting is summarised by `mountable`, the
verdict that `Rootfs` spells out.

**EfiBoot.** `efi_main` is one step per firmware call (`ReadKernel` ..
`ExitBootServices`) and one per program header; `loads` records what was copied
where. Firmware is external: an allocation makes a new memory map (`mapId`), and
`ExitBootServices` refuses any key but the last. Sums wrap at `Wide` (2^64), that
of the end of the header table too; the module tag truncates at `Word` (2^32), and
a root filesystem of that size is refused. `StartKernel` is the jump: the loader
makes it in long mode (`JumpMode`), `_start` is assembled for protected mode
(`StartMode`), so it ends in a fault; only with equal modes would `BootInfo` begin
with the information the loader built. The other half of the initial states are
those of another loader with any information.

**ElfLoader.** Memory is one function over all addresses, with the window at its
start and kernel bytes behind it, and the table likewise: a store outside would
be visible. `AcceptHeader` clears the window and resets the table, as
`elf.c` does, before any segment is looked at; then one step per program header.
Between two loads the running program may store to any page its permissions
allow (`UserStores`). Addresses wrap at `Word` (2^64 in the code).

**Rootfs.** A module is its size, entry count and table; names are identities
with lengths. `ListStep` is one round of the listing loop with its early stop.
The code's limit tests ask for one byte more than the listing and its NUL take
(`rootfs.c:152`, `:163`), so a buffer that just fits is refused; `ListExact` says
exactly that.
Paths have no space in them, so a separator is never part of a name.

**UserAccess.** `call` records every user address the last handler read or
wrote, the buffer it was offered and what string scan it made. Register values
range over the whole address space, window contents over every string.

**Syscall.** A path has a *kind*, which says what `mantle_rootfs_open` and
`mantle_elf_load` make of the file (`missing`, refused before or after the
window is cleared, refused after an executable segment is in place, accepted
with pages that overlap badly, good). `window` says what the window then holds.
`mixed` is the case of a refused file whose code already replaced the caller's:
the processor continues in it, and it may do anything (`Astray`). Calls are one
step each because interrupts stay off. `machine` holds the flags of the
page-table levels above the loader's and the EFER bits, see section 4.

**ConsoleSession.** Control states of `hello.c`, `init.c`, `mantle-shell.c` and
`mantle.c`, with every system call they make being an action of `Syscall`. In a session
of the kind `any` the programs are unknown and make any calls (`OtherProgram`).

**Keyboard.** The key map is that of `syscall.c`; the controller's queue drops
codes when full and remembers that it did (`lost`). The keys (`AllKeys`) are those
of a US keyboard with media keys. `typed` is what the printed legends say was
typed, without Shift, which the kernel does not look at, and with Num Lock on.
`keyboard_read` ignores the prefix of an extended key: the keypad's Enter and slash
come out right, nine media keys come out as letters. `struck` is `typed` with those
letters. The space bar and the keypad's digits and signs lie beyond the map and
deliver nothing.

**PackageTx.** `install_package`, `rollback_tx` and `remove_package` with one
step per file: backup and record, copy, list, `COMMITTED`. A copy may fail, in
the middle too (a torn file), and a process may be killed between any two steps
or inside a copy, that of the list into the database too; what it leaves is all
that the next command finds. The list itself may be written short (`list`: nobody
looks at what `fprintf` and `fclose` return), or not open again. A list that was cut holds
whole names; a name cut in its middle is taken to name no file, though by chance it
could name another one. Transactions are named by process identifier, which may be
reused, so an old directory may be met again. A line of a manifest is a path and
whether it is spelt as `critical_path` spells it (`Plain`): the code compares
strings, and `safe_rel` admits other spellings of the same path. Verification of the
archive is one verdict.

**InitSwitchRoot.** `mount_real_root`'s loop with the helper as a process of its
own. If it ends while process 1 is between `fork` and `waitpid`, the SIGCHLD
handler takes its status (`lost`) and `status` is still 0; inside `waitpid` the
kernel scans the children before the handler runs, and the status arrives.

**Supervisor.** A pid file is what `kill(pid, 0)` and `waitpid` make of its
number: `alive`, `zombie`, `gone` or `foreign`. `EnsureServices` is both calls of
`ensure_service`, a fork of which may fail. Bounded waits may end at any turn.
`mantlectl` is two steps, reading the session's number and acting on it. `runDir`
says whether `/run/mantle` exists: only `mantle-root-init` makes it. Of the three
boot checks the shell's and the script's are modelled; the third, `mantle-command`,
is a loop over a file that ends, and is left out. `SessionAvailable` (in
`LegacyBoot`, since it spans the checks) begins at the supervisor's exec and so
covers the wait for services and the checks; it excepts a check that hangs, for
which `run_boot_checks` waits without a limit.

**ShellPipeline.** `Parse` is the parser over tokens, `Turn` one turn of its loop; `writers` and `readers`
are the processes that hold each pipe's ends, so that end of file and SIGPIPE
come out of who closed what. A command is how much it reads and writes, and its
redirection. The child's `dup2`s and `open`s are part of the step that forks it:
nobody sees it before they are done. A file that does not open ends the child with
126; one that is read holds as much as `gen` writes; one that is written takes the
place of the pipe. A pipe that cannot be made (`PipeFails`) makes `run_line` return 1
at once. A command without a name in a pipeline is killed by its `execvp(NULL)` and
counts as 128. Commands left behind by a failed pipe or an `exit` are no longer
followed once the shell has ended. `Patient` says of which lines an end can be
promised: of those in which every command takes all it is given from its pipe and
was started, or what comes before it fills no pipe, or copies nothing and writes no
more than a pipe holds. `CanMove` is a command that the kernel does not keep waiting.

**MantleScript.** `Statement` and `BlockLoop` follow the source return by
return; a turn of the loop that consumes no token repeats for ever, and is
recorded as `hangs`. `Meaning` evaluates a syntax tree, `Source` writes it down.

### Composition and refinement

`ConsoleSession` extends `Syscall` and conjoins its actions, so a program step is
a kernel step (theorem `SessionImplementsKernel`). `Syscall` abstracts `ElfLoader` (file kinds), `Rootfs` (paths) and
`UserAccess` (`BadPointer`); `BootInfo` ends where `Syscall` begins. These
summaries are by construction and not checked as refinements.

`EfiBoot` extends `BootInfo`: its last step would be the kernel's first state, did
`_start` begin in the mode the loader jumps in (section 4).

`LegacyBoot` puts its modules one after the other as the programs do: `exec`
ends `InitSwitchRoot` and starts `Supervisor`, `runv` starts the shell and the
interpreter (the constant `Outcome`, which `LegacyScripts` gives) and waits for each. The variables of a program that is gone are reset. The
steps of services, session and `mantlectl` are not interleaved with the checks:
no variable is shared, so each commutes with every step of a check. The code's
line is `true` and its script is `boot.mt`; the run gives them others.

`PackageTx` implements `AtomicInstall` (`Atomic == INSTANCE AtomicInstall WITH ...`,
property `AtomicSpec`): a path shows, to a caller who repairs what broke off,
either all of a package or none of it. The mapping reads a broken transaction as
what its rollback would restore. Of the database `AtomicInstall` promises less: a
copy of the list that fails or is killed (`mantle.c:104`) leaves it with the first
of a package's paths (`known`), and a removal takes those and no others.

## 3. Runs

| Run | Bounds | Shows |
| --- | --- | --- |
| `boot_info` | lists of up to 3 tags from 16 at the limits of the checks, 3 kinds of trailing junk, 9 total sizes, `Word` 128; by EFI some 1900 kernels of up to 3 headers, `Wide` 256, root filesystems below, across and above `Word` | `find_rootfs` never reads past the information; the first deciding tag decides; on a well-formed list the unbounded framebuffer walk stays inside and boot ends; headers and segments are copied inside file and pages; what the EFI loader hands over describes the root filesystem it read |
| `elf_loader` | 4 pages of 2 bytes, 16 addresses, some 680 files of 0 to 3 headers, two loads with user stores between | no store outside, W^X at every step, success means exactly the described image, entry executable |
| `rootfs` | up to 4 packed entries and some 880 hand-made modules, buffers of 0 to 6 bytes | unchecked walks stay inside after a successful mount; listings fit and are exact; pack then open gives the file back |
| `user_access` | 10 addresses, a window of 5, all contents, all arguments | accesses in the window, writes in the buffer, string length exact |
| `console_session` | 4 paths of 6 kinds, all typable commands, or any program making any calls; three machines | boot reaches the shell, where ring 3 is admitted, or halts with a reason; every line is answered, a missing shell is reported, at most one shell is started per boot; every stop is explained, descriptors change only by open and close |
| `keyboard` | 4 presses over five keys, 2 held, queue of 6, reads of 3; 3 presses with a media key, a silent key and Print Screen; every pair of sixteen keys of all kinds; every key of the keyboard | text delivered is text typed unless codes were dropped, for all keys but the space bar, the keypad's characters and the media keys; nothing is invented but the letters of media keys; reads end at Enter or full; Enter ends a read |
| `package_tx` | two commands at once on disjoint paths with failing copies, torn lists and kills; or one at a time with every failure and one identifier for all; or a manifest that spells a critical path otherwise | files change by whole packages (refinement); critical files stay unless a manifest spells them otherwise; nothing is overwritten without its backup; every command ends |
| `legacy_boot` | 7 root filesystems, 2 tries, 2 services, both network modes, 23 lines with up to 3 commands, redirections and pipes of 1 piece, pipes, forks and files that fail, some 270 scripts nested twice | process 1 comes to supervise unless a mount's status was lost; no service twice; one more session at most after a stop; dead services and ended sessions are replaced, and the first session comes unless a check hangs; patient pipelines end; a line has the status of what became of its last command; scripts do what they say |
| `exec_error`, `ring_entry`, `space_key`, `package_backup_error` | | the four disagreements of section 4 |

Why these bounds suffice: the conditions compare an address, a length and a
limit, so a few values on each side of each limit distinguish everything they
can; two loads, two segments, two descriptors and two held keys are the least
at which the sharing and ordering cases occur, and each bound is one more than
that. Counters (`MaxLoads`, `MaxPresses`, `MaxTags`) are guards of the
environment, never of the code modelled. `MaxTags` exceeds the number of tags
any total size in the run allows. `MaxLive` 2 is one more instance than there
should be; `MaxTries` 2 is 50 in the code, and a loop whose turns are alike.

Deadlock is not checked where the system may really stop: a halted machine, a
typist who has typed enough, a boot that has ended.

### Fairness

`ConsoleSession` assumes weak fairness of `CpuStep`: there is one processor, it
is never pre-empted, and every program step is enabled until taken. `ShellRead`,
which waits for a person, is not fair. `Keyboard` assumes it of the polling loop
(`StartRead`, `Poll`), for the same reason, and not of key presses. `BootInfo`
assumes it of the kernel's only thread. `BootDecides` and `LineAnswered` exclude
behaviours in which the processor runs a half-loaded image (`NeverAstray`):
nothing can be promised of those, and `exec_error` shows how they arise.

`PackageTx` assumes weak fairness of each command's own steps, and none of
kills or failures. `LegacyBoot` assumes weak fairness of process 1 and of every
process it waits for, and strong fairness of three things that are tried again
and again: a fork, which fails only while processes or memory are short; the
reaping of each child by `waitpid(-1)`, which scans the children in the order of
their creation, so a restarted service queues behind the others; and the session's
own turn among them. Nothing is assumed of services, sessions, users or signals.

## 4. Disagreements met while modelling

* **exec cannot report a bad segment** (`exec_error`). `elf.c:102` clears the
  window before the segments are validated. A file refused after that makes
  `exec` return -1 into a program that no longer exists; `docs/syscalls.md`
  says an error returns a negative value, and `init.c` tests for it.
* **Ring 3 is not admitted by the upper page-table levels** (`ring_entry`).
  `boot.S` builds them with flags 0x003 and sets EFER.LME only. With that
  configuration no program reaches the shell. The run takes the more favourable
  case in which firmware left NXE on; without it the store of the diagnostics to
  the stack page already faults.
  `console_session` has all three machines: the two that this commit can boot on
  and the one the code intends (`U` at all levels, NXE and SCE set).
  `BootReachesShellOnceAdmitted` is about the last; all the others hold on each.
* **The space bar delivers nothing** (`space_key`). `syscall.c:96` skips codes
  from 54 up before the test for 0x39. Commands with an argument cannot be typed,
  so `Lines` in `console_session` has only commands without a space; the
  corresponding branches (`cd /`, `echo`, `mantle --version`) are in the model
  and become reachable by adding them to `Lines`. The keypad's digits share its
  fate, and the media keys are read as letters (`syscall.c:92-108` ignores the
  prefix); `ExactReadable` leaves these keys out, `NothingInvented` allows those letters.
* **A backup that fails costs the file** (`package_backup_error`). `install_package`
  records a path before it copies the file aside; if that copy fails, `rollback_tx`
  finds no backup, or half of one, and unlinks or overwrites the original
  (`mantle.c:92`, `:101`). `docs/mantle-package.md` says backups are restored on
  error.

Seen in the models, without a run of their own:

* The EFI loader's jump faults. `jump_kernel` (`loader.c:188`) goes to the ELF entry in
  the long mode in which firmware runs the loader. The entry is `_start`, which is
  32-bit code (`boot.S:22-44`); read as 64-bit code its first store goes to an address
  made of two instructions. `make-image.sh:119-129` builds images with this loader, and
  `tests/qemu-boot.sh:146-150` expects `MANTLE_ROOTFS_OK` of an image. The model ends
  such a boot in `fault`; what can be promised is `EfiHandsOver`, that up to the jump
  all is in place, for a root filesystem below 4 GiB. The mounting properties of
  `BootInfo` are about boots by GRUB.
* A critical path is known by one spelling. `critical_path` compares strings
  (`mantle.c:40`); a path spelt with a doubled slash or a leading `./`, which `safe_rel`
  admits, is installed, where `docs/mantle-package.md:27-28` says critical files are
  refused. `CriticalUntouched` excepts paths that a manifest spells so; without the
  exception TLC finds it violated.
* A short list counts as an installation. Nobody looks at what `fprintf` and `fclose` of
  the transaction's list return (`mantle.c:101-102`), and the copies follow the list.
  With a full disk the rest of the package is not installed, and the transaction is
  marked `COMMITTED`, against `docs/mantle-package.md:44`.

* `exit` leaves its code to be read as the next statement, so `boot.mt`, which
  ends in `exit 0`, returns 2. `tests/language-tests.sh` runs it under `set -e`, and
  `MANTLE_MT_OK` is never printed.
* A block that the end of the file cuts short is no error (`mantle-script.c:38`):
  `invalid.mt` returns 0, where `tests/language-tests.sh` expects a failure.
* A statement that begins with punctuation loops for ever (`mantle-script.c:29`).
* `gen | head`: the writer holds the read end of its own pipe, gets no SIGPIPE and
  stays; so does one whose reader reads a file instead (`gen | cat < f`), could not
  be forked or could not open its file. `PipelineEnds` is therefore about patient
  pipelines.
* A pipe that cannot be made returns 1 with the commands before it still running and
  never waited for. A fork that fails counts as status 0 in a pipeline;
  `PipelineStatus` excepts it for the last command.
* A backup left by an earlier transaction of the same number is put back by a rollback,
  also for a path that was absent meanwhile.
* In recovery mode there is no `/run/mantle`, and services are started without end;
  `OneInstance` is about systems that have it.
* A mount that fails just before `waitpid` is taken for a success, and process 1
  leaves the initial image for an empty directory and powers off; `InitSupervises`
  excepts it.
* Two installations on a shared path each commit over the other; `package_tx`
  keeps concurrent commands on disjoint paths.

## 5. Proofs

Each proof module extends the module it is about. An invariant that a run checks
is seldom inductive; the strengthening is given with each result.

**`ElfLoaderProofs`** assumes `SizesAssumption` (positive sizes, a window that ends
below the word size, a stack inside it) and `FilesAssumption` (files are records of
natural numbers, of any content).

* `TypeCorrect`: `TypeOK` is inductive.
* `KernelConfined`: with `TypeOK`, `KernelIntact` is inductive. The heart is
  `SegmentFits`: a segment that passes `user_range` has its bytes and its
  rounded-up pages inside.
* `WriteXorExecute`: likewise, since headers asking for both are refused and
  untouched pages are NX.
* `EntryReachable`: `EntryExecutable` speaks of the end of a load and is not
  inductive. `LastWriterProtects` is: every page touched by an accepted segment
  and by no later one carries that segment's permissions, and `entryValid` was
  set by an accepted executable segment. At the end, disjointness makes that
  segment the last writer of the entry's page.
* `ImageExact`: `LoadedImage` likewise needs `ImageSoFar`, the image of the headers
  before `index`: a byte none of them covers is zero, any other is what the last
  one that covers it says, a page none of them touches is as reset.
  `PagesTouched` and `TouchedPages` show that the pages the loop rewrites are
  those that hold a byte of the segment.

**`UserAccessProofs`** assumes `AccessAssumption` (the window lies below the word
size). `Inv`, the conjunction of the type invariant and the three properties, is
inductive; `LoopLengthLeast` characterises the scan of `string_length_user` as
the least index at which it stops, by well-foundedness of the naturals.
`AccessConfined`, `WritesConfined` and `StringLengthExact` follow.

**`RootfsProofs`** assumes `RootfsAssumption`: non-negative sizes; a first component
shorter than its path; a module the kernel accepts parses to as many entries as its
header says. `MountInv` says that what is mounted is the unchanged module and passed
the checks. `ReadsInsideAlways` is `MountInv` and the maximum of a walk. For
`ListInsideAlways` and `ListExactAlways`, `ListAt` is the invariant of the listing
loop: until a name does not fit, the output holds each name met once and its length
is their sum; once one does not fit, the sum is too large. For
`PackedRoundTripAlways`, the sums in `Packed` are split around an entry (`SumAround`).
The sums are the folds of the community modules; `SumUnfold`, `SumRemove`, `SumAdd`,
`SumPart` and `SumUnion` say what they compute, by induction on cardinality. Induction
is stated for sets (`NatSetInduction`), which the provers can instantiate.

**`BootProofs`** assumes `BootAssumption` (`MaxTags` exceeds what any total size
allows) and `EfiAssumption` (free pages and the file's buffer lie in one memory below
2^64, and so would a header table behind the file). `WalkInv` says where each walk is: the framebuffer walk, which has no bound,
has not passed an end tag (`FbBefore`), so that in a well-formed list the tag under
the cursor lies inside; `find_rootfs` passed only tags that decide nothing, each of
eight bytes or more (`FindBefore`), and what it found is the tag it is at (`Found`).
`EfiInv` adds that the kernel does not run before the loader jumps, that the headers
read so far belong to a table that passed `HeaderOk` (`TableRead`), that each segment
loaded passed `SegmentOk` and got the free pages it asked for, and that no two share
one (`LoadsOk`). `FramebufferInsideAlways`, `FindInsideAlways`, `FirstRootfsMounted`
and `EfiCopiesConfined` follow.

**`SyscallProofs`** assumes `SyscallAssumption`. `KernelInv` is `TypeOK` and
`OneReason`: until the machine halts no reason has been printed, then exactly one.
It gives `StopExplainedAlways`; `DescriptorsByRequestAlways` goes call by call.
`SessionImplementsKernel` shows that each step of the user programs is a kernel step
or changes nothing of the kernel, so that both hold of sessions too.
`OneShellAlways` needs `AfterHello` (init, the shell and mantle run only after the
first exit) and that `ShellHadItsTurn` is stable while no file has replaced its
caller's code (`OnTrack`), which is the exception `OneShellPerBoot` itself makes.

**`PackageTxProofs`** assumes `PackageAssumption` and nothing of how commands are
run: any failures, kills, concurrent commands and reused identifiers. `ListInv` says
how far a list on disk has come (`Recording`, `WholeList`), whose it is
(`OwnTransaction`), that the database holds the first names of manifests, all of them
where no list can be cut short (`Recoverable`), and that no list names a critical path
but one some manifest spells otherwise (`CleanLists`, `Guarded`):
`CriticalUntouchedAlways`, `DatabaseWhole`.

Its second half adds conditions, each with its theorem:

* `CommandsApart`, under `Orderly` (an interrupted command is repeated before any
  other, commands at once are on disjoint paths, identifiers are not reused):
  `OrderInv`, a command stays within the paths it was started on.
* `BackupKept`, under `Tidy` (one command at a time, or `Orderly`) and
  `DistinctPaths` (no manifest names a path twice; if one does, its second copy
  overwrites its first, of which there is no backup): `KeptInv`, what is recorded and not
  yet overwritten equals its backup.
* `ImplementsAtomic`, with the conditions that `AtomicSpec` itself carries (`Careful`:
  `Orderly`, and backups, the transaction's lists and unlinking do not fail; opening,
  copying, the database's list, which may be torn, the mark and kills may). `ViewInv` says for each point of
  each command what its paths, its transaction and the view through the repair
  show; every step is then a step of `AtomicInstall` or a stutter.
* `FailureRestored`, under `Careful`: a failed installation leaves its paths as it
  found them. That the condition is needed is what `package_backup_error` shows.

**`KeyboardProofs`** assumes `KeyboardAssumption`. `KeyInv` has the bounds of queue and
buffer, the line read so far, and `TextPromised`: there is a function `H` with `H[0]`
the text delivered and `H[i]` what will have been delivered after the first `i` codes
of the queue; every `H[i]` is what was struck with characters missing (`Subtext`) and,
when nothing was dropped and the keys are readable, the last one is all of it. A poll shifts `H`,
a press or a release extends it by its codes, also where the controller cuts a prefix from
its code, or Print Screen's and Pause's sequences in the middle.
This avoids induction over the queue. What `FlattenSeq` computes is unfolded by
induction over a set of numbers, and `RowsAgree` compares `keymap` with the
keyboard key by key. `NothingInventedAlways` and `ReadsAreLinesAlways` hold of every
session over every key, the media keys' letters being what `struck` adds to the text;
`ExactReadableAlways` is about sessions without the keys whose code lies behind the end
of `keymap` (run `space_key`) and without media keys.

**`LegacyProofs`** has four parts.

*The supervisor*, from `SupervisorAssumption`. `SupInv` ties the number of
instances to what the pid file's number is (`FileTellsInstance`), the sessions after a
stop to a fork decided before it (`ForkDecidedBefore`), and the published number to
the place in the loop (`SessionWhere`). The theorems are about `SupSpec`, the
supervisor on its own.

*The shell*, from `PipelineAssumption` (a pipe holds something, lines are sequences of
tokens) and about `PSpec`, the shell on its own. That the parser's recursive function
exists and what it returns is shown by induction over a set of numbers of turns left
(`ParseRunExists`, `ParseRunParses`): at most 16 commands, each named by a token of the
line, with one redirection at most. So the arrays `cmds` and `pids` are never overrun (`CommandsFit`). `PipeInv` adds
where `run_line` stands (`Control`), the order in which commands were started
(`InOrder`), the holders of the pipes' ends (`PipeEnds`) and what has gone through them
(`Flow`: a command that reads its pipe to the end outlives the one before it, and one
that copies nothing puts no more into its pipe than it has of its own). `PipeEnds` is the heart: the write end of a pipe is held by the command before
it and by nobody else, which is why its reader sees the end of file; and that command
holds the read end too, which is why it never gets SIGPIPE; a redirection or a failure
only takes holders away. `NeverStuckAlways` then goes
back from the last command that still runs, over those that run and have an empty
pipe behind them, to the first: that one can go on. The induction failed on the first
version of `Patient`, which allowed `gen | cat | true` with a pipe that holds more than
one piece: `cat` adds to its pipe what `gen` wrote, and `true` takes nothing. The bound
in `Patient` now speaks of commands that copy nothing.

*Process 1*, from no assumption. `InitInv` says what a believed status is worth
(`StatusKnown`) and what `/newroot` then holds (`RootKnown`).

*The composition*. Every step of `LegacyBoot` is a step of the supervisor or leaves it
alone, and the same for the shell (`StepOfSupervisor`, `StepOfShell`); so `Spec`
implements `SupSpec` and `PSpec`, and their theorems hold of the boot, for every
interpreter (`BootKeepsPromises`).

Only model-checked:

* everything under `PROPERTY` with `~>` or `<>`: liveness under fairness is outside
  the prover's reach. The safety halves of `PipelineEnds` and `InitSupervises` are
  `NeverStuck` and `DeadEndOnlyByRace`, which are proved. TLC finds both true as
  invariants of `legacy_boot` too; the run's configuration lists the liveness
  properties in their place;
* `ScriptExact`: the interpreter and the meaning of a script are recursive operators;
* that `Syscall`'s file kinds and verdicts summarise `ElfLoader`, `Rootfs` and
  `UserAccess`.

## 6. Not modelled

* The TLB: `exec` rewrites the table without an invalidation, and the models
  apply table changes at once.
* The serial port, VGA text, drawing and number formatting: output only. The GDT
  and TSS: constants that no code changes after boot.
* A `chroot` or `chdir` that fails in `switch_root`, which the code answers like a
  missing init.
* Characters: quoting, expansion and token lengths of the shell and the
  interpreter. `mantle-command` (a loop up to the first line that fails) and the
  interactive loop of the older shell, which only repeats `run_line`.
* What `mantle-logd` and `mantle-network` do inside, but for `network.ready`; the
  script that creates it is not in the repository.
* The package manager's archive and signature verification, beyond its verdict, and
  its commands that only start another program.
* The desktop state: a sequential record that no booted program uses yet. The splash
  program, build scripts and image tooling.

## 7. Plan

Done, in order: `ElfLoader`, `Rootfs`, `UserAccess`, `Syscall`,
`ConsoleSession`, `Keyboard`, `BootInfo`, the first proofs; then `PackageTx` with
`AtomicInstall`, `Supervisor`, `InitSwitchRoot`, `ShellPipeline`, `MantleScript`,
`LegacyBoot` and `EfiBoot`; then the proofs of section 5, last those of the shell,
of process 1 and of the composed boot. Left:

1. The loader as one atomic step (`Syscall`'s file kinds) refined by `ElfLoader`.
