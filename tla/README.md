# A specification of VoidTerm

TLA+ modules that model VoidTerm, a terminal for Android with an installable Linux
root file system, the TLC configurations that check them, and proofs for TLAPS.
Sources are named relative to `src/app/src/main/` (`cpp/` for the native engine,
`java/` for `java/com/asotn/voidterm/`).

## The system

VoidTerm is a Java application over a C library. `ui/TerminalActivity` shows one
terminal screen. Its `TerminalSession` runs a shell through one of two backends: a
pty of the native library, or a `ProcessBuilder` process. The first screen offers a
menu of distributions; choosing one starts `BootstrapService`, which downloads the
runtime binaries and a root file system and then tells the screen by a broadcast to
restart its session. Package operations go through `PackageEngine` to C code that runs
apt under proot and hands back what it printed. The rest of the native library is called
through two JNI files for one purpose each: it parses the terminal's output and keeps its
screen, and it keeps the history and the aliases of the command line; paths, quoting and
hashes are functions without state.

Not all of the library is reached by the application yet. Its screen runs
`TerminalSession`, `NativeTerminal` with the PTY manager, the installer and
`EnvironmentManager`. The JNI files export the screen, the history, the aliases and the first
word of a line too, but `NativeTerminal` declares natives for the ptys alone; no class creates
a `PackageEngine` or calls `NativeFs`; `io_buffer.c`, `env_manager.c` and `md5.c` have no
caller in the library, save `env_init` in `include/voidterm.h`. The modules about these parts
say what the code does for whoever will call it, and what their violated runs show is true of
the code before it is of anything a user sees.

| Component | State | Operations | Talks to |
|---|---|---|---|
| PTY manager (`cpp/terminal/pty_manager.c`) | 8 session slots, a counter, the kernel's processes and descriptors | init, open, close, resize, signal, is_alive, destroy, read, write | called through the JNI bridge from any thread |
| JNI bridge, `java/engine/NativeTerminal` | `initialized`, `sessionId` | one per PTY function | TerminalSession above, PTY manager below |
| `java/terminal/TerminalSession` | `running`, backend fields, reader threads, the notifications of the session and of a download | start, stop, sendInput, the reader loops | NativeTerminal, ProcessBuilder, NotificationManager |
| `java/ui/TerminalActivity` | the session, `awaitingDistroChoice` | create, destroy, broadcast receiver, input | TerminalSession, BootstrapService |
| `java/service/BootstrapService` | `distro`, the last thread, files on disk | onStartCommand, runBootstrap, onDestroy | EnvironmentManager, the screen (broadcasts), busybox tar |
| `java/utils/EnvironmentManager` | preferences and paths | isBootstrapped, markBootstrapped, runtimeBinariesReady | everyone |
| I/O ring buffer (`cpp/terminal/io_buffer.c`) | array, head, tail | write, read, peek, clear | one producer and one consumer thread |
| `java/terminal/SessionManager` | table of 8 sessions, the active one, listeners | create, destroy, switch, destroyAll | TerminalSession |
| `java/engine/PackageEngine`, `java/service/PackageService` | the executor's queue, messages to the main thread, the service's foreground state | update, install, remove, upgrade, search, isInstalled | package JNI, process runner, service intents |
| Process runner (`cpp/terminal/process_runner.c`) | a pipe and a child per call | process_run | every process forked meanwhile, which inherits the pipe |
| Escape parser, VT100 (`cpp/terminal`) | parser state, parameters, screen, cursor, scroll region, attributes | feed, resize, init | terminal JNI |
| History (`cpp/shell/history_manager.c`) | entries, navigation position, the file | add, prev, next, clear, save, load | terminal JNI |
| Aliases, environment table (`cpp/shell`) | two arrays of names and values | set, get, unset, initial contents, destroy; expand | terminal JNI |
| Tokenizer (`cpp/shell`) | - | a line in, tokens out | terminal JNI |
| Quoting (`cpp/shell/shell_quote.c`) | - | text in, text out | package, network and signature code, which puts it into commands for a shell |
| Paths (`cpp/fs/path_resolver.c`), file utilities | the root file system's path | normalize, guest to host and back, join | fs JNI |
| Hashes (`cpp/crypto`) | a buffer, a length, the hash so far | init, update, final | fs JNI |
| HTTP client, progress tracker (`cpp/net`) | a download and its speed | download, update | only the repository helper, on a path no JNI function takes |
| apt, dpkg, repository helpers (`cpp/package`) | configured paths | command line in, text out | process runner |

**What is hard.** The screen's main thread, a reader thread per shell, the shells
themselves and the installer's threads share flags and files without locks. Restarting
a session reuses the flag its old reader still looks at. The native table is one per
process while every session object initialises it. The installer may be started twice,
may fail at every step, and may lose its process at any moment, and what it leaves on
disk decides what the next process believes. The ring buffer relies on each side owning
one counter, and the counters wrap. Package operations of one executor share a service
that each of them starts and stops, and their pipes are inherited by whatever is forked
at the same time. The screen takes its margins, its saved cursor and its pending wrap
through resizes, and control sequences arrive in pieces. The history's file is emptied
before it is written.

**What makes each part correct.** The table never gives two sessions one shell, never
signals a pid it does not own, counts what it holds. A session leaves no shell behind, sends
input to the current shell, notices its end, and disappears from the device with its screen.
What counts as installed is a whole root file system of the named distribution, and the user
is never left without a way on. The ring is a queue. An operation's result is what its own
child wrote, results come in order, and the service leaves the foreground with the work. A
write of the screen stays in its cells, scrolling and erasing change the lines they name, a
resize keeps text in its rows, and a sequence hands over the numbers written in it. The
navigation through the history shows each entry in turn; a table is a partial function of
names; quoted text is one word for the shell that reads it; an alias replaces the first word
and no other; a guest path stays below the root file system; what is hashed is the message
with its padding. `PROJECT.json` lists the hazards, each at its line, with the properties
that cover it.

## The modules

- **`PtyManager`** models `pty_manager.c`: `slots` is `g_sessions`, `count` is
  `g_session_count`; `shell`, `master` and `hup` are the kernel's side. Each exported
  function is one action. This is the library's contract for calls that do not overlap.
  Slot numbers come in any order, because sessions share the table and keep the number
  they were given. A member of `Shell` is one incarnation of a pty (its pid and its
  descriptor); since incarnations are never reused in the model, "a recycled pid or
  descriptor" is one whose shell is reaped or whose master is closed. `wiped` is a history
  variable: the sessions that a repeated `pty_manager_init` overwrote. `sent` is the set
  of shells the last call signalled. `MCPtyManager` adds the symmetry of the ptys.
- **`PtyManagerProofs`**, **`TerminalSessionProofs`**, **`NativeLibraryProofs`**,
  **`BootstrapProofs`**, **`IoBufferProofs`**, **`PackageEngineProofs`** and
  **`Vt100Proofs`** hold the proofs about the modules they are named after, and
  **`FoldFacts`** the facts about folds over sequences that `Vt100Proofs` and
  `NativeLibraryProofs` instantiate.
- **`TerminalSession`** models one session: the main thread (`ui` is its position in `start`
  and `stop`), a reader thread per shell (`reader[k]`), the shells, and the installer's two
  effects on it (the root file system disappears, the broadcast is queued). A reader that
  has read output looks for the progress of a download in it (`CheckProgress`), shows the
  download notification and may queue its cancel; `download` says which reader posted the
  one that is shown, `clearing` how many cancels wait. Shell `k` is the k-th launched.
  "closing" stands for the time between the end of a shell's output and the moment `waitpid`
  can collect it.
- **`Bootstrap`** models an installation: the screen, service instances (an instance is
  named by its first thread), the threads' program counters `pc`, and the files. A root file
  system is the set of parts extracted so far, a downloaded file is absent, partial or
  whole. An archive is a file under one of two names, by its extension (`Ext`, `linked`), so
  that distributions of different extensions download side by side and those of the same
  write into one file; who has a file open keeps it when its name is deleted (`file`).
  `ProcessDies` may happen at any step and keeps only what is on disk. `clash` is a history
  variable: an installation was begun beside another, or over one that was recorded as done.
- **`ByteQueue`** is what a byte buffer promises; **`IoBuffer`** models the ring that
  implements it, one step for the loads, one per byte, one for the store. The refinement
  `ImplementsQueue` maps the queue to the published bytes.

- **`EscapeParser`** is `escape_parser.c` as a function: `ParserFeed(parser, byte)` is the
  parser afterwards and the action to perform. Bytes are numbers, because the code
  compares them with ranges. `DecodeColor` is `escape_decode_color`.
- **`Vt100`** EXTENDS it with the screen: the record `vt` is `vt100_t`, its cells one flat
  array. An action feeds a whole byte string, as a call of `vt100_feed` does, or resizes,
  or starts anew. A write or a move of memory outside the array sets `vt.fault` and ends the
  behaviour: what the program does afterwards is undefined. `shrunk` is a history variable.
  `MCVt100` chooses the byte strings.
- **`HistoryManager`** is `history_manager.c` with its file; a save is two steps, and the
  process may die between them and leave a part of the file.
- **`KeyTable`** is the array that `alias_engine.c` and `env_manager.c` both have;
  **`NameMap`** is what it promises, a partial function of names.
- **`CommandTokenizer`**, **`PathResolver`** and **`Digest`** are pure functions: lines into
  tokens, quoting and alias expansion with the limits of their buffers, and beside them the
  shell that reads what was quoted (`ShellWords`, which is external); paths as sequences of
  the names between slashes; a message as the blocks `sha256.c` digests, with the digest of
  a block left abstract.
- **`NativeLibrary`** composes the history, two tables and the pure functions as the native
  library of one process: calls, a save in progress, and the end of the process, which keeps
  the history's file only. `MCNativeLibrary` gives it small alphabets.
- **`Md5`** is `md5.c` over the block functions of `Digest`, fed in pieces.
- **`ProcessRunner`** is `process_run` for several threads: pipe, fork, the parent's close of
  the write end, the read loop, the wait. `holders` are the processes that have the write
  end open; whatever is forked while the parent has it open joins them, also the shell of a
  pty. The parameter `timeout_ms` is in no guard because the code never looks at it.
- **`PackageEngine`** EXTENDS it with the executor, the main thread's messages and the
  service. Its thread "worker" runs apt, its thread "main" runs `isInstalled`, which blocks
  the main thread. A posted result carries what its child wrote as a history field.

How they meet: `PackageEngine` calls `ProcessRunner` and shares with `PtyManager` the fork
of a shell (`ForkShell` there is `OpenOk` here as the pipes see it). `TerminalSession` uses
of the pty table what `NativeTerminal` passes on (open, a read that ends, is_alive,
destroy); its `WipeRootfs` and `InstallDone` are `StartTar` and `Done` of `Bootstrap` as the
session sees them.

## The runs

| Run | Question | Bounds | Outcome |
|---|---|---|---|
| `pty_table` | Who owns shells and descriptors, and what does the counter count? | 2 slots, 5 ptys, symmetric | holds |
| `pty_capacity` | Is an open refused only when that many sessions are active? | 2 slots, 3 ptys | violated: one slot is free |
| `session` | Do flag, notifications, shells and readers stay in step? | one installation, so two shells; one delayed cancel in the queue | holds |
| `session_switch` | Is "[Session ended]" printed only when it ended? | same | violated |
| `session_indicator` | Is the notification shown while a session is active? | same | violated |
| `bootstrap` | Is what counts as installed whole, and does the user always get on? | 3 distributions, two of them with the same archive name, 2 installations | holds |
| `bootstrap_mix` | Do distributions stay apart? | 2 distributions with an archive each, 2 installations | violated |
| `io_buffer` | Is the ring a queue, without races? | 2 byte values, 4 slots, counters modulo 8, requests up to 3 | holds |
| `screen` | Do writes stay in the cells, and do scrolling, erasing, resizing and parsing do what they say? | screens of 2x2, 1x2 and 2x1, 2 parameters, an OSC buffer of 2 bytes, 50 byte strings | holds |
| `library` | Are history and tables right under any calls and crashes, and the pure functions on all short inputs? | 2 history entries, 3 alias names in 2 places, 2 variables in 1, lines of 4 of 6 characters, tokens, alias words and output buffers of 4, 3 and 8 characters, paths of 5 of 5 names, blocks of 16 bytes and messages up to 36 | holds |
| `packages` | Is every operation answered with its own output, and does the service end with the work? | 2 operations of 3, outputs of up to 3 pieces, a buffer of 2, reads of 2 | holds |
| `md5` | Is the message that is digested the message that was fed? | messages up to 200 bytes, in pieces of 1, 8, 55, 64 | violated |

Why the bounds are enough. Two slots let one be taken while the other is free, five ptys
fill the table, lose it to `init`, and fill it again. One installation gives a session
one restart, with the old reader and the new shell alive together; a second restart meets
the same pair again. Two installations give every pair of overlapping threads, of
two archives and, with the third distribution, of one. A ring of
four slots with requests up to three has copies that stop before, at and after the end of
the array, and counters modulo eight wrap after two rounds; no property depends on more.

Screens of two rows or two columns have a first, a last and a pending-wrap position, and
regions of one and of two lines; a resize between the three sizes shrinks and grows each
dimension; the byte strings hold every control character and final byte the code switches
on, with no count, a count of one and a count past the end of the line, and fragments that
let a sequence arrive in two reads. Two parameters and an OSC buffer of two bytes are filled
and overrun. A history of two entries evicts, and its keys meet both ends. Lines of four
characters hold each kind of character the tokenizer distinguishes, before and after a
quote, and have words that fit an alias and words that do not, new lines that fit the output
buffer and longer ones; paths of five names overrun the `MaxParts` of four. The size of a
block is a parameter (64 in the code): messages up to 36 bytes cross two boundaries of
blocks of 16, with every length at which the padding changes; `md5` runs with the 64 of the
code. Two operations overlap in every way two can on one thread, and a third would wait
behind the second; three pieces read in chunks of two overrun the buffer of two.

`MaxInstalls` of `TerminalSession` and `Bootstrap`, `MaxClears` of `TerminalSession` (the
delayed cancels that wait at a time), `MaxLen` of `IoBuffer`, `MaxOps` of
`PackageEngine`, `MaxHistory` of `HistoryManager` (the program takes any positive number),
`MaxNumber` of `Vt100` (a parameter that large is not continued) and `MaxMessage` of
`NativeLibrary` and `Md5` are the bounds that cap something the program does not; `MaxLine`
and `MaxDepth` bound the inputs of the pure functions. `WordSize` and `OutSize` of
`CommandTokenizer` are sizes the code has (256 and 4096).

Deadlock is checked for the table and the ring, where some call is always possible. A
session whose screen is gone, and a device on which all installations were used up, really
stop, so their configurations switch the check off; so do those of the screen, which ends
at a fault, and of `md5`, which ends with its longest message. The library and the package
engine are checked for deadlock.

**What the violated runs show.**
- `pty_capacity`: `pty_manager_init` empties the table and keeps the counter, so sessions
  open at that moment use up capacity for good. After an open, an `init` and another open in a
  table of two, the counter is two with one slot active and one free, and the next open is
  refused with "Max sessions reached".
- `session_switch`: `stop(); start();` on the main thread lowers and raises `running`
  before the old reader looks; the old reader announces the end and clears the flag of the
  new session, which then drops its input.
- `session_indicator`: the old reader cancels the notification after the new session
  showed its own.
- `bootstrap_mix`: a screen opened during an installation offers the menu again; a second
  installation, with an archive of its own, extracts into the directory the first is
  extracting into.
- `md5`: `md5_update` and `md5_final` take the position in the 64-byte buffer from a counter
  of bits. A message of eight bytes is padded at the wrong place already, and pieces
  overwrite each other. (`sha256.c` keeps the position in a field of its own; for it
  `PaddingIsStandard` holds.)

**What the model shows beside its properties.** Some behaviour is faithful to the code and
breaks no promise written down, so that it is a conjunct of a property or a comment of the
model and no violated run. The reader of a shell that exits at once cancels the notification
before the main thread has shown it, and it stays until `stop`. Of two package operations
called one behind the other, the STOP of the first takes the service from the second. A
reader that is busy with its last output posts the download notification after `stop`
cancelled it, also when the screen is gone; `QuietAfterDestroy` says that such a reader had
looked at the flag before `stop` lowered it, and posts no other. A line whose expansion does
not fit the caller's 4096 bytes is cut and still returned as expanded (`Written`, excluded
in `WordsSurvive`), and `nativeAliasExpand` returns a line it did not expand from characters
it has released (the model returns the line). Installations of distributions whose archives
have the same extension write into one file, and the first to finish deletes its name under
the other (`OpenTar`, `TarSucceeds`). A cursor saved before the screen was made smaller is
restored to a row that is gone (`WritesStayOnScreen` therefore speaks of screens that never
shrank); an erase with a pending wrap in the last row reaches one cell past the array; a
delete-characters count larger than the rest of the line is a fault. An OSC string whose
buffer is full is ended by BEL but not by ESC \ (`SequencesParsed`). The result of an
operation whose output does not fit the buffer is its output with whole chunks missing
(`ResultsAreTheirOwn`). A path of the host that begins with the characters of the root file
system's directory is taken for one inside it (`HostToGuest`). An entry of the history with
a line break in it comes back as several (`SavedHistoryReloads`). As long as a shell forked
in the moment between `pipe` and `close` lives, the call that owns the pipe does not return,
whatever its timeout (`EveryOperationIsAnswered`).

**Properties that hold under a condition.** `FirstSessionEndsWithItsShell` speaks of the
time before any restart and `InstalledMeansWhole` and `ReadyMeansWhole` of installations
that did not overlap: the violated runs show why neither can be claimed in general.
`EveryOperationIsAnswered` assumes that again and again no shell holds an inherited pipe.

**Fairness.** `TerminalSession`: the main looper finishes what it has begun and every reader
thread is scheduled. No fairness makes a shell print or exit, a screen close or an
installation finish. `Bootstrap`: each thread is scheduled, and its waits end, because
connections have timeouts (`BootstrapService.java:190-191`) and tar's output is drained
while it runs (lines 275-294); a step may succeed or fail, and no fairness makes it succeed.
`PackageEngine`: the executor's thread and a call that has begun go on, children end (apt
and dpkg are run without a terminal and with answers given in advance), and the main looper
takes its messages in turn, which is strong fairness for each kind: the user may keep the
main thread busy with `isInstalled`, but a message that is in the looper's queue is not
overtaken for ever. Nothing is assumed of the user or of a shell. The children's end is an
assumption and not a fact of the code: `process_run` ignores its timeout, so a command that
never ends blocks the package thread for good. The other specifications state safety only.

## The proofs

`PtyManagerProofs` proves, for every number of slots and every finite set of ptys, type
correctness and the five other properties of `pty_table`. The assumptions are those of
the module's constants: at least one slot, finitely many ptys, `None` not a pty.

`ActiveSlotsOwn` is not inductive alone: `OpenOk` needs that a pty not yet handed out is
in no slot and is not among the open, hung-up or overwritten ones. `FreshUnused` says the
second; the first follows, for an active slot's shell has a state other than "none". The
inductive invariant is `TableInv == TypeOK /\ ActiveSlotsOwn /\ FreshUnused`.
`CountAccounts`, `ShellsAccounted` and `MastersAccounted` are then inductive relative to
it. The steps are grouped by what they do to the table (`StepKinds`), and four lemmas say
what each group does to the set of active slots; the counter's proof adds the fact that
`PidsOf` is injective on active slots, so that what `init` forgets is as many ptys as
slots. `SignalsReachOwnShell` is an action property and follows from `ActiveSlotsOwn` in
the state before the step.

`TerminalSessionProofs` proves five safety properties of `session` for every number of
installations, assuming only that this number is natural and `None` is not a number.
Each property speaks of the moments between two operations of the main thread;
`SessionInv` says what holds while `start` and `stop` are under way. `OthersToldToEnd`
follows the last shell through `stop`; `DownWhileStopped` keeps the flag down until the
next launch, which is why no old reader can raise it; `InputAtLast` follows the input
target. `CancelledInOrder` follows the two cancels of `stop`, so that the
session's notification is gone before the screen is destroyed; a download notification shown
by then was posted by a reader that has left its last read behind, because the flag is down
(for any number of delayed cancels). `LaunchesEarned` bounds the launches by the broadcasts
received, which type correctness needs. The steps are proved per actor: a reader may only
lower the flag, take the session's notification away and post that of a download
(`ReaderStep`), the shells and the installer change nothing of the session, and both launches
go through one lemma.

`FirstSessionEndsWithItsShell` needs a second invariant, `FirstInv`. As long as one shell
was launched and nobody has told it to end, the session's fields name that shell and its
backend (`FirstShellCurrent`), and its reader is past the loop, or the flag down, only when
the shell is gone (`FirstReaderStays`); readers of later shells do not exist.

`NativeLibraryProofs` proves the eight properties of `library` and the refinement of
`NameMap`, for every choice of the constants that `HistoryAssumption`, `LibraryAssumption`,
`TokenAssumption`, `PathAssumption` and `BlockAssumption` allow. Three parts are about state.

*Tables.* `TableOK` is inductive as it stands: a search from the front of a table without
duplicates finds the only entry of a name (`PositionIsTheEntry`), so that a set either
replaces that entry or appends (`StoredIsAnUpdate`), and an unset leaves the entries of a
table with one of them skipped. The lemmas are stated of one instance of `KeyTable` for any
names, values and capacity, and `SameArrays` carries them to the other. `EveryCallKept`
proves `TablesAreMaps`, `TablesImplementMaps` the refinement: every step of the library is,
for each table, a step of `NameMap`, or leaves the function as it is, because it concerns
something else, the table is full or the name unknown. The guard of `NameMap`'s set speaks of
the number of names, which is at most the number of entries (`NamesAreFew`).

*History.* `LibraryInv` says beside the tables that the list is within its limit, that the
position is one of the entries or -1, that no entry is blank and no two neighbours are equal
(`Distinct`), and that a history in use has room for an entry. `LibraryTypeOK` says nothing of
neighbours, and without that `SavedHistoryReloads` is not inductive: `history_add` drops a
command equal to the last one, so a list with two equal neighbours would come back shorter.
`NavigationHolds` counts along a fold over the key presses, and `ReloadHolds` follows a file
line by line: a list of one-line commands is rebuilt entry by entry, and what any other file
gives has no equal neighbours either, because every line goes through `history_add`.

*Types.* `LibraryTypesHold` is the rest of `LibraryInv`.

The other four theorems are about pure functions, which the run evaluates on short inputs
and the proofs settle for inputs of any length.

*Paths.* `PathsHold` follows the stack of names through the fold that collapses a path: it
never holds an empty name, `.` or `..`, and never more names than the limit. A path without
those is its own normal form, from which the rest follows.

*Words.* `QuotingHolds` follows the shell through what `shell_quote` writes: inside the quotes
every character is taken as it is, and the four characters a single quote becomes bring the
shell from quoted to quoted with that one character taken. So the quoted text ends as the one
word it came from, and with a space behind it the next word begins with nothing of it left;
the length of the text written gives the size of a buffer that is enough. `WordsHold` compares
two ways to divide a line, by spaces in `alias_expand` and by the tokenizer. It rests on a
simulation: what a text does to the tokenizer does not depend on the tokens that are there
already, except for their room (`With`, `ReadKeeps`). The expansion is a user's text: one that
closes its quotes is read the same before a space as at the end of the line, or it ended in a
backslash that took the space along, which `Closed` excludes (`Settled`).

*Padding.* `HasRead` relates a context to a text: the blocks handed over so far, one behind
the other, and the begun buffer are the text, the bit counter is eight times what the blocks
hold, and that is a multiple of the block's size. It is kept by every byte; `DigestIsFilled`
then computes the final call in its two cases, the length fits behind the text or takes a
block more, for any message, not only the ones of the run.

`BootstrapProofs` proves the four invariants of `bootstrap` for every set of
distributions and every number of installations, assuming that `None` is neither a
distribution nor a number. `TypeOK` needs `UsedThreads`: a thread that was started belongs
to an instance with a distribution. `NeverStuck` looks at one moment and has to be carried
through all steps of all threads: `Promised` says that the menu is or will be offered (or
there is no screen), or some unfinished thread is at risk, or there is a home directory and
a thread that will mark its distribution or has marked it. A thread is at risk (`AtRisk`)
until its own tar has written a home directory, and again when it has failed: so whoever
wipes the home directory of another is at risk, and stays so until it has written its own or
said that it failed.
`InstalledMeansWhole` and `ReadyMeansWhole` speak of histories in which no installation
clashed. `AloneInv` then says that at most one thread is at work, that no tar has lost its
thread, that the archive, the parts it has left to extract and the directory fit together
(`OwnArchive`), and that nothing is at work on what is marked (`OnePref`); it survives the
death of the process because the mark reaches the disk after the last part. `BinaryInv` uses
the order of the download: busybox, the last of the list, is executable only when all
binaries are whole, and no thread downloads after that.

`IoBufferProofs` proves the three invariants of `io_buffer` and the refinement of
`ByteQueue`, for every capacity, every modulus of the counters that is a larger multiple of
it (`SizeAssumption`; the code has powers of two) and every length of the calls. A first
part proves what the modular counters do once and for all (`MinusOfPlus`, `MinusBetween`,
`PlaceIsSlot`): a distance between two counters stays right across the wrap, and offsets
below the capacity name different slots. `BufferInv` then says that what the producer has
copied lies behind the head (`Producing`), that what the consumer copies lies before the
head it loaded, in slots nobody has reused (`Consuming`), and that the two together fit
(`NeverOverfull`). For the refinement a write maps to the queue's append at the store of
`head`, a read or a clear to its removal at the store of `tail`, and all other steps stutter.

`PackageEngineProofs` proves the three invariants of `packages` for every set of operations,
any texts (sequences of `Piece`), sizes of buffers and reads, and number of operations
(`RunnerAssumption`, `EngineAssumption`). `CallInv` is about one call of `process_run`: how
much was written, read and kept in which phase, that a running child holds its own pipe (so
the end of the pipe is seen only when all is written), and that the buffer holds a
subsequence of what was read, all of it when the text fits. `OrderInv` counts: answered,
posted, in hand and queued operations are together those submitted, in that order.
`ServiceInv` says that whenever the last intent on its way is a START, an operation that
started the service is still to be finished; it is what `ServiceEndsWithWork` needs when
operations overlap.

`Vt100Proofs` proves the six invariants of `screen` and a law of colour lists
(`SgrComposes`), for every set of sizes, every set of byte strings (`SizeAssumption`,
`ChunkAssumption`), every number of parameters and every length of the OSC buffer
(`ParserAssumption`). `VtInv` is inductive over bytes, not only over
calls: every byte keeps the types (`IsScreen`), and as long as no resize has shrunk the
screen it keeps cursor and saved cursor on the screen and every write in the cells, except
an erase with a pending wrap in the last row (`OnScreen`). `FoldKeeps` carries this from a
byte to the byte string of a call. The others follow from what the operators compute:
`ErasesFitTogether` and `ScrollingIsByLines` from lemmas on the cells a range or a scroll
changes, for any screen whose cursor and margins are where `VtInv` has them;
`ResizeIsByRows` for any screen at all; `SgrListsCompose` from a lemma for any attributes, any
complete colour and any list behind it (`ColourComposes`). `SequencesAreParsed` rests on two
inductions along a byte string: `Numbered` says what the parser holds after any list of
numbers up to 99, and `Texting` what it holds after any text of a string command.

`FoldFacts` has the facts about `FoldLeft` all this rests on. The library's induction
theorems take an operator as a parameter, which the provers cannot instantiate. `FoldFacts`
takes the step and the predicate as constants of the module, proves by the least element of a
set of numbers that a fold over `Append(s, e)` is one step more (`FoldOfAppend`), and offers
induction along a sequence as a statement about a set (`SequenceInduction`).

Every safety property of a passing run is stated by a theorem. Only model-checked is liveness
under fairness (`ExitIsNoticed`, `ReadersEnd`, `EveryInstallEnds`,
`EveryOperationIsAnswered`): it needs `ENABLED`, for which the prover has no rule here. The
violated runs are counterexamples and need no proof. `CommandTokenizer` reads a line with a
fold and no recursive operator, because the prover loses its arithmetic in every module that
reaches one.

## Not modelled, and why

- `SessionManager`: no class of the application creates one.
- The HTTP client and the progress tracker: no JNI function reaches them; the application
  downloads in Java, which `Bootstrap` models.
- The overlap of two native calls on one slot of the session table; `PtyManager` takes each
  exported function as one step.
- The text of apt's command lines, the parsing of package listings and progress lines, the
  repository file, the environment array of a child: formatting without control.
- File utilities, permissions, tilde and sdcard paths: wrappers of system calls, or a
  prefix pasted before a name.
- The compression functions of the hashes, and `pgp_verify.c`, which runs a program.
- The alternate screen, which is written and never read, and the dirty flag, which is
  only handed to Java.
- `CommandProcessor`, `TabCompletionEngine`, the settings and about screens, the boot
  receiver: dispatch, text matching and Android plumbing.
- Window sizes of the pty, progress broadcasts and notification texts: no property tells
  them apart. Memory exhaustion in the C code. The memory model: `io_buffer` uses acquire
  and release on its counters, and the model takes the resulting order for granted.

## Plan

Done: `PtyManager`, `TerminalSession`, `Bootstrap`, `IoBuffer` over `ByteQueue`,
`EscapeParser` and `Vt100`, `ProcessRunner` and `PackageEngine`, `NativeLibrary` with its
history, tables and pure functions, each with the proofs of its safety properties; `Digest`
and `Md5`.

Next: the session table at the grain of its reads and writes, called by a main thread and a
reader thread, for the overlap of close and is_alive, with `PtyManager` as its abstract
specification where calls do not overlap.
