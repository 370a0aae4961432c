--------------------------- MODULE ProcessRunner ---------------------------
(***************************************************************************)
(* terminal/process_runner.c: process_run called by several threads of one *)
(* process.  A child writes to the pipe of its call; the call reads to the *)
(* end of the pipe, which comes when no process holds its write end any    *)
(* more, and then waits for the child.  The pipe's ends are not closed on  *)
(* exec: every process that is forked while the parent still has a write   *)
(* end open, also the shell that pty_manager.c forks, keeps a copy of it.  *)
(* The timeout that process_run is given is never looked at.               *)
(***************************************************************************)
EXTENDS Integers, Sequences

CONSTANTS Caller,      \* threads that call process_run
          Piece,       \* pieces of output
          Text,        \* what each caller's child may write, sequences of pieces
          BufferSize,  \* out_buf_size of each caller's buffer
          ReadMax      \* the pieces one read may return

ASSUME RunnerAssumption ==
    /\ ReadMax \in Nat \ {0}
    /\ \A c \in Caller : BufferSize[c] \in Nat \ {0} /\ Text[c] \subseteq Seq(Piece)

VARIABLES run,    \* of each thread: its call of process_run
          shell   \* whether a shell is running in a PTY

runnerVars == <<run, shell>>

App   == "app"     \* the process itself, as the holder of a write end
Shell == "shell"

Phase == {"idle", "piped", "forked", "reading", "waiting", "returned"}
NoCall == [phase |-> "idle", holders |-> {}, child |-> "none", text |-> <<>>,
           written |-> 0, read |-> 0, out |-> <<>>]

RunnerInit == run = [c \in Caller |-> NoCall] /\ shell = FALSE

(* The write ends a process inherits when it is forked. *)
Inherit(r, p) ==
    [d \in Caller |-> IF App \in r[d].holders THEN [r[d] EXCEPT !.holders = @ \cup {p}]
                      ELSE r[d]]
Release(r, p) == [d \in Caller |-> [r[d] EXCEPT !.holders = @ \ {p}]]

(* return -1; the exit codes are left out, nobody whose result is kept     *)
(* looks at them.                                                          *)
FailCall(c) == run' = [run EXCEPT ![c] = [NoCall EXCEPT !.phase = "returned"]]

OpenPipe(c) ==
    /\ run[c].phase = "idle"
    /\ \/ run' = [run EXCEPT ![c] = [NoCall EXCEPT !.phase = "piped", !.holders = {App}]]
       \/ FailCall(c)
    /\ UNCHANGED shell

(* A program that cannot be executed is a child with nothing to write. *)
Fork(c) ==
    /\ run[c].phase = "piped"
    /\ \/ \E text \in Text[c] : run' = [Inherit(run, c) EXCEPT ![c].phase = "forked",
                                        ![c].child = "running", ![c].text = text]
       \/ FailCall(c)
    /\ UNCHANGED shell

(* Mutant: the parent keeps its write end. *)
WriteEndKept(holders) == holders

(* close(pipefd[1]) in the parent *)
WriteEndClosed(holders) == holders \ {App}

CloseWrite(c) ==
    /\ run[c].phase = "forked"
    /\ run' = [run EXCEPT ![c].phase = "reading", ![c].holders = WriteEndClosed(@)]
    /\ UNCHANGED shell

ChildWrites(c) ==
    /\ run[c].child = "running" /\ run[c].written < Len(run[c].text)
    /\ run' = [run EXCEPT ![c].written = @ + 1]
    /\ UNCHANGED shell

ChildExits(c) ==
    /\ run[c].child = "running" /\ run[c].written = Len(run[c].text)
    /\ run' = [Release(run, c) EXCEPT ![c].child = "zombie"]
    /\ UNCHANGED shell

(* Mutant: the terminating zero is forgotten. *)
FitsExactly(c, n) == Len(run[c].out) + n <= BufferSize[c]

Fits(c, n) == Len(run[c].out) + n < BufferSize[c]

(* A turn of the loop: a chunk that does not fit is dropped, and a later   *)
(* one may fit again.                                                      *)
Read(c) ==
    /\ run[c].phase = "reading" /\ run[c].read < run[c].written
    /\ LET ready == run[c].written - run[c].read
           n     == IF ready > ReadMax THEN ReadMax ELSE ready
           chunk == SubSeq(run[c].text, run[c].read + 1, run[c].read + n)
       IN  run' = [run EXCEPT ![c].read = @ + n,
                              ![c].out = IF Fits(c, n) THEN @ \o chunk ELSE @]
    /\ UNCHANGED shell

(* Mutant: a pipe that is empty for the moment is at its end. *)
AtEndWhenEmpty(c) == run[c].read = run[c].written

(* read returns 0 *)
AtEnd(c) == run[c].read = run[c].written /\ run[c].holders = {}

EndOfPipe(c) ==
    /\ run[c].phase = "reading" /\ AtEnd(c)
    /\ run' = [run EXCEPT ![c].phase = "waiting"]
    /\ UNCHANGED shell

(* waitpid *)
Wait(c) ==
    /\ run[c].phase = "waiting" /\ run[c].child = "zombie"
    /\ run' = [run EXCEPT ![c].phase = "returned", ![c].child = "none"]
    /\ UNCHANGED shell

(* pty_manager_open forks a shell; it ends when it likes, or never. *)
ForkShell == ~shell /\ shell' = TRUE /\ run' = Inherit(run, Shell)
ShellEnds == shell /\ shell' = FALSE /\ run' = Release(run, Shell)

(* What the system does for the call that c has begun. *)
CallStep(c) ==
    \/ Fork(c) \/ CloseWrite(c) \/ Read(c) \/ EndOfPipe(c) \/ Wait(c)
    \/ ChildWrites(c) \/ ChildExits(c)

RunnerTypeOK ==
    /\ shell \in BOOLEAN
    /\ \A c \in Caller :
         /\ run[c].phase \in Phase /\ run[c].child \in {"none", "running", "zombie"}
         /\ run[c].holders \subseteq {App, Shell} \cup Caller
         /\ run[c].read \in 0 .. run[c].written /\ run[c].written \in 0 .. Len(run[c].text)
         /\ Len(run[c].out) < BufferSize[c]
         /\ shell \/ Shell \notin run[c].holders
=============================================================================
