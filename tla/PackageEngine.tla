--------------------------- MODULE PackageEngine ---------------------------
(***************************************************************************)
(* engine/PackageEngine.java with service/PackageService.java, and the     *)
(* apt and dpkg helpers it calls: operations are submitted on the main     *)
(* thread, run one after the other on the executor's thread, and answered  *)
(* on the main thread; START and STOP intents keep a foreground service    *)
(* while one runs.  The native library is loaded.  isInstalled calls       *)
(* process_run on the main thread.  Of what apt prints the engine sees     *)
(* only "E" ("E: ", or "Err:" when it updates) and "N" ("newly installed"  *)
(* or "already the newest").  startService does not throw.                 *)
(***************************************************************************)
EXTENDS ProcessRunner

CONSTANTS Op,         \* operations, [kind, pkgs]: pkgs are tokens
          SafeToken,  \* the tokens shell_is_safe_token accepts
          MaxOps      \* bound: how many operations are submitted

ASSUME EngineAssumption ==
    /\ MaxOps \in Nat /\ Caller = {"worker", "main"}
    /\ \A op \in Op : op.kind \in {"update", "upgrade", "install", "remove", "search"}

VARIABLES submitted,  \* the operations, in the order of the calls
          queue,      \* the executor's queue, numbers of operations
          job,        \* what the worker runs, 0 when it is free
          posts,      \* results on their way to the main thread, each with
                      \* what the operation's child was to write (history)
          intents,    \* intents on their way to the service
          foreground, \* the service is in the foreground
          answered    \* how many results the callbacks were given

engineVars == <<submitted, queue, job, posts, intents, foreground, answered>>
vars == <<runnerVars, engineVars>>

Init ==
    /\ RunnerInit
    /\ submitted = <<>> /\ queue = <<>> /\ job = 0
    /\ posts = <<>> /\ intents = <<>> /\ foreground = FALSE /\ answered = 0

Tokens(seq) == {seq[i] : i \in DOMAIN seq}

(* apt_validate_pkg_list *)
ValidPkgList(pkgs) == pkgs # <<>> /\ Tokens(pkgs) \subseteq SafeToken

(* apt_update, apt_upgrade, apt_install, apt_remove, apt_search: whether a *)
(* process is run at all.                                                  *)
RunsProcess(op) ==
    op.kind \in {"install", "remove", "search"} => ValidPkgList(op.pkgs)

(* apt_run and apt_cache_run: a command line for process_run_proot. *)
RunApt == OpenPipe("worker")

(* dpkg_run *)
RunDpkg == OpenPipe("main")

(* The operations that start the service. *)
StartsService(op) == op.kind \in {"update", "install", "upgrade"}

(* Mutant: upgrade does not stop it. *)
StopsServiceNotAlways(op) == op.kind \in {"update", "install"}

(* Those that stop it when they are done. *)
StopsService(op) == op.kind \in {"update", "install", "upgrade"}

(* What the callback is told; the exit code is not asked for. *)
Succeeded(op, out) ==
    CASE op.kind \in {"update", "upgrade", "remove"} -> "E" \notin Tokens(out)
      [] op.kind = "install"                         -> "N" \in Tokens(out)
      [] op.kind = "search"                          -> TRUE

-----------------------------------------------------------------------------
MainIsFree == run["main"].phase = "idle"

Submit(op) ==
    /\ MainIsFree /\ Len(submitted) < MaxOps
    /\ submitted' = Append(submitted, op)
    /\ intents' = IF StartsService(op) THEN Append(intents, "START") ELSE intents
    /\ queue' = Append(queue, Len(submitted) + 1)
    /\ UNCHANGED <<runnerVars, job, posts, foreground, answered>>

(* The worker's thread takes the next operation; one that is refused is    *)
(* like a process that could not be run.                                   *)
Take ==
    /\ job = 0 /\ queue # <<>>
    /\ job' = Head(queue) /\ queue' = Tail(queue)
    /\ IF RunsProcess(submitted[Head(queue)]) THEN RunApt
       ELSE FailCall("worker") /\ UNCHANGED shell
    /\ UNCHANGED <<submitted, posts, intents, foreground, answered>>

(* The string that the native method returns. *)
NativeString == run["worker"].out

Post ==
    /\ run["worker"].phase = "returned"
    /\ run' = [run EXCEPT !["worker"] = NoCall]
    /\ posts' = Append(posts, [id |-> job, out |-> NativeString,
                               ok |-> Succeeded(submitted[job], NativeString),
                               wrote |-> run["worker"].text])
    /\ UNCHANGED <<shell, submitted, queue, job, intents, foreground, answered>>

(* The result is posted; the service is stopped after that. *)
Finish ==
    /\ job # 0 /\ run["worker"].phase = "idle"
    /\ intents' = IF StopsService(submitted[job]) THEN Append(intents, "STOP") ELSE intents
    /\ job' = 0
    /\ UNCHANGED <<runnerVars, submitted, queue, posts, foreground, answered>>

(* onOutput and onComplete *)
Deliver ==
    /\ MainIsFree /\ posts # <<>>
    /\ answered' = answered + 1 /\ posts' = Tail(posts)
    /\ UNCHANGED <<runnerVars, submitted, queue, job, intents, foreground>>

(* onStartCommand *)
OnStartCommand ==
    /\ MainIsFree /\ intents # <<>>
    /\ foreground' = (Head(intents) = "START") /\ intents' = Tail(intents)
    /\ UNCHANGED <<runnerVars, submitted, queue, job, posts, answered>>

(* isInstalled: the main thread is in process_run until it returns.  An    *)
(* unsafe name is answered at once and changes nothing.                    *)
IsInstalled == RunDpkg /\ UNCHANGED engineVars

IsInstalledReturns ==
    /\ run["main"].phase = "returned"
    /\ run' = [run EXCEPT !["main"] = NoCall]
    /\ UNCHANGED <<shell, engineVars>>

Worker == Take \/ Post \/ Finish
Main   == Deliver \/ OnStartCommand \/ IsInstalledReturns

Next ==
    \/ \E op \in Op : Submit(op)
    \/ Worker \/ Main \/ IsInstalled
    \/ (\E c \in Caller : CallStep(c)) /\ UNCHANGED engineVars
    \/ (ForkShell \/ ShellEnds) /\ UNCHANGED engineVars

(* The executor's thread and the calls go on, apt and dpkg end.  The main  *)
(* looper handles its messages in turn, whatever else keeps it busy, which *)
(* is strong fairness.  Nothing is asked of the user and of the shell.     *)
Fairness ==
    /\ WF_vars(Worker) /\ WF_vars(IsInstalledReturns)
    /\ SF_vars(Deliver) /\ SF_vars(OnStartCommand)
    /\ \A c \in Caller : WF_vars(CallStep(c) /\ UNCHANGED engineVars)

Spec == Init /\ [][Next]_vars /\ Fairness

-----------------------------------------------------------------------------
EngineTypeOK ==
    /\ RunnerTypeOK
    /\ submitted \in Seq(Op) /\ Len(submitted) <= MaxOps
    /\ Tokens(queue) \cup {job, answered} \subseteq 0 .. Len(submitted)
    /\ foreground \in BOOLEAN
    /\ Tokens(intents) \subseteq {"START", "STOP"}

(* s is t with elements left out: f says where each of s comes from. *)
IsSubSequence(s, t) ==
    \E f \in [DOMAIN s -> DOMAIN t] :
        \A i, j \in DOMAIN s : s[i] = t[f[i]] /\ (i < j => f[i] < f[j])

(* Results reach the callbacks in the order of the calls, none twice and   *)
(* none left out.  Each is what the operation's own child wrote, all of it *)
(* when it fits the buffer and otherwise with whole chunks missing; the    *)
(* verdict on an output that fits is that on what was written, and no      *)
(* install is called a success that did not say so.                        *)
ResultsAreTheirOwn ==
    \A i \in DOMAIN posts :
        LET r == posts[i]    op == submitted[r.id]
        IN  /\ r.id = answered + i
            /\ IsSubSequence(r.out, r.wrote)
            /\ Len(r.wrote) < BufferSize["worker"] =>
                  r.out = r.wrote /\ r.ok = Succeeded(op, r.wrote)
            /\ op.kind = "install" /\ r.ok => "N" \in Tokens(r.wrote)
            /\ ~RunsProcess(op) => r.wrote = <<>>

(* When all that was submitted has been answered and all intents handled,  *)
(* the service is out of the foreground, in whatever order the intents of  *)
(* overlapping operations were sent.                                       *)
AllAnswered == answered = Len(submitted) /\ job = 0
ServiceEndsWithWork == AllAnswered /\ intents = <<>> => ~foreground

(* All that is submitted is answered, as long as a shell that has          *)
(* inherited the write end of a pipe ends at some time: until then the     *)
(* call that reads the pipe does not return, and with it the executor or   *)
(* the main thread.                                                        *)
ShellHoldsPipe == \E c \in Caller : Shell \in run[c].holders
EveryOperationIsAnswered ==
    []<>~ShellHoldsPipe => []<>(answered = Len(submitted))
=============================================================================
