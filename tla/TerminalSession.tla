-------------------------- MODULE TerminalSession --------------------------
(***************************************************************************)
(* One TerminalSession of the terminal screen: the main thread starts,     *)
(* stops and restarts it, one reader thread per started shell drains the   *)
(* shell's output, and all of them share the flag "running", the two       *)
(* notifications (of the session, and of a download whose progress a       *)
(* reader saw in the output) and the backend fields.  A restart happens    *)
(* when the installer broadcasts that a distribution is ready.             *)
(*                                                                         *)
(* Shell k is the k-th shell launched: a ProcessBuilder process of the     *)
(* Java backend, or the pty session of the native one.  Of its output the  *)
(* model keeps whether a read shows the progress of a download; the text   *)
(* and the input are left out.                                             *)
(***************************************************************************)
EXTENDS Integers

CONSTANTS MaxInstalls,  \* bound: installations that complete
          MaxClears,    \* bound: delayed cancels queued at a time
          None          \* null, or session id -1

ASSUME MaxInstallsAssumption == MaxInstalls \in Nat
ASSUME MaxClearsAssumption == MaxClears \in Nat
ASSUME NoneAssumption == None \notin Int

VARIABLES
    running,          \* AtomicBoolean running
    usingJavaBackend,
    shellProcess,     \* the Java backend's process, None for null
    shellStdin,       \* the shell whose standard input sendInput writes to
    nativeSession,    \* NativeTerminal.sessionId
    initialized,      \* NativeTerminal.initialized
    shell,            \* state of each shell process
    backend,          \* which backend launched it
    doomed,           \* shells destroyed or hung up by stop
    launched,         \* number of shells launched so far
    reader,           \* where each reader thread is
    notification,     \* is the session notification shown?
    download,         \* the shell whose reader posted the download
                      \* notification that is shown, None if there is none
    clearing,         \* delayed cancels of it that wait in the main looper
    ui,               \* where the main thread is
    afterStop,        \* where it goes when the stop in progress is over
    bootstrapped,     \* EnvironmentManager.isBootstrapped()
    installs,         \* installations completed
    pendingDone       \* BROADCAST_DONE queued for the main thread

sessionVars == <<running, usingJavaBackend, shellProcess, shellStdin,
                 nativeSession, initialized>>
shellVars   == <<shell, backend, doomed, launched>>
installVars == <<bootstrapped, installs, pendingDone>>
downloadVars == <<download, clearing>>
noticeVars  == <<notification, downloadVars>>
vars == <<sessionVars, shellVars, reader, noticeVars, ui, afterStop,
          installVars>>

Shell == 1 .. MaxInstalls + 1

UiState == {"idle", "start", "startJava", "notify", "stop", "kill", "cancel",
            "cancelDownload", "destroyed"}

ReaderState == {"none", "loop", "blocked", "scan", "empty", "finally", "ended",
                "cancel", "done"}

(* The process is "closing" between the end of its output and the moment   *)
(* waitpid can collect it.                                                 *)
ShellState == {"none", "running", "closing", "dead"}

-----------------------------------------------------------------------------
(* onCreate: a new session, and its first start. *)
Init ==
    /\ running = FALSE /\ usingJavaBackend = FALSE
    /\ shellProcess = None /\ shellStdin = None /\ nativeSession = None
    /\ initialized \in BOOLEAN       \* the native library may be missing
    /\ shell = [k \in Shell |-> "none"]
    /\ backend = [k \in Shell |-> None]
    /\ doomed = {} /\ launched = 0
    /\ reader = [k \in Shell |-> "none"]
    /\ notification = FALSE /\ download = None /\ clearing = 0
    /\ ui = "start" /\ afterStop = "start"
    /\ bootstrapped \in BOOLEAN
    /\ installs = 0 /\ pendingDone = 0

-----------------------------------------------------------------------------
(* The main thread: start().  It is called on a new session and right      *)
(* after a stop(), and no other thread sets "running": the early return of *)
(* a session that runs is never taken.                                     *)

(* Mutant: shells are numbered from zero. *)
NextShellFromZero == launched

(* The incarnation a launch creates. *)
NextShell == launched + 1

(* Fork the shell, set "running" and start its reader thread. *)
Launch(kind) ==
    /\ ~running
    /\ launched' = launched + 1
    /\ shell' = [shell EXCEPT ![NextShell] = "running"]
    /\ backend' = [backend EXCEPT ![NextShell] = kind]
    /\ reader' = [reader EXCEPT ![NextShell] = "loop"]
    /\ running' = TRUE
    /\ ui' = "notify"
    /\ UNCHANGED <<doomed, noticeVars, initialized, afterStop, installVars>>

NativeAvailable == initialized /\ bootstrapped

(* Mutant: the native backend does not take over the input. *)
StartNativeKeepsBackend ==
    /\ ui = "start" /\ NativeAvailable
    /\ Launch("native")
    /\ nativeSession' = NextShell
    /\ UNCHANGED <<shellProcess, shellStdin, usingJavaBackend>>

StartNative ==
    /\ ui = "start" /\ NativeAvailable
    /\ Launch("native")
    /\ nativeSession' = NextShell
    /\ usingJavaBackend' = FALSE
    /\ UNCHANGED <<shellProcess, shellStdin>>

(* openSession returns -1: fall back to the Java backend. *)
NativeOpenFails ==
    /\ ui = "start" /\ NativeAvailable
    /\ nativeSession' = None
    /\ ui' = "startJava"
    /\ UNCHANGED <<running, usingJavaBackend, shellProcess, shellStdin,
                   initialized, shellVars, reader, noticeVars, afterStop, installVars>>

UseJava == ui = "startJava" \/ (ui = "start" /\ ~NativeAvailable)

StartJava ==
    /\ UseJava
    /\ Launch("java")
    /\ usingJavaBackend' = TRUE
    /\ shellProcess' = NextShell
    /\ shellStdin' = NextShell
    /\ UNCHANGED nativeSession

(* ProcessBuilder.start throws IOException. *)
JavaStartFails ==
    /\ UseJava
    /\ usingJavaBackend' = TRUE
    /\ ui' = "idle"
    /\ UNCHANGED <<running, shellProcess, shellStdin, nativeSession, initialized,
                   shellVars, reader, noticeVars, afterStop, installVars>>

(* showSessionNotification, after the reader thread was started. *)
ShowSessionNotification ==
    /\ ui = "notify"
    /\ notification' = TRUE
    /\ ui' = "idle"
    /\ UNCHANGED <<sessionVars, shellVars, reader, downloadVars, afterStop, installVars>>

-----------------------------------------------------------------------------
(* The main thread: stop(), for a restart or from onDestroy. *)

(* BROADCAST_DONE is delivered: stop(), then start(). *)
ReceiveDone ==
    /\ ui = "idle"
    /\ pendingDone > 0
    /\ pendingDone' = pendingDone - 1
    /\ ui' = "stop" /\ afterStop' = "start"
    /\ UNCHANGED <<sessionVars, shellVars, reader, noticeVars,
                   bootstrapped, installs>>

(* The activity is destroyed. *)
OnDestroy ==
    /\ ui = "idle"
    /\ ui' = "stop" /\ afterStop' = "destroyed"
    /\ UNCHANGED <<sessionVars, shellVars, reader, noticeVars, installVars>>

(* Mutant: stop() returns at once when "running" is false. *)
StopUnlessEnded ==
    /\ ui = "stop"
    /\ running' = FALSE
    /\ ui' = IF running THEN "kill" ELSE "cancel"
    /\ UNCHANGED <<usingJavaBackend, shellProcess, shellStdin, nativeSession,
                   initialized, shellVars, reader, noticeVars, afterStop, installVars>>

ClearRunning ==
    /\ ui = "stop"
    /\ running' = FALSE
    /\ ui' = "kill"
    /\ UNCHANGED <<usingJavaBackend, shellProcess, shellStdin, nativeSession,
                   initialized, shellVars, reader, noticeVars, afterStop, installVars>>

(* Mutant: the process is forgotten, not destroyed. *)
ForgetJava ==
    /\ ui = "kill" /\ usingJavaBackend
    /\ shellProcess' = None
    /\ ui' = "cancel"
    /\ UNCHANGED <<running, usingJavaBackend, shellStdin, nativeSession, initialized,
                   shellVars, reader, noticeVars, afterStop, installVars>>

(* Process.destroy: kills the shell and closes this end of its streams. *)
KillJava ==
    /\ ui = "kill" /\ usingJavaBackend
    /\ doomed' = doomed \cup ({shellProcess} \ {None})
    /\ shellProcess' = None
    /\ ui' = "cancel"
    /\ UNCHANGED <<running, usingJavaBackend, shellStdin, nativeSession, initialized,
                   shell, backend, launched,
                   reader, noticeVars, afterStop, installVars>>

(* NativeTerminal.destroy: hang up, close the master, and give up the      *)
(* native library for good.                                                *)
KillNative ==
    /\ ui = "kill" /\ ~usingJavaBackend
    /\ doomed' = doomed \cup ({nativeSession} \ {None})
    /\ nativeSession' = None
    /\ initialized' = FALSE
    /\ ui' = "cancel"
    /\ UNCHANGED <<running, usingJavaBackend, shellProcess, shellStdin,
                   shell, backend, launched,
                   reader, noticeVars, afterStop, installVars>>

CancelNotification ==
    /\ ui = "cancel"
    /\ notification' = FALSE
    /\ ui' = "cancelDownload"
    /\ UNCHANGED <<sessionVars, shellVars, reader, downloadVars, afterStop, installVars>>

(* Mutant: stop() forgets the download notification. *)
StopKeepsDownload ==
    /\ ui = "cancelDownload"
    /\ ui' = afterStop
    /\ UNCHANGED <<sessionVars, shellVars, reader, noticeVars, afterStop, installVars>>

CancelDownload ==
    /\ ui = "cancelDownload"
    /\ download' = None
    /\ ui' = afterStop
    /\ UNCHANGED <<sessionVars, shellVars, reader, notification, clearing, afterStop,
                   installVars>>

MainThread ==
    \/ StartNative \/ NativeOpenFails \/ StartJava \/ JavaStartFails
    \/ ShowSessionNotification
    \/ ClearRunning \/ KillJava \/ KillNative
    \/ CancelNotification \/ CancelDownload

(* The cancel a reader posted three seconds ago.  The main looper runs it  *)
(* between two operations, and stop() does not take it off the queue.      *)
ClearDownload ==
    /\ ui \in {"idle", "destroyed"}
    /\ clearing > 0
    /\ clearing' = clearing - 1
    /\ download' = None
    /\ UNCHANGED <<sessionVars, shellVars, reader, notification, ui, afterStop,
                   installVars>>

-----------------------------------------------------------------------------
(* The reader thread of shell k. *)

Goto(k, pc) == reader' = [reader EXCEPT ![k] = pc]

UnchangedByReader == UNCHANGED <<usingJavaBackend, shellProcess, shellStdin,
                                 nativeSession, initialized, shellVars, ui,
                                 afterStop, installVars>>

(* while (running.get()): the native read returns null at once when the     *)
(* session was closed.                                                     *)
CheckRunning(k) ==
    /\ reader[k] = "loop"
    /\ Goto(k, IF running
               THEN IF backend[k] = "native" /\ nativeSession # k
                    THEN "empty" ELSE "blocked"
               ELSE IF backend[k] = "native" THEN "cancel" ELSE "finally")
    /\ UNCHANGED <<running, noticeVars>> /\ UnchangedByReader

(* The read returns output. *)
ReadOutput(k) ==
    /\ reader[k] = "blocked"
    /\ shell[k] = "running"
    /\ Goto(k, "scan")
    /\ UNCHANGED <<running, noticeVars>> /\ UnchangedByReader

(* checkProgress: the text shows a percentage or not.  The notification of *)
(* a finished download is to be cancelled later.                           *)
CheckProgress(k) ==
    /\ reader[k] = "scan"
    /\ \/ UNCHANGED downloadVars
       \/ /\ download' = k
          /\ \/ UNCHANGED clearing
             \/ clearing < MaxClears /\ clearing' = clearing + 1
    /\ Goto(k, "loop")
    /\ UNCHANGED <<running, notification>> /\ UnchangedByReader

(* The read returns no more: the output has ended or, for the Java          *)
(* backend, destroy() closed the stream.                                   *)
ReadEnds(k) ==
    /\ reader[k] = "blocked"
    /\ shell[k] \in {"closing", "dead"} \/ (backend[k] = "java" /\ k \in doomed)
    /\ Goto(k, IF backend[k] = "native" THEN "empty" ELSE "finally")
    /\ UNCHANGED <<running, noticeVars>> /\ UnchangedByReader

(* Mutant: an empty read is taken for the end of the shell. *)
NeverAlive(k) == FALSE

(* NativeTerminal.isAlive, asked by the reader of k. *)
IsAlive(k) == nativeSession = k /\ shell[k] # "dead"

(* An empty native read: ask isAlive, sleep and try again if it is. *)
EmptyRead(k) ==
    /\ reader[k] = "empty"
    /\ Goto(k, IF IsAlive(k) THEN "loop" ELSE "ended")
    /\ UNCHANGED <<running, noticeVars>> /\ UnchangedByReader

(* The Java reader's finally block: if (running.get()). *)
FinallyCheck(k) ==
    /\ reader[k] = "finally"
    /\ Goto(k, IF running THEN "ended" ELSE "cancel")
    /\ UNCHANGED <<running, noticeVars>> /\ UnchangedByReader

(* Mutant: the notice is printed, the flag kept. *)
AnnounceOnly(k) ==
    /\ reader[k] = "ended"
    /\ Goto(k, "cancel")
    /\ UNCHANGED <<running, noticeVars>> /\ UnchangedByReader

(* emit("[Session ended]"), running.set(false). *)
AnnounceEnd(k) ==
    /\ reader[k] = "ended"
    /\ running' = FALSE
    /\ Goto(k, "cancel")
    /\ UNCHANGED noticeVars /\ UnchangedByReader

ReaderCancels(k) ==
    /\ reader[k] = "cancel"
    /\ notification' = FALSE
    /\ Goto(k, "done")
    /\ UNCHANGED <<running, downloadVars>> /\ UnchangedByReader

(* What the reader does without waiting for the shell to say something. *)
ReaderRuns(k) ==
    \/ CheckRunning(k) \/ CheckProgress(k) \/ ReadEnds(k) \/ EmptyRead(k)
    \/ FinallyCheck(k) \/ AnnounceEnd(k) \/ ReaderCancels(k)

Reader(k) == ReadOutput(k) \/ ReaderRuns(k)

-----------------------------------------------------------------------------
(* The shells and the installer, around the session. *)
ShellCloses(k) ==
    /\ shell[k] = "running"
    /\ shell' = [shell EXCEPT ![k] = "closing"]
    /\ UNCHANGED <<sessionVars, backend, doomed, launched, reader,
                   noticeVars, ui, afterStop, installVars>>

ShellDies(k) ==
    /\ shell[k] = "closing"
    /\ shell' = [shell EXCEPT ![k] = "dead"]
    /\ UNCHANGED <<sessionVars, backend, doomed, launched, reader,
                   noticeVars, ui, afterStop, installVars>>

(* The installer wipes the root file system, which ends isBootstrapped ... *)
WipeRootfs ==
    /\ bootstrapped
    /\ installs < MaxInstalls
    /\ bootstrapped' = FALSE
    /\ UNCHANGED <<sessionVars, shellVars, reader, noticeVars, ui, afterStop,
                   installs, pendingDone>>

(* ... and broadcasts when the new one is in place. *)
InstallDone ==
    /\ installs < MaxInstalls
    /\ installs' = installs + 1
    /\ bootstrapped' = TRUE
    /\ pendingDone' = pendingDone + 1
    /\ UNCHANGED <<sessionVars, shellVars, reader, noticeVars, ui, afterStop>>

Environment ==
    \/ \E k \in Shell : ShellCloses(k) \/ ShellDies(k)
    \/ WipeRootfs \/ InstallDone

Next ==
    \/ MainThread \/ ReceiveDone \/ OnDestroy \/ ClearDownload
    \/ \E k \in Shell : Reader(k)
    \/ Environment

(* The main looper runs what it has begun, and every reader thread is      *)
(* scheduled.  Nothing makes a shell print or exit.                        *)
Fairness == WF_vars(MainThread) /\ \A k \in Shell : WF_vars(ReaderRuns(k))

Spec == Init /\ [][Next]_vars /\ Fairness

-----------------------------------------------------------------------------
(* Type invariant. *)
TypeOK ==
    /\ running \in BOOLEAN /\ usingJavaBackend \in BOOLEAN /\ initialized \in BOOLEAN
    /\ {shellProcess, shellStdin, nativeSession} \subseteq Shell \cup {None}
    /\ shell \in [Shell -> ShellState]
    /\ backend \in [Shell -> {"java", "native", None}]
    /\ doomed \subseteq Shell /\ launched \in 0 .. MaxInstalls + 1
    /\ reader \in [Shell -> ReaderState]
    /\ notification \in BOOLEAN
    /\ download \in Shell \cup {None} /\ clearing \in 0 .. MaxClears
    /\ ui \in UiState /\ afterStop \in {"start", "destroyed"}
    /\ bootstrapped \in BOOLEAN
    /\ installs \in 0 .. MaxInstalls /\ pendingDone \in 0 .. installs

(* No shell is left running behind the user's back: between two operations *)
(* of the main thread, every launched shell that has not exited is either  *)
(* the current one, which stop() will reach, or was told to end.           *)
NoAbandonedShell ==
    ui \in {"idle", "destroyed"} =>
        \A k \in 1 .. launched :
            \/ shell[k] = "dead"
            \/ k \in doomed
            \/ /\ ui = "idle" /\ k = launched
               /\ k = IF usingJavaBackend THEN shellProcess ELSE nativeSession

(* What the user types goes to the shell started last, across backends. *)
InputReachesCurrentShell ==
    ui = "idle" /\ running =>
        launched = IF usingJavaBackend THEN shellStdin ELSE nativeSession

(* Before any restart the flag and the shell agree: sendInput drops what   *)
(* the user types only when the first shell is gone.  Every later loss of  *)
(* the flag is therefore due to a restart.                                 *)
FirstSessionEndsWithItsShell ==
    launched = 1 /\ ui = "idle" /\ doomed = {} /\ ~running =>
        shell[1] = "dead" \/ (backend[1] = "java" /\ shell[1] = "closing")

(* Where a reader is that will not read again once the flag is down. *)
PastLastRead == {"loop", "finally", "cancel", "done"}

(* What onDestroy leaves behind: the flag is down and the session's        *)
(* notification is gone, however late the readers are.  A notification of  *)
(* a download may be shown again, posted after stop() cancelled it, but    *)
(* only by a reader that had looked at the flag before stop() lowered it,  *)
(* and that reader is past its last read: no reader posts twice.           *)
QuietAfterDestroy ==
    ui = "destroyed" =>
        /\ ~running /\ ~notification
        /\ download # None => reader[download] \in PastLastRead

(* A shell that exits is noticed: the flag goes down unless a later shell  *)
(* has been launched meanwhile.                                            *)
ExitIsNoticed ==
    \A k \in Shell : (shell[k] = "dead" /\ launched = k) ~> (~running \/ launched > k)

(* No reader thread outlives the screen, save one blocked on a pty whose   *)
(* shell ignores the hangup.                                               *)
ReadersEnd ==
    \A k \in Shell :
        (ui = "destroyed" /\ (backend[k] = "java" \/ shell[k] = "dead"))
            ~> (reader[k] \in {"none", "done"})

(* "[Session ended]" is never printed into a session whose current shell   *)
(* is running.                                                             *)
EndedNoticeIsTrue ==
    [][\A k \in Shell : reader[k] = "ended" /\ reader'[k] = "cancel" /\ ui = "idle"
            => shell[launched] # "running"]_vars

(* The notification is "persistent while a session is active".             *)
IndicatorWhileActive ==
    ui = "idle" /\ running /\ shell[launched] = "running" => notification
=============================================================================
