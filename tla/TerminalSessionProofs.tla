----------------------- MODULE TerminalSessionProofs -----------------------
(* Safety of TerminalSession for every number of installations.  SessionInv *)
(* is inductive: it follows each property through the states of the main   *)
(* thread between two operations, where the property itself says nothing.  *)
EXTENDS TerminalSession, TLAPS

(* The start that is still to come: stop() was called for a restart. *)
StartAhead ==
    \/ ui \in {"start", "startJava"}
    \/ ui \in {"stop", "kill", "cancel", "cancelDownload"} /\ afterStop = "start"

(* One shell at most is launched for each broadcast, and one at first. *)
LaunchesEarned ==
    launched + pendingDone + (IF StartAhead THEN 1 ELSE 0) <= installs + 1

(* The flag is down from stop() to the next launch. *)
DownWhileStopped ==
    ui \in {"start", "startJava", "kill", "cancel", "cancelDownload", "destroyed"}
        => ~running

(* The session's notification is gone when stop() cancels the other one. *)
CancelledInOrder == ui = "cancelDownload" => ~notification

(* The shell stop() would end. *)
Current == IF usingJavaBackend THEN shellProcess ELSE nativeSession

(* Until stop() has reached it, the last shell is current; the others have *)
(* ended or were told to.                                                  *)
OthersToldToEnd ==
    \A k \in 1 .. launched :
        \/ shell[k] = "dead"
        \/ k \in doomed
        \/ ui \in {"notify", "idle", "stop", "kill"} /\ k = launched /\ k = Current

(* While the flag is up, input goes to the last shell. *)
InputAtLast ==
    ui \in {"notify", "idle"} /\ running =>
        launched = IF usingJavaBackend THEN shellStdin ELSE nativeSession

SessionInv ==
    /\ TypeOK /\ LaunchesEarned /\ DownWhileStopped
    /\ OthersToldToEnd /\ InputAtLast
    /\ CancelledInOrder /\ QuietAfterDestroy

LEMMA InitSession == Init => SessionInv
<1> SUFFICES ASSUME Init
             PROVE  SessionInv
  OBVIOUS
<1> USE MaxInstallsAssumption, MaxClearsAssumption DEF Init
<1>1. TypeOK
  <2>1. running \in BOOLEAN /\ usingJavaBackend \in BOOLEAN /\ notification \in BOOLEAN
    OBVIOUS
  <2>2. shell \in [Shell -> ShellState] /\ reader \in [Shell -> ReaderState]
    BY DEF ShellState, ReaderState
  <2> QED
    BY <2>1, <2>2 DEF TypeOK, UiState
<1>2. LaunchesEarned
  BY DEF LaunchesEarned, StartAhead
<1> QED
  BY <1>1, <1>2
     DEF SessionInv, DownWhileStopped, OthersToldToEnd, InputAtLast,
         CancelledInOrder, QuietAfterDestroy


(* A reader moves on its own, may lower the flag, take the notification and *)
(* post or re-post its download.  With the flag down, one that is past its *)
(* last read stays so.                                                     *)
LEMMA ReaderStep ==
  ASSUME NEW k \in Shell, Reader(k), TypeOK
  PROVE  /\ UnchangedByReader
         /\ reader' \in [Shell -> ReaderState]
         /\ \A j \in Shell \ {k} : reader'[j] = reader[j]
         /\ running' \in BOOLEAN /\ (running' => running)
         /\ notification' \in BOOLEAN /\ (notification' => notification)
         /\ download' \in {download, k} /\ clearing' \in 0 .. MaxClears
         /\ ~running /\ (download = k => reader[k] \in PastLastRead)
                => (download' = k => reader'[k] \in PastLastRead)
<1> USE MaxClearsAssumption
    DEF TypeOK, ReaderState, Goto, downloadVars, noticeVars, PastLastRead
<1>1. CASE CheckRunning(k)
  BY <1>1 DEF CheckRunning
<1>2. CASE ReadOutput(k)
  BY <1>2 DEF ReadOutput
<1>3. CASE CheckProgress(k)
  BY <1>3 DEF CheckProgress
<1>4. CASE ReadEnds(k)
  BY <1>4 DEF ReadEnds
<1>5. CASE EmptyRead(k)
  BY <1>5 DEF EmptyRead
<1>6. CASE FinallyCheck(k)
  BY <1>6 DEF FinallyCheck
<1>7. CASE AnnounceEnd(k)
  BY <1>7 DEF AnnounceEnd
<1>8. CASE ReaderCancels(k)
  BY <1>8 DEF ReaderCancels
<1> QED
  BY <1>1, <1>2, <1>3, <1>4, <1>5, <1>6, <1>7, <1>8 DEF Reader, ReaderRuns

LEMMA ReaderKeepsSession ==
  ASSUME SessionInv, NEW k \in Shell, Reader(k)
  PROVE  SessionInv'
<1> USE DEF SessionInv, UnchangedByReader, shellVars, installVars
<1>1. /\ UnchangedByReader
      /\ reader' \in [Shell -> ReaderState]
      /\ \A j \in Shell \ {k} : reader'[j] = reader[j]
      /\ running' \in BOOLEAN /\ (running' => running)
      /\ notification' \in BOOLEAN /\ (notification' => notification)
      /\ download' \in {download, k} /\ clearing' \in 0 .. MaxClears
      /\ ~running /\ (download = k => reader[k] \in PastLastRead)
             => (download' = k => reader'[k] \in PastLastRead)
  BY ReaderStep
<1>2. TypeOK'
  BY <1>1 DEF TypeOK
<1>3. LaunchesEarned' /\ OthersToldToEnd'
  BY <1>1 DEF LaunchesEarned, StartAhead, OthersToldToEnd, Current
<1>4. DownWhileStopped' /\ InputAtLast' /\ CancelledInOrder'
  BY <1>1 DEF DownWhileStopped, InputAtLast, CancelledInOrder, TypeOK
<1>5. QuietAfterDestroy'
  BY <1>1, NoneAssumption DEF QuietAfterDestroy, TypeOK, Shell
<1> QED
  BY <1>2, <1>3, <1>4, <1>5

LEMMA EnvironmentKeepsSession ==
  ASSUME SessionInv, Environment
  PROVE  SessionInv'
<1> USE DEF SessionInv, sessionVars, shellVars, installVars, noticeVars, downloadVars
<1>1. ASSUME NEW k \in Shell, ShellCloses(k) \/ ShellDies(k)
      PROVE  SessionInv'
  <2>1. /\ UNCHANGED <<sessionVars, backend, doomed, launched, reader,
                       noticeVars, ui, afterStop, installVars>>
        /\ shell[k] # "dead"
        /\ shell' \in [Shell -> ShellState]
        /\ \A j \in Shell : shell[j] = "dead" => shell'[j] = "dead"
    BY <1>1 DEF ShellCloses, ShellDies, TypeOK, ShellState
  <2>2. TypeOK'
    BY <2>1 DEF TypeOK
  <2>3. OthersToldToEnd'
    <3>1. 1 .. launched \subseteq Shell
      BY MaxInstallsAssumption DEF TypeOK, Shell
    <3> QED
      BY <2>1, <3>1 DEF OthersToldToEnd, Current
  <2> QED
    BY <2>1, <2>2, <2>3
       DEF LaunchesEarned, StartAhead, DownWhileStopped, InputAtLast,
           CancelledInOrder, QuietAfterDestroy
<1>2. CASE WipeRootfs
  BY <1>2 DEF WipeRootfs, TypeOK, LaunchesEarned, StartAhead, DownWhileStopped,
              OthersToldToEnd, Current, InputAtLast,
              CancelledInOrder, QuietAfterDestroy
<1>3. CASE InstallDone
  <2>1. TypeOK'
    BY <1>3, MaxInstallsAssumption DEF InstallDone, TypeOK
  <2>2. LaunchesEarned'
    BY <1>3, MaxInstallsAssumption DEF InstallDone, TypeOK, LaunchesEarned, StartAhead
  <2> QED
    BY <1>3, <2>1, <2>2
       DEF InstallDone, DownWhileStopped, OthersToldToEnd, Current, InputAtLast,
           CancelledInOrder, QuietAfterDestroy
<1> QED
  BY <1>1, <1>2, <1>3 DEF Environment

-----------------------------------------------------------------------------
(* A launch, in either backend: the main thread was in start(), where every *)
(* earlier shell has ended or was told to.                                 *)
LEMMA LaunchKeepsSession ==
  ASSUME SessionInv, NEW kind \in {"java", "native"}, Launch(kind),
         ui \in {"start", "startJava"},
         usingJavaBackend' \in BOOLEAN,
         {shellProcess', shellStdin', nativeSession'} \subseteq Shell \cup {None, NextShell},
         NextShell = IF usingJavaBackend' THEN shellProcess' ELSE nativeSession',
         NextShell = IF usingJavaBackend' THEN shellStdin' ELSE nativeSession'
  PROVE  SessionInv'
<1> USE MaxInstallsAssumption
    DEF SessionInv, Launch, NextShell, installVars, noticeVars, downloadVars
<1>1. launched \in Nat /\ launched <= MaxInstalls
  BY DEF LaunchesEarned, StartAhead, TypeOK
<1>2. NextShell \in Shell /\ 1 .. launched \subseteq Shell \ {NextShell}
  BY <1>1 DEF Shell
<1>3. TypeOK'
  BY <1>1, <1>2 DEF TypeOK, UiState, ReaderState, ShellState
<1>4. LaunchesEarned'
  BY <1>1 DEF LaunchesEarned, StartAhead, TypeOK
<1>5. OthersToldToEnd'
  <2>1. \A k \in 1 .. launched : shell[k] = "dead" \/ k \in doomed
    BY DEF OthersToldToEnd
  <2>2. \A k \in 1 .. launched : shell'[k] = shell[k]
    BY <1>2 DEF TypeOK
  <2>3. 1 .. launched' = (1 .. launched) \cup {NextShell}
    BY <1>1
  <2> QED
    BY <2>1, <2>2, <2>3 DEF OthersToldToEnd, Current
<1> QED
  BY <1>3, <1>4, <1>5 DEF DownWhileStopped, InputAtLast,
                          CancelledInOrder, QuietAfterDestroy

LEMMA MainThreadKeepsSession ==
  ASSUME SessionInv, MainThread
  PROVE  SessionInv'
<1> USE DEF SessionInv, sessionVars, shellVars, installVars, noticeVars, downloadVars
<1>1. CASE StartNative
  <2> USE <1>1 DEF StartNative
  <2>1. {shellProcess', shellStdin', nativeSession'} \subseteq Shell \cup {None, NextShell}
    BY DEF TypeOK
  <2> QED
    BY <2>1, LaunchKeepsSession
<1>2. CASE StartJava
  <2> USE <1>2 DEF StartJava
  <2>1. {shellProcess', shellStdin', nativeSession'} \subseteq Shell \cup {None, NextShell}
    BY DEF TypeOK, Launch
  <2> QED
    BY <2>1, LaunchKeepsSession DEF UseJava
<1>3. CASE NativeOpenFails
  BY <1>3 DEF NativeOpenFails, TypeOK, UiState, LaunchesEarned, StartAhead,
              DownWhileStopped, OthersToldToEnd, Current, InputAtLast,
              CancelledInOrder, QuietAfterDestroy
<1>4. CASE JavaStartFails
  BY <1>4 DEF JavaStartFails, UseJava, TypeOK, UiState, LaunchesEarned, StartAhead,
              DownWhileStopped, OthersToldToEnd, Current, InputAtLast,
              CancelledInOrder, QuietAfterDestroy
<1>5. CASE ShowSessionNotification
  BY <1>5 DEF ShowSessionNotification, TypeOK, UiState, LaunchesEarned, StartAhead,
              DownWhileStopped, OthersToldToEnd, Current, InputAtLast,
              CancelledInOrder, QuietAfterDestroy
<1>6. CASE ClearRunning
  BY <1>6 DEF ClearRunning, TypeOK, UiState, LaunchesEarned, StartAhead,
              DownWhileStopped, OthersToldToEnd, Current, InputAtLast,
              CancelledInOrder, QuietAfterDestroy
<1>7. ASSUME KillJava \/ KillNative
      PROVE  SessionInv'
  <2>1. /\ ui = "kill" /\ ui' = "cancel"
        /\ doomed' = doomed \cup ({Current} \ {None})
        /\ UNCHANGED <<running, usingJavaBackend, shell, launched, afterStop, reader,
                       noticeVars, installVars>>
    BY <1>7 DEF KillJava, KillNative, Current
  <2>2. TypeOK'
    BY <1>7, <2>1 DEF KillJava, KillNative, TypeOK, UiState, Current
  <2>3. OthersToldToEnd'
    BY <2>1, NoneAssumption DEF OthersToldToEnd, TypeOK
  <2> QED
    BY <2>1, <2>2, <2>3
       DEF LaunchesEarned, StartAhead, DownWhileStopped, InputAtLast,
           CancelledInOrder, QuietAfterDestroy
<1>8. CASE CancelNotification
  BY <1>8 DEF CancelNotification, TypeOK, UiState, LaunchesEarned, StartAhead,
              DownWhileStopped, OthersToldToEnd, Current, InputAtLast,
              CancelledInOrder, QuietAfterDestroy
<1>9. CASE CancelDownload
  BY <1>9 DEF CancelDownload, TypeOK, UiState, LaunchesEarned, StartAhead,
              DownWhileStopped, OthersToldToEnd, Current, InputAtLast,
              CancelledInOrder, QuietAfterDestroy
<1> QED
  BY <1>1, <1>2, <1>3, <1>4, <1>5, <1>6, <1>7, <1>8, <1>9 DEF MainThread

(* The delayed cancel takes the download notification and nothing else. *)
LEMMA ClearKeepsSession ==
  ASSUME SessionInv, ClearDownload
  PROVE  SessionInv'
BY MaxClearsAssumption
   DEF ClearDownload, SessionInv, sessionVars, shellVars, installVars, TypeOK,
       LaunchesEarned, StartAhead, DownWhileStopped, OthersToldToEnd, Current,
       InputAtLast, CancelledInOrder, QuietAfterDestroy

LEMMA BeginStopKeepsSession ==
  ASSUME SessionInv, ReceiveDone \/ OnDestroy
  PROVE  SessionInv'
<1> USE MaxInstallsAssumption
    DEF SessionInv, sessionVars, shellVars, installVars, noticeVars, downloadVars
<1>1. CASE ReceiveDone
  BY <1>1 DEF ReceiveDone, TypeOK, UiState, LaunchesEarned, StartAhead,
              DownWhileStopped, OthersToldToEnd, Current, InputAtLast,
              CancelledInOrder, QuietAfterDestroy
<1>2. CASE OnDestroy
  BY <1>2 DEF OnDestroy, TypeOK, UiState, LaunchesEarned, StartAhead,
              DownWhileStopped, OthersToldToEnd, Current, InputAtLast,
              CancelledInOrder, QuietAfterDestroy
<1> QED
  BY <1>1, <1>2

LEMMA StepSession == SessionInv /\ [Next]_vars => SessionInv'
<1> SUFFICES ASSUME SessionInv, [Next]_vars
             PROVE  SessionInv'
  OBVIOUS
<1>1. CASE UNCHANGED vars
  BY <1>1 DEF vars, sessionVars, shellVars, installVars, noticeVars, downloadVars,
              SessionInv, TypeOK,
              LaunchesEarned, StartAhead, DownWhileStopped, OthersToldToEnd,
              Current, InputAtLast, CancelledInOrder, QuietAfterDestroy
<1> QED
  BY <1>1, MainThreadKeepsSession, BeginStopKeepsSession, ReaderKeepsSession,
     EnvironmentKeepsSession, ClearKeepsSession
     DEF Next

-----------------------------------------------------------------------------
(* The strengthening the theorems below follow from. *)
THEOREM SessionInvariant == Spec => []SessionInv
<1> QED
  BY InitSession, StepSession, PTL DEF Spec

(* Every field of the session, of its readers and of its shells keeps its  *)
(* type, and no more shells are launched than the installations pay for.   *)
THEOREM SessionTypeCorrect == Spec => []TypeOK
<1>1. SessionInv => TypeOK
  BY DEF SessionInv
<1> QED
  BY <1>1, SessionInvariant, PTL

(* Whatever the restarts and the failures to start: between two operations *)
(* of the main thread no shell runs that stop() would not reach.           *)
THEOREM NoShellLeftBehind == Spec => []NoAbandonedShell
<1>1. SessionInv => NoAbandonedShell
  BY DEF SessionInv, OthersToldToEnd, Current, NoAbandonedShell
<1> QED
  BY <1>1, SessionInvariant, PTL

(* sendInput never writes to a shell other than the last one. *)
THEOREM InputNeverStrays == Spec => []InputReachesCurrentShell
<1>1. SessionInv => InputReachesCurrentShell
  BY DEF SessionInv, InputAtLast, InputReachesCurrentShell
<1> QED
  BY <1>1, SessionInvariant, PTL

(* After onDestroy no reader can raise the flag or the session notification *)
(* again, and a download notification shown by then is the last word of a  *)
(* reader that reads no more.                                              *)
THEOREM NothingAfterDestroy == Spec => []QuietAfterDestroy
<1>1. SessionInv => QuietAfterDestroy
  BY DEF SessionInv
<1> QED
  BY <1>1, SessionInvariant, PTL

-----------------------------------------------------------------------------
(* The first session.  Until a stop() has reached it, the first shell is   *)
(* the one the fields name, and its reader gives up only when it is gone.  *)
FirstShellGone ==
    shell[1] = "dead" \/ (backend[1] = "java" /\ shell[1] = "closing")

FirstShellCurrent ==
    /\ ui \in {"notify", "idle", "stop", "kill"}
    /\ \/ backend[1] = "java" /\ usingJavaBackend /\ shellProcess = 1
       \/ backend[1] = "native" /\ ~usingJavaBackend /\ nativeSession = 1

FirstReaderStays ==
    ui \in {"notify", "idle"} =>
        /\ reader[1] = "empty" => backend[1] = "native"
        /\ reader[1] \in {"finally", "ended", "cancel", "done"} => FirstShellGone
        /\ ~running => FirstShellGone

ReadersOfLaunched == \A k \in Shell : k > launched => reader[k] = "none"

FirstInv ==
    /\ ReadersOfLaunched
    /\ launched = 1 /\ doomed = {} => FirstShellCurrent /\ FirstReaderStays

LEMMA OneIsShell == 1 \in Shell /\ Shell \subseteq Nat \ {0}
BY MaxInstallsAssumption DEF Shell

LEMMA InitFirst == Init => FirstInv
BY DEF Init, FirstInv, ReadersOfLaunched

LEMMA ReaderKeepsFirst ==
  ASSUME SessionInv, FirstInv, NEW k \in Shell, Reader(k)
  PROVE  FirstInv'
<1> USE OneIsShell DEF Goto, shellVars, installVars, UnchangedByReader
<1>1. TypeOK
  BY DEF SessionInv
<1>2. UnchangedByReader /\ (running' => running)
  BY <1>1, ReaderStep
<1>3. reader[k] # "none" /\ \A j \in Shell \ {k} : reader'[j] = reader[j]
  BY <1>1 DEF TypeOK, Reader, ReaderRuns, CheckRunning, ReadOutput, CheckProgress,
              ReadEnds, EmptyRead, FinallyCheck, AnnounceEnd, ReaderCancels
<1>4. ReadersOfLaunched'
  BY <1>2, <1>3 DEF FirstInv, ReadersOfLaunched
<1>5. ASSUME launched = 1, doomed = {}
      PROVE  FirstShellCurrent' /\ FirstReaderStays'
  <2>1. FirstShellCurrent /\ FirstReaderStays /\ k = 1
    BY <1>3, <1>5 DEF FirstInv, ReadersOfLaunched, Shell
  <2>2. FirstShellCurrent'
    BY <1>2, <2>1 DEF FirstShellCurrent
  <2> SUFFICES ASSUME ui \in {"notify", "idle"}
               PROVE  FirstReaderStays'
    BY <1>2, <2>2 DEF FirstReaderStays
  <2>3. shell[1] \in ShellState /\ FirstShellGone' = FirstShellGone
    BY <1>1, <1>2 DEF TypeOK, FirstShellGone
  <2>4. CASE CheckRunning(k)
    BY <1>1, <1>2, <2>1, <2>3, <2>4
       DEF CheckRunning, FirstReaderStays, FirstShellCurrent, TypeOK
  <2>5. CASE ReadOutput(k)
    BY <1>1, <1>2, <2>1, <2>3, <2>5 DEF ReadOutput, FirstReaderStays, TypeOK
  <2>6. CASE ReadEnds(k)
    BY <1>1, <1>2, <1>5, <2>1, <2>3, <2>6
       DEF ReadEnds, FirstReaderStays, FirstShellCurrent, FirstShellGone, TypeOK
  <2>7. CASE EmptyRead(k)
    BY <1>1, <1>2, <2>1, <2>3, <2>7
       DEF EmptyRead, IsAlive, FirstReaderStays, FirstShellCurrent, FirstShellGone, TypeOK
  <2>8. CASE FinallyCheck(k)
    BY <1>1, <1>2, <2>1, <2>3, <2>8 DEF FinallyCheck, FirstReaderStays, TypeOK
  <2>9. CASE AnnounceEnd(k)
    BY <1>1, <1>2, <2>1, <2>3, <2>9 DEF AnnounceEnd, FirstReaderStays, TypeOK
  <2>10. CASE ReaderCancels(k)
    BY <1>1, <1>2, <2>1, <2>3, <2>10 DEF ReaderCancels, FirstReaderStays, TypeOK
  <2>11. CASE CheckProgress(k)
    BY <1>1, <1>2, <2>1, <2>3, <2>11 DEF CheckProgress, FirstReaderStays, TypeOK
  <2> QED
    BY <2>4, <2>5, <2>6, <2>7, <2>8, <2>9, <2>10, <2>11 DEF Reader, ReaderRuns
<1> QED
  BY <1>2, <1>4, <1>5 DEF FirstInv

LEMMA EnvironmentKeepsFirst ==
  ASSUME SessionInv, FirstInv, Environment
  PROVE  FirstInv'
<1> USE OneIsShell DEF sessionVars, shellVars, installVars
<1>1. /\ UNCHANGED <<sessionVars, backend, doomed, launched, reader, ui>>
      /\ FirstShellGone => FirstShellGone'
  BY DEF SessionInv, TypeOK, Environment, ShellCloses, ShellDies, WipeRootfs,
         InstallDone, FirstShellGone
<1> QED
  BY <1>1 DEF FirstInv, ReadersOfLaunched, FirstShellCurrent, FirstReaderStays

(* A first launch finds no reader; a later one is out of scope.            *)
LEMMA LaunchKeepsFirst ==
  ASSUME SessionInv, FirstInv, NEW kind \in {"java", "native"}, Launch(kind),
         \/ kind = "java" /\ usingJavaBackend' /\ shellProcess' = NextShell
         \/ kind = "native" /\ ~usingJavaBackend' /\ nativeSession' = NextShell,
         ui \in {"start", "startJava"}
  PROVE  FirstInv'
<1> USE OneIsShell DEF Launch, NextShell
<1>1. launched \in Nat /\ launched + 1 \in Shell
  BY MaxInstallsAssumption DEF SessionInv, TypeOK, LaunchesEarned, StartAhead, Shell
<1>2. ReadersOfLaunched'
  BY <1>1 DEF FirstInv, ReadersOfLaunched, SessionInv, TypeOK
<1>3. ASSUME launched' = 1
      PROVE  FirstShellCurrent' /\ FirstReaderStays'
  <2>1. launched = 0
    BY <1>1, <1>3
  <2> QED
    BY <2>1 DEF FirstShellCurrent, FirstReaderStays, SessionInv, TypeOK
<1> QED
  BY <1>2, <1>3 DEF FirstInv

LEMMA MainThreadKeepsFirst ==
  ASSUME SessionInv, FirstInv, MainThread \/ ReceiveDone \/ OnDestroy \/ ClearDownload
  PROVE  FirstInv'
<1> USE OneIsShell DEF sessionVars, shellVars, installVars
<1>1. CASE StartNative
  BY <1>1, LaunchKeepsFirst DEF StartNative
<1>2. CASE StartJava
  BY <1>2, LaunchKeepsFirst DEF StartJava, UseJava
<1>3. CASE NativeOpenFails \/ JavaStartFails \/ CancelNotification \/ CancelDownload
  BY <1>3 DEF NativeOpenFails, JavaStartFails, CancelNotification, CancelDownload,
              UseJava, FirstInv, ReadersOfLaunched, FirstShellCurrent
<1>4. CASE \/ ShowSessionNotification \/ ClearRunning
           \/ ReceiveDone \/ OnDestroy \/ ClearDownload
  BY <1>4 DEF ShowSessionNotification, ClearRunning, ReceiveDone, OnDestroy,
              ClearDownload, FirstInv, ReadersOfLaunched, FirstShellCurrent,
              FirstReaderStays, FirstShellGone
<1>5. CASE KillJava \/ KillNative
  <2>1. ReadersOfLaunched' /\ launched' = launched
    BY <1>5 DEF KillJava, KillNative, FirstInv, ReadersOfLaunched
  <2>2. launched = 1 => doomed' # {}
    BY <1>5, NoneAssumption DEF KillJava, KillNative, FirstInv, FirstShellCurrent
  <2> QED
    BY <2>1, <2>2 DEF FirstInv
<1> QED
  BY <1>1, <1>2, <1>3, <1>4, <1>5 DEF MainThread

LEMMA StepFirst == SessionInv /\ FirstInv /\ [Next]_vars => FirstInv'
<1> SUFFICES ASSUME SessionInv, FirstInv, [Next]_vars
             PROVE  FirstInv'
  OBVIOUS
<1>1. CASE UNCHANGED vars
  BY <1>1 DEF vars, sessionVars, shellVars, FirstInv, ReadersOfLaunched,
              FirstShellCurrent, FirstReaderStays, FirstShellGone
<1> QED
  BY <1>1, MainThreadKeepsFirst, ReaderKeepsFirst, EnvironmentKeepsFirst DEF Next

(* Before any restart sendInput drops what the user types only when the    *)
(* first shell is gone: its reader never takes an empty read, a flag it    *)
(* sees too early or a stream that is not closed for the end of the shell. *)
THEOREM FirstSessionKeepsInput == Spec => []FirstSessionEndsWithItsShell
<1>1. FirstInv => FirstSessionEndsWithItsShell
  BY DEF FirstInv, FirstReaderStays, FirstShellGone, FirstSessionEndsWithItsShell
<1> QED
  BY <1>1, InitFirst, StepFirst, SessionInvariant, PTL DEF Spec
=============================================================================
