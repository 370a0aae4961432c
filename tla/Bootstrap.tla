----------------------------- MODULE Bootstrap -----------------------------
(***************************************************************************)
(* Installing a distribution: TerminalActivity's choice of a distro, the   *)
(* threads BootstrapService starts for it, and the files and preferences   *)
(* EnvironmentManager reads to decide what is installed.  The process may  *)
(* die at any moment; the screen may be closed and opened again while an   *)
(* installation runs, and then offers the choice again.                    *)
(*                                                                         *)
(* A root file system is the set of the parts extracted so far; a          *)
(* downloaded file is absent, partial or whole.  Archives come under two   *)
(* names, by extension, and distros with the same extension share one.  An *)
(* archive file is named by the thread that created it: who has it open    *)
(* keeps it when its name is deleted.  A service instance is named by the  *)
(* first thread it started.                                                *)
(***************************************************************************)
EXTENDS Integers, Sequences, FiniteSets

CONSTANTS Distro,       \* DistroCatalog.all()
          XzDistro,     \* those whose URL ends in ".tar.xz"
          MaxInstalls,  \* bound: installations started
          None

ASSUME MaxInstallsAssumption == MaxInstalls \in Nat
ASSUME NoneAssumption == None \notin Distro \cup Int

VARIABLES
    screen,     \* TerminalActivity is open
    awaiting,   \* awaitingDistroChoice
    failed,     \* a BROADCAST_ERROR is queued for the open screen
    service,    \* the running service instance, None if there is none
    distro,     \* the field "distro" of each service instance
    serviceOf,  \* the instance a thread belongs to
    pc,         \* where each bootstrap thread is
    bin,        \* the runtime binary a thread downloads
    url,        \* the distro a thread downloads
    file,       \* the archive file a thread writes, then its tar reads
    parts,      \* what a thread has still to delete, then what its tar extracted
    untar,      \* threads whose tar process runs
    interrupted,\* threads with a pending interrupt
    binary,     \* state and exec bit of each runtime binary
    archive,    \* each archive file: of which distros, and is it whole?
    linked,     \* the file an archive name stands for, None if there is none
    rootfs,     \* what the root file system directory holds
    pref,       \* KEY_BOOTSTRAPPED and KEY_DISTRO_ID, as this process sees them
    diskPref,   \* the same on disk
    clash       \* history: an installation began beside another or over an installed one

screenVars  == <<screen, awaiting, failed>>
serviceVars == <<service, distro, serviceOf, clash>>
threadVars  == <<bin, url, file, parts, untar, interrupted>>
tarVars     == <<archive, linked>>
fileVars    == <<binary, tarVars, rootfs, pref, diskPref>>
vars == <<screenVars, serviceVars, pc, threadVars, fileVars>>

Thread == 1 .. MaxInstalls
Part   == {"home", "rest"}
Binary == <<"proot", "prootloader", "busybox">>
BinaryName == {"proot", "prootloader", "busybox"}
Extension == {".tar.xz", ".tar.gz"}

Working == {"check", "download", "write", "chmod", "probe", "fetch", "store", "wipe",
            "extract", "mark", "done", "error"}
ThreadState == {"unused", "ended"} \cup Working

Busy == {t \in Thread : pc[t] \in Working}
Unused == {t \in Thread : pc[t] = "unused"}

(* The name of a distro's archive. *)
Ext(d) == IF d \in XzDistro THEN ".tar.xz" ELSE ".tar.gz"

(* The threads that write into archive file f. *)
Writers(f) == {u \in Thread : pc[u] = "store" /\ file[u] = f}

(* EnvironmentManager.isBootstrapped: the preference, and /root exists. *)
IsBootstrapped == pref # None /\ \E d \in Distro : <<d, "home">> \in rootfs

(* Mutant: the exec bits are not looked at. *)
BinariesPresent == \A b \in BinaryName : binary[b].state # "absent"

(* EnvironmentManager.runtimeBinariesReady. *)
BinariesReady ==
    \A b \in BinaryName : binary[b].state # "absent" /\ binary[b].exec
-----------------------------------------------------------------------------
(* A fresh installation of the app, before its first screen. *)
Init ==
    /\ screen = FALSE /\ awaiting = FALSE /\ failed = FALSE
    /\ service = None
    /\ distro = [t \in Thread |-> None] /\ serviceOf = [t \in Thread |-> None]
    /\ clash = FALSE
    /\ pc = [t \in Thread |-> "unused"]
    /\ bin = [t \in Thread |-> 1] /\ url = [t \in Thread |-> None]
    /\ file = [t \in Thread |-> None]
    /\ parts = [t \in Thread |-> {}] /\ untar = {} /\ interrupted = {}
    /\ binary = [b \in BinaryName |-> [state |-> "absent", exec |-> FALSE]]
    /\ archive = [t \in Thread |-> [of |-> {}, whole |-> FALSE]]
    /\ linked = [e \in Extension |-> None]
    /\ rootfs = {}
    /\ pref = None /\ diskPref = None

-----------------------------------------------------------------------------
(* The screen. *)

(* onCreate: the menu is offered unless a distro is installed. *)
OpenScreen ==
    /\ ~screen
    /\ screen' = TRUE
    /\ awaiting' = ~IsBootstrapped
    /\ UNCHANGED <<failed, serviceVars, pc, threadVars, fileVars>>

(* onDestroy: queued broadcasts no longer reach this screen. *)
CloseScreen ==
    /\ screen
    /\ screen' = FALSE /\ awaiting' = FALSE /\ failed' = FALSE
    /\ UNCHANGED <<serviceVars, pc, threadVars, fileVars>>

(* Mutant: the error is shown but the menu is not offered again. *)
ShowErrorOnly ==
    /\ failed
    /\ failed' = FALSE
    /\ UNCHANGED <<screen, awaiting, serviceVars, pc, threadVars, fileVars>>

(* BROADCAST_ERROR: print it and offer the menu again. *)
ReceiveError ==
    /\ failed
    /\ failed' = FALSE
    /\ awaiting' = TRUE
    /\ UNCHANGED <<screen, serviceVars, pc, threadVars, fileVars>>

(* A number is typed: startDistroInstall, then onStartCommand, which sets   *)
(* the service's distro field and starts one more thread.                  *)
ChooseDistro(d) ==
    /\ screen /\ awaiting
    /\ awaiting' = FALSE
    /\ \E t \in Unused :
          LET s == IF service = None THEN t ELSE service
          IN  /\ \A u \in Unused : t <= u
              /\ service' = s
              /\ distro' = [distro EXCEPT ![s] = d]
              /\ serviceOf' = [serviceOf EXCEPT ![t] = s]
              /\ pc' = [pc EXCEPT ![t] = "check"]
    /\ clash' = (clash \/ Busy # {} \/ pref # None)
    /\ UNCHANGED <<screen, failed, threadVars, fileVars>>

-----------------------------------------------------------------------------
(* runBootstrap, in thread t. *)

Goto(t, label) == pc' = [pc EXCEPT ![t] = label]

CheckBinaries(t) ==
    /\ pc[t] = "check"
    /\ Goto(t, IF BinariesReady THEN "probe" ELSE "download")
    /\ UNCHANGED <<screenVars, serviceVars, threadVars, fileVars>>

(* FileOutputStream truncates the file; its exec bit stays. *)
OpenBinary(t) ==
    /\ pc[t] = "download"
    /\ binary' = [binary EXCEPT ![Binary[bin[t]]].state = "partial"]
    /\ Goto(t, "write")
    /\ UNCHANGED <<screenVars, serviceVars, threadVars, tarVars, rootfs, pref, diskPref>>

FinishBinary(t) ==
    /\ pc[t] = "write"
    /\ binary' = [binary EXCEPT ![Binary[bin[t]]].state = "whole"]
    /\ Goto(t, "chmod")
    /\ UNCHANGED <<screenVars, serviceVars, threadVars, tarVars, rootfs, pref, diskPref>>

(* Mutant: one binary too many. *)
MoreBinariesInclusive(t) == bin[t] <= Len(Binary)

(* The loop over proot, prootloader and busybox. *)
MoreBinaries(t) == bin[t] < Len(Binary)

(* setExecutable, then the next binary. *)
ChmodBinary(t) ==
    /\ pc[t] = "chmod"
    /\ binary' = [binary EXCEPT ![Binary[bin[t]]].exec = TRUE]
    /\ IF MoreBinaries(t)
       THEN bin' = [bin EXCEPT ![t] = @ + 1] /\ Goto(t, "download")
       ELSE Goto(t, "probe") /\ UNCHANGED bin
    /\ UNCHANGED <<screenVars, serviceVars, url, file, parts, untar, interrupted,
                   tarVars, rootfs, pref, diskPref>>

(* runDiagnostic waits for busybox, which uses up a pending interrupt. *)
Probe(t) ==
    /\ pc[t] = "probe"
    /\ interrupted' = interrupted \ {t}
    /\ Goto(t, "fetch")
    /\ UNCHANGED <<screenVars, serviceVars, bin, url, file, parts, untar, fileVars>>

(* The archive of the distro the service's field names now.  Whoever else  *)
(* writes to the file of that name goes on writing into it.                *)
OpenTar(t) ==
    LET d == distro[serviceOf[t]]
        f == IF linked[Ext(d)] = None THEN t ELSE linked[Ext(d)]
    IN  /\ pc[t] = "fetch"
        /\ url' = [url EXCEPT ![t] = d]
        /\ file' = [file EXCEPT ![t] = f]
        /\ linked' = [linked EXCEPT ![Ext(d)] = f]
        /\ archive' = [archive EXCEPT ![f] =
                          [of |-> {url[u] : u \in Writers(f)} \cup {d}, whole |-> FALSE]]
        /\ Goto(t, "store")
        /\ UNCHANGED <<screenVars, serviceVars, bin, parts, untar, interrupted,
                       binary, rootfs, pref, diskPref>>

FinishTar(t) ==
    LET f == file[t]
    IN  /\ pc[t] = "store"
        /\ archive' = [archive EXCEPT ![f] =
                          [of    |-> @.of \cup {url[t]},
                           whole |-> Writers(f) \subseteq {t} /\ @.of \subseteq {url[t]}]]
        /\ parts' = [parts EXCEPT ![t] = rootfs]
        /\ Goto(t, "wipe")
        /\ UNCHANGED <<screenVars, serviceVars, bin, url, file, untar, interrupted,
                       binary, linked, rootfs, pref, diskPref>>

(* deleteRecursive takes away what it listed, part by part. *)
WipePart(t, p) ==
    /\ pc[t] = "wipe" /\ p \in parts[t]
    /\ parts' = [parts EXCEPT ![t] = @ \ {p}]
    /\ rootfs' = rootfs \ {p}
    /\ UNCHANGED <<screenVars, serviceVars, pc, bin, url, file, untar, interrupted,
                   binary, tarVars, pref, diskPref>>

(* tar opens the file its archive's name stands for by then, if any; it    *)
(* strips one leading directory of every name, whatever the archive.       *)
StartTar(t) ==
    /\ pc[t] = "wipe" /\ parts[t] = {}
    /\ file' = [file EXCEPT ![t] = linked[Ext(url[t])]]
    /\ untar' = untar \cup {t}
    /\ Goto(t, "extract")
    /\ UNCHANGED <<screenVars, serviceVars, bin, url, parts, interrupted, fileVars>>

(* The tar process writes a part; it needs no bootstrap thread to go on. *)
ExtractPart(t, p) ==
    /\ t \in untar /\ file[t] # None
    /\ p \in (archive[file[t]].of \X Part) \ parts[t]
    /\ parts' = [parts EXCEPT ![t] = @ \cup {p}]
    /\ rootfs' = rootfs \cup {p}
    /\ UNCHANGED <<screenVars, serviceVars, pc, bin, url, file, untar, interrupted,
                   binary, tarVars, pref, diskPref>>

Extracted(t) ==
    file[t] # None /\ LET a == archive[file[t]] IN a.whole /\ parts[t] = a.of \X Part

(* Mutant: the exit code of tar is not looked at. *)
AnyTarExit(t) == TRUE

(* Exit code 0: the whole archive was written out. *)
TarExitsOk(t) == Extracted(t)

(* waitFor returns 0: the archive's name is deleted, and a tar that reads   *)
(* the file goes on.  writeResolvConf follows.                             *)
TarSucceeds(t) ==
    /\ pc[t] = "extract" /\ t \in untar /\ t \notin interrupted
    /\ TarExitsOk(t)
    /\ untar' = untar \ {t}
    /\ linked' = [linked EXCEPT ![Ext(url[t])] = None]
    /\ Goto(t, "mark")
    /\ UNCHANGED <<screenVars, serviceVars, bin, url, file, parts, interrupted,
                   binary, archive, rootfs, pref, diskPref>>

(* Mutant: the wait for tar does not end when tar fails. *)
MayFailButTar(t) ==
    \/ pc[t] \in {"download", "write", "chmod", "fetch", "store"}
    \/ pc[t] = "check" /\ ~BinariesReady

(* The steps that may fail: no network, no space, an unsupported ABI, a     *)
(* broken archive.                                                         *)
MayFail(t) ==
    \/ pc[t] \in {"download", "write", "chmod", "fetch", "store", "extract"}
    \/ pc[t] = "check" /\ ~BinariesReady

(* A step fails; an interrupt while tar runs leaves tar running. *)
StepFails(t) ==
    /\ MayFail(t)
    /\ Goto(t, "error")
    /\ untar' = IF t \in interrupted THEN untar ELSE untar \ {t}
    /\ UNCHANGED <<screenVars, serviceVars, bin, url, file, parts, interrupted, fileVars>>

(* An orphaned tar process ends. *)
OrphanTarEnds(t) ==
    /\ t \in untar /\ pc[t] # "extract"
    /\ untar' = untar \ {t}
    /\ UNCHANGED <<screenVars, serviceVars, pc, bin, url, file, parts, interrupted, fileVars>>

(* markBootstrapped, with the service's field as it is by now. *)
MarkBootstrapped(t) ==
    /\ pc[t] = "mark"
    /\ pref' = distro[serviceOf[t]]
    /\ Goto(t, "done")
    /\ UNCHANGED <<screenVars, serviceVars, threadVars, binary, tarVars, rootfs, diskPref>>

(* SharedPreferences.apply reaches the disk some time later. *)
FlushPref ==
    /\ pref # diskPref
    /\ diskPref' = pref
    /\ UNCHANGED <<screenVars, serviceVars, pc, threadVars, binary, tarVars, rootfs, pref>>

(* stopSelf ends the instance of t whatever else it runs, and its onDestroy *)
(* interrupts the thread started last.                                     *)
StopSelf(t) ==
    LET mine == {u \in Thread : serviceOf[u] = serviceOf[t]}
        last == {u \in mine : \A v \in mine : v <= u}
    IN  /\ service' = IF service = serviceOf[t] THEN None ELSE service
        /\ interrupted' = interrupted \cup
                (IF service = serviceOf[t] THEN (last \cap Busy) \ {t} ELSE {})
        /\ UNCHANGED <<distro, serviceOf, clash>>

(* BROADCAST_DONE restarts the session of the screen, outside this module. *)
Done(t) ==
    /\ pc[t] = "done"
    /\ StopSelf(t)
    /\ Goto(t, "ended")
    /\ UNCHANGED <<screenVars, bin, url, file, parts, untar, fileVars>>

(* BROADCAST_ERROR reaches the screen that is open now, if one is. *)
BroadcastError(t) ==
    /\ pc[t] = "error"
    /\ failed' = screen
    /\ StopSelf(t)
    /\ Goto(t, "ended")
    /\ UNCHANGED <<screen, awaiting, bin, url, file, parts, untar, fileVars>>

(* Android ends the process: threads, tar processes, screen and unwritten   *)
(* preferences are gone, files stay.                                       *)
ProcessDies ==
    /\ pc' = [t \in Thread |-> IF pc[t] = "unused" THEN "unused" ELSE "ended"]
    /\ untar' = {} /\ interrupted' = {}
    /\ screen' = FALSE /\ awaiting' = FALSE /\ failed' = FALSE
    /\ service' = None
    /\ pref' = diskPref
    /\ UNCHANGED <<distro, serviceOf, clash, bin, url, file, parts,
                   binary, tarVars, rootfs, diskPref>>

Run(t) ==
    \/ CheckBinaries(t) \/ OpenBinary(t) \/ FinishBinary(t) \/ ChmodBinary(t)
    \/ Probe(t) \/ OpenTar(t) \/ FinishTar(t)
    \/ \E p \in parts[t] : WipePart(t, p)
    \/ StartTar(t) \/ TarSucceeds(t) \/ StepFails(t)
    \/ MarkBootstrapped(t) \/ Done(t) \/ BroadcastError(t)

Tar(t) == (\E p \in Distro \X Part : ExtractPart(t, p)) \/ OrphanTarEnds(t)

Next ==
    \/ OpenScreen \/ CloseScreen \/ ReceiveError
    \/ \E d \in Distro : ChooseDistro(d)
    \/ \E t \in Thread : Run(t) \/ Tar(t)
    \/ FlushPref
    \/ ProcessDies

(* Bootstrap threads are scheduled, and their waits end: the connections    *)
(* have timeouts, and tar ends once its output is drained.                 *)
Fairness == \A t \in Thread : WF_vars(Run(t))

Spec == Init /\ [][Next]_vars /\ Fairness

-----------------------------------------------------------------------------
(* Type invariant. *)
TypeOK ==
    /\ screen \in BOOLEAN /\ awaiting \in BOOLEAN /\ failed \in BOOLEAN
    /\ service \in Thread \cup {None} /\ clash \in BOOLEAN
    /\ distro \in [Thread -> Distro \cup {None}]
    /\ serviceOf \in [Thread -> Thread \cup {None}]
    /\ pc \in [Thread -> ThreadState]
    /\ bin \in [Thread -> 1 .. Len(Binary)]
    /\ url \in [Thread -> Distro \cup {None}]
    /\ file \in [Thread -> Thread \cup {None}]
    /\ parts \in [Thread -> SUBSET (Distro \X Part)]
    /\ untar \subseteq Thread /\ interrupted \subseteq Thread
    /\ binary \in [BinaryName -> [state : {"absent", "partial", "whole"},
                                  exec : BOOLEAN]]
    /\ archive \in [Thread -> [of : SUBSET Distro, whole : BOOLEAN]]
    /\ linked \in [Extension -> Thread \cup {None}]
    /\ rootfs \subseteq Distro \X Part
    /\ pref \in Distro \cup {None} /\ diskPref \in Distro \cup {None}

(* A distro that counts as installed is there, whole, alone and under its   *)
(* own name, whenever the process died: unless an installation was begun   *)
(* beside another one or over an installed distro, which is what the menu  *)
(* of a reopened screen allows.                                            *)
InstalledMeansWhole == ~clash /\ IsBootstrapped => rootfs = {pref} \X Part

(* The exec bits survive the truncation of a new download, yet binaries    *)
(* that count as ready are whole: busybox becomes executable last.         *)
ReadyMeansWhole ==
    ~clash /\ BinariesReady => \A b \in BinaryName : binary[b].state = "whole"

(* The user is never stuck: with no installation running and no error on    *)
(* its way, an open screen offers the menu or shows an installed distro.   *)
NeverStuck ==
    screen /\ Busy = {} /\ ~failed => awaiting \/ IsBootstrapped

(* Every installation comes to an end, broadcast or not. *)
EveryInstallEnds == \A t \in Thread : (pc[t] = "check") ~> (pc[t] = "ended")

(* "wipe any previous rootfs first so distros don't mix" *)
DistrosDontMix == \A p, q \in rootfs : p[1] = q[1]
=============================================================================
