-------------------------- MODULE BootstrapProofs --------------------------
(* Safety of Bootstrap for every set of distributions and every number of   *)
(* installations: types, the promise that the user is never stuck, and,    *)
(* while no installation begins beside another or over an installed one,   *)
(* what "installed" and "ready" say of the files.                          *)
EXTENDS Bootstrap, TLAPS

USE MaxInstallsAssumption, NoneAssumption

(* A thread that was started belongs to an instance whose distro is set. *)
UsedThreads ==
    \A t \in Thread :
        /\ pc[t] # "unused" => serviceOf[t] \in Thread /\ distro[serviceOf[t]] \in Distro
        /\ pc[t] = "store" => url[t] \in Distro /\ file[t] \in Thread

BootTypes == TypeOK /\ UsedThreads

LEMMA Threads == Thread \subseteq Nat \ {0} /\ None \notin Thread /\ None \notin Distro
BY DEF Thread

LEMMA Extensions == \A d : Ext(d) \in Extension
BY DEF Ext, Extension

LEMMA Binaries ==
  /\ Len(Binary) = 3
  /\ Binary[1] = "proot" /\ Binary[2] = "prootloader" /\ Binary[3] = "busybox"
  /\ \A n \in 1 .. 3 : Binary[n] \in BinaryName
BY DEF Binary, BinaryName

BinaryType == [state : {"absent", "partial", "whole"}, exec : BOOLEAN]

(* One field of one binary is set. *)
LEMMA BinaryUpdate ==
  ASSUME NEW f \in [BinaryName -> BinaryType], NEW b \in BinaryName,
         NEW s \in {"absent", "partial", "whole"}, NEW e \in BOOLEAN
  PROVE  /\ [f EXCEPT ![b].state = s] \in [BinaryName -> BinaryType]
         /\ [f EXCEPT ![b].exec = e] \in [BinaryName -> BinaryType]
BY DEF BinaryType

-----------------------------------------------------------------------------
(* The type invariant. *)
LEMMA InitTypes == Init => BootTypes
<1> SUFFICES ASSUME Init
             PROVE  BootTypes
  OBVIOUS
<1> USE Threads DEF Init
<1>1. pc \in [Thread -> ThreadState]
  BY DEF ThreadState
<1>2. bin \in [Thread -> 1 .. Len(Binary)]
  BY Binaries
<1>3. binary \in [BinaryName -> [state : {"absent", "partial", "whole"}, exec : BOOLEAN]]
  OBVIOUS
<1>4. /\ archive \in [Thread -> [of : SUBSET Distro, whole : BOOLEAN]]
      /\ file \in [Thread -> Thread \cup {None}]
      /\ linked \in [Extension -> Thread \cup {None}]
  OBVIOUS
<1>5. distro \in [Thread -> Distro \cup {None}] /\ serviceOf \in [Thread -> Thread \cup {None}]
      /\ url \in [Thread -> Distro \cup {None}]
  OBVIOUS
<1>6. parts \in [Thread -> SUBSET (Distro \X Part)] /\ rootfs \subseteq Distro \X Part
  OBVIOUS
<1> QED
  BY <1>1, <1>2, <1>3, <1>4, <1>5, <1>6 DEF BootTypes, TypeOK, UsedThreads

LEMMA ScreenTypes ==
  ASSUME BootTypes, OpenScreen \/ CloseScreen \/ ReceiveError \/ FlushPref
  PROVE  BootTypes'
BY DEF BootTypes, TypeOK, UsedThreads, OpenScreen, CloseScreen, ReceiveError, FlushPref,
       serviceVars, threadVars, fileVars, tarVars, screenVars, IsBootstrapped

LEMMA ChooseTypes ==
  ASSUME BootTypes, NEW d \in Distro, ChooseDistro(d)
  PROVE  BootTypes'
<1> USE Threads
<1>1. PICK t \in Unused, s \in Thread :
         /\ pc[t] = "unused" /\ s = (IF service = None THEN t ELSE service) /\ service' = s
         /\ distro' = [distro EXCEPT ![s] = d]
         /\ serviceOf' = [serviceOf EXCEPT ![t] = s]
         /\ pc' = [pc EXCEPT ![t] = "check"]
  BY DEF ChooseDistro, Unused, BootTypes, TypeOK
<1>2. /\ screen' = screen /\ awaiting' = FALSE /\ failed' = failed
      /\ clash' \in BOOLEAN /\ UNCHANGED <<threadVars, fileVars>>
  BY DEF ChooseDistro, BootTypes, TypeOK
<1>3. t \in Thread
  BY DEF Unused
<1>4. TypeOK'
  BY <1>1, <1>2, <1>3 DEF BootTypes, TypeOK, ThreadState, Working, threadVars, fileVars, tarVars
<1>5. UsedThreads'
  BY <1>1, <1>2, <1>3 DEF BootTypes, TypeOK, UsedThreads, threadVars
<1> QED
  BY <1>4, <1>5 DEF BootTypes

LEMMA BinaryTypes ==
  ASSUME BootTypes, NEW t \in Thread,
         CheckBinaries(t) \/ OpenBinary(t) \/ FinishBinary(t) \/ ChmodBinary(t) \/ Probe(t)
  PROVE  BootTypes'
<1> USE Binaries DEF BootTypes, Goto, screenVars, serviceVars, threadVars, fileVars, tarVars
<1>1. bin[t] \in 1 .. 3 /\ Binary[bin[t]] \in BinaryName
  BY DEF TypeOK
<1>2. CASE CheckBinaries(t) \/ Probe(t)
  BY <1>2 DEF CheckBinaries, Probe, TypeOK, UsedThreads, ThreadState, Working
<1>3. CASE OpenBinary(t) \/ FinishBinary(t)
  <2>1. binary' \in [BinaryName -> BinaryType]
    <3>1. binary \in [BinaryName -> BinaryType]
      BY DEF TypeOK, BinaryType
    <3>2. CASE OpenBinary(t)
      BY <1>1, <3>1, <3>2, BinaryUpdate DEF OpenBinary
    <3>3. CASE FinishBinary(t)
      BY <1>1, <3>1, <3>3, BinaryUpdate DEF FinishBinary
    <3> QED
      BY <1>3, <3>2, <3>3
  <2>2. pc' \in [Thread -> ThreadState] /\ pc[t] # "unused" /\ pc'[t] # "store"
    BY <1>3 DEF OpenBinary, FinishBinary, TypeOK, ThreadState, Working
  <2>3. UNCHANGED <<screenVars, serviceVars, threadVars, tarVars, rootfs, pref, diskPref>>
    BY <1>3 DEF OpenBinary, FinishBinary
  <2>4. TypeOK'
    BY <2>1, <2>2, <2>3 DEF TypeOK, BinaryType
  <2>5. UsedThreads'
    BY <1>3, <2>3 DEF OpenBinary, FinishBinary, UsedThreads, TypeOK
  <2> QED
    BY <2>4, <2>5
<1>4. CASE ChmodBinary(t)
  <2>1. binary' \in [BinaryName -> BinaryType]
    BY <1>1, <1>4, BinaryUpdate DEF ChmodBinary, TypeOK, BinaryType
  <2>2. bin' \in [Thread -> 1 .. Len(Binary)]
    <3>1. MoreBinaries(t) => bin[t] + 1 \in 1 .. 3
      BY <1>1 DEF MoreBinaries
    <3>2. \/ MoreBinaries(t) /\ bin' = [bin EXCEPT ![t] = @ + 1]
          \/ bin' = bin
      BY <1>4 DEF ChmodBinary
    <3>3. bin \in [Thread -> 1 .. 3] /\ Len(Binary) = 3
      BY DEF TypeOK
    <3> QED
      BY <3>1, <3>2, <3>3
  <2>3. pc' \in [Thread -> ThreadState] /\ pc[t] # "unused" /\ pc'[t] # "store"
    BY <1>4 DEF ChmodBinary, TypeOK, ThreadState, Working
  <2>4. UNCHANGED <<screenVars, serviceVars, url, file, parts, untar, interrupted, tarVars,
                    rootfs, pref, diskPref>>
    BY <1>4 DEF ChmodBinary
  <2>5. TypeOK'
    BY <2>1, <2>2, <2>3, <2>4 DEF TypeOK, BinaryType
  <2>6. UsedThreads'
    BY <1>4, <2>4 DEF ChmodBinary, UsedThreads, TypeOK
  <2> QED
    BY <2>5, <2>6
<1> QED
  BY <1>2, <1>3, <1>4

LEMMA ArchiveTypes ==
  ASSUME BootTypes, NEW t \in Thread,
         OpenTar(t) \/ FinishTar(t) \/ StartTar(t) \/ TarSucceeds(t) \/ StepFails(t)
         \/ MarkBootstrapped(t) \/ OrphanTarEnds(t)
  PROVE  BootTypes'
<1> USE DEF BootTypes, Goto, screenVars, serviceVars, threadVars, fileVars, tarVars
<1>1. CASE OpenTar(t)
  <2> DEFINE d == distro[serviceOf[t]]
             f == IF linked[Ext(d)] = None THEN t ELSE linked[Ext(d)]
             names == {url[u] : u \in Writers(f)} \cup {d}
  <2>1. d \in Distro /\ f \in Thread /\ names \in SUBSET Distro
    BY <1>1, Extensions DEF OpenTar, Writers, TypeOK, UsedThreads
  <2>2. /\ url' = [url EXCEPT ![t] = d] /\ file' = [file EXCEPT ![t] = f]
        /\ linked' = [linked EXCEPT ![Ext(d)] = f]
        /\ archive' = [archive EXCEPT ![f] = [of |-> names, whole |-> FALSE]]
        /\ pc[t] = "fetch" /\ pc' = [pc EXCEPT ![t] = "store"]
        /\ UNCHANGED <<screenVars, serviceVars, bin, parts, untar, interrupted,
                       binary, rootfs, pref, diskPref>>
    BY <1>1 DEF OpenTar
  <2> HIDE DEF d, f, names
  <2>3. archive' \in [Thread -> [of : SUBSET Distro, whole : BOOLEAN]]
    BY <2>1, <2>2 DEF TypeOK
  <2>4. /\ url' \in [Thread -> Distro \cup {None}] /\ file' \in [Thread -> Thread \cup {None}]
        /\ linked' \in [Extension -> Thread \cup {None}] /\ pc' \in [Thread -> ThreadState]
    BY <2>1, <2>2 DEF TypeOK, ThreadState, Working
  <2>5. TypeOK'
    BY <2>2, <2>3, <2>4 DEF TypeOK
  <2>6. UsedThreads'
    BY <2>1, <2>2 DEF UsedThreads, TypeOK
  <2> QED
    BY <2>5, <2>6
<1>2. CASE FinishTar(t)
  <2>1. file[t] \in Thread /\ url[t] \in Distro
    BY <1>2 DEF FinishTar, UsedThreads
  <2>2. archive' \in [Thread -> [of : SUBSET Distro, whole : BOOLEAN]]
    <3> DEFINE a == archive[file[t]]
               b == [of |-> a.of \cup {url[t]},
                     whole |-> Writers(file[t]) \subseteq {t} /\ a.of \subseteq {url[t]}]
    <3>1. a.of \in SUBSET Distro
      BY <2>1 DEF TypeOK
    <3>2. b \in [of : SUBSET Distro, whole : BOOLEAN]
      BY <2>1, <3>1
    <3>3. archive' = [archive EXCEPT ![file[t]] = b]
      BY <1>2, <2>1 DEF FinishTar, TypeOK
    <3> HIDE DEF b
    <3> QED
      BY <2>1, <3>2, <3>3 DEF TypeOK
  <2> QED
    BY <1>2, <2>2 DEF FinishTar, TypeOK, UsedThreads, ThreadState, Working
<1>7. CASE StartTar(t)
  <2>1. file' \in [Thread -> Thread \cup {None}]
    BY <1>7, Extensions DEF StartTar, TypeOK
  <2> QED
    BY <1>7, <2>1 DEF StartTar, TypeOK, UsedThreads, ThreadState, Working
<1>3. CASE OrphanTarEnds(t)
  BY <1>3 DEF OrphanTarEnds, TypeOK, UsedThreads
<1>5. CASE StepFails(t)
  <2>1. pc[t] # "unused"
    BY <1>5 DEF StepFails, MayFail
  <2> QED
    BY <1>5, <2>1 DEF StepFails, TypeOK, UsedThreads, ThreadState, Working
<1>6. CASE MarkBootstrapped(t)
  <2>1. pref' \in Distro
    BY <1>6 DEF MarkBootstrapped, UsedThreads
  <2> QED
    BY <1>6, <2>1 DEF MarkBootstrapped, TypeOK, UsedThreads, ThreadState, Working
<1>4. CASE TarSucceeds(t)
  <2>1. linked' \in [Extension -> Thread \cup {None}]
    BY <1>4, Extensions DEF TarSucceeds, TypeOK
  <2> QED
    BY <1>4, <2>1 DEF TarSucceeds, TypeOK, UsedThreads, ThreadState, Working
<1> QED
  BY <1>1, <1>2, <1>3, <1>4, <1>5, <1>6, <1>7

LEMMA PartTypes ==
  ASSUME BootTypes, NEW t \in Thread,
         (\E p \in parts[t] : WipePart(t, p)) \/ (\E p \in Distro \X Part : ExtractPart(t, p))
  PROVE  BootTypes'
<1> USE DEF BootTypes, screenVars, serviceVars, threadVars, fileVars, tarVars
<1>1. /\ parts' \in [Thread -> SUBSET (Distro \X Part)] /\ rootfs' \subseteq Distro \X Part
      /\ UNCHANGED <<screenVars, serviceVars, pc, bin, url, file, untar, interrupted,
                     binary, tarVars, pref, diskPref>>
  <2>1. CASE \E p \in parts[t] : WipePart(t, p)
    BY <2>1 DEF WipePart, TypeOK
  <2>2. CASE \E p \in Distro \X Part : ExtractPart(t, p)
    <3>1. PICK p \in Distro \X Part : ExtractPart(t, p)
      BY <2>2
    <3>2. parts' = [parts EXCEPT ![t] = @ \cup {p}] /\ rootfs' = rootfs \cup {p}
      BY <3>1 DEF ExtractPart
    <3>3. parts[t] \cup {p} \in SUBSET (Distro \X Part)
      BY DEF TypeOK
    <3> QED
      BY <3>1, <3>2, <3>3 DEF ExtractPart, TypeOK
  <2> QED
    BY <2>1, <2>2
<1> QED
  BY <1>1 DEF TypeOK, UsedThreads

LEMMA EndTypes ==
  ASSUME BootTypes, NEW t \in Thread, Done(t) \/ BroadcastError(t)
  PROVE  BootTypes'
<1> USE DEF BootTypes, Goto
<1>1. /\ service' \in Thread \cup {None} /\ interrupted' \subseteq Thread
      /\ pc' = [pc EXCEPT ![t] = "ended"] /\ failed' \in BOOLEAN
      /\ UNCHANGED <<screen, awaiting, distro, serviceOf, clash, bin, url, file, parts, untar, fileVars>>
  BY DEF Done, BroadcastError, StopSelf, TypeOK, screenVars
<1>2. pc[t] # "unused"
  BY DEF Done, BroadcastError
<1>3. TypeOK'
  BY <1>1 DEF TypeOK, ThreadState, fileVars, tarVars
<1> QED
  BY <1>1, <1>2, <1>3 DEF TypeOK, UsedThreads

LEMMA DeathTypes ==
  ASSUME BootTypes, ProcessDies
  PROVE  BootTypes'
BY DEF ProcessDies, BootTypes, TypeOK, UsedThreads, ThreadState, fileVars, tarVars

LEMMA StepTypes == BootTypes /\ [Next]_vars => BootTypes'
<1> SUFFICES ASSUME BootTypes, [Next]_vars
             PROVE  BootTypes'
  OBVIOUS
<1>1. CASE UNCHANGED vars
  BY <1>1 DEF vars, screenVars, serviceVars, threadVars, fileVars, tarVars, BootTypes, TypeOK,
              UsedThreads
<1>2. CASE Next
  BY <1>2, ScreenTypes, ChooseTypes, BinaryTypes, ArchiveTypes, PartTypes, EndTypes, DeathTypes
     DEF Next, Run, Tar
<1> QED
  BY <1>1, <1>2

(* Threads, files and preferences keep their types, and every thread that   *)
(* runs downloads a distribution somebody chose.                           *)
THEOREM BootstrapTypeCorrect == Spec => []TypeOK
<1>1. BootTypes => TypeOK
  BY DEF BootTypes
<1> QED
  BY <1>1, InitTypes, StepTypes, PTL DEF Spec

-----------------------------------------------------------------------------
(* The user is never stuck.  A thread that has not marked its distro yet    *)
(* ends in an error, which is shown, or in a mark.                         *)
Early == {"check", "download", "write", "chmod", "probe", "fetch", "store", "wipe",
          "extract", "error"}
Unfinished == {t \in Thread : pc[t] \in Early}

(* The menu is offered, will be, or there is no screen. *)
Offered == awaiting \/ failed \/ ~screen

HasHome(files) == \E d \in Distro : <<d, "home">> \in files

TarNamed == \A f \in Thread : archive[f].whole => archive[f].of # {}

(* A thread that may still fail, or wipe, before it can have its /root.     *)
AtRisk(t) == pc[t] # "extract" \/ ~HasHome(parts[t])

(* Whoever wipes /root is at risk until it has written one of its own: with *)
(* nobody at risk, there is one, and a thread that will mark it or did.    *)
Promised ==
    \/ Offered
    \/ \E t \in Unfinished : AtRisk(t)
    \/ /\ HasHome(rootfs)
       /\ Unfinished # {} \/ pref # None \/ \E t \in Thread : pc[t] = "mark"

StuckInv == TarNamed /\ Promised

LEMMA InitStuck == Init => StuckInv
BY DEF Init, StuckInv, TarNamed, Promised, Offered

(* A thread at work that does not extract keeps the promise by itself. *)
LEMMA WorkKeepsPromise ==
  ASSUME NEW t \in Thread, pc'[t] \in Early \ {"extract"}
  PROVE  Promised'
BY DEF Promised, Unfinished, AtRisk

LEMMA WorkStuck ==
  ASSUME BootTypes, StuckInv, NEW t \in Thread,
         \/ CheckBinaries(t) \/ OpenBinary(t) \/ FinishBinary(t) \/ ChmodBinary(t) \/ Probe(t)
         \/ OpenTar(t) \/ FinishTar(t) \/ (\E p \in parts[t] : WipePart(t, p)) \/ StepFails(t)
  PROVE  StuckInv'
<1>1. pc'[t] \in Early \ {"extract"}
  BY DEF BootTypes, TypeOK, CheckBinaries, OpenBinary, FinishBinary, ChmodBinary, Probe,
         OpenTar, FinishTar, WipePart, StepFails, Goto, Early
<1>2. TarNamed'
  <2>1. CASE OpenTar(t)
    <3>1. PICK f : archive' = [archive EXCEPT ![f] =
                       [of    |-> {url[u] : u \in Writers(f)} \cup {distro[serviceOf[t]]},
                        whole |-> FALSE]]
      BY <2>1 DEF OpenTar
    <3> QED
      BY <3>1 DEF StuckInv, TarNamed, BootTypes, TypeOK
  <2>2. CASE FinishTar(t)
    <3> DEFINE a == archive[file[t]]
               w == Writers(file[t]) \subseteq {t} /\ a.of \subseteq {url[t]}
    <3>1. archive' = [archive EXCEPT ![file[t]] = [of |-> a.of \cup {url[t]}, whole |-> w]]
      BY <2>2 DEF FinishTar, BootTypes, TypeOK, UsedThreads
    <3> HIDE DEF w
    <3> QED
      BY <3>1 DEF StuckInv, TarNamed, BootTypes, TypeOK
  <2>3. CASE ~OpenTar(t) /\ ~FinishTar(t)
    BY <2>3 DEF StuckInv, TarNamed, CheckBinaries, OpenBinary, FinishBinary, ChmodBinary, Probe,
                WipePart, StepFails, fileVars, tarVars
  <2> QED
    BY <2>1, <2>2, <2>3
<1> QED
  BY <1>1, <1>2, WorkKeepsPromise DEF StuckInv

LEMMA ChooseStuck ==
  ASSUME BootTypes, StuckInv, NEW d \in Distro, ChooseDistro(d)
  PROVE  StuckInv'
<1>1. PICK t \in Unused : pc' = [pc EXCEPT ![t] = "check"]
  BY DEF ChooseDistro
<1>2. t \in Thread /\ pc'[t] \in Early \ {"extract"}
  BY <1>1 DEF Unused, BootTypes, TypeOK, Early
<1>3. TarNamed'
  BY DEF ChooseDistro, fileVars, tarVars, StuckInv, TarNamed
<1> QED
  BY <1>2, <1>3, WorkKeepsPromise DEF StuckInv

LEMMA StartTarStuck ==
  ASSUME BootTypes, StuckInv, NEW t \in Thread, StartTar(t)
  PROVE  StuckInv'
<1>1. /\ pc' = [pc EXCEPT ![t] = "extract"] /\ parts[t] = {} /\ parts' = parts
      /\ archive' = archive
  BY DEF StartTar, Goto, fileVars, tarVars
<1>2. t \in Unfinished' /\ AtRisk(t)'
  BY <1>1 DEF Unfinished, Early, AtRisk, HasHome, BootTypes, TypeOK
<1> QED
  BY <1>1, <1>2 DEF StuckInv, TarNamed, Promised

LEMMA ExtractStuck ==
  ASSUME BootTypes, StuckInv, NEW t \in Thread, NEW p \in Distro \X Part, ExtractPart(t, p)
  PROVE  StuckInv'
<1>1. /\ parts' = [parts EXCEPT ![t] = @ \cup {p}] /\ rootfs' = rootfs \cup {p}
      /\ UNCHANGED <<screen, awaiting, failed, pc, archive, pref>>
  BY DEF ExtractPart, screenVars, tarVars
<1>2. HasHome(rootfs) => HasHome(rootfs')
  BY <1>1 DEF HasHome
<1>3. ASSUME NEW u \in Thread, HasHome(parts'[u])
      PROVE  HasHome(parts[u]) \/ HasHome(rootfs')
  BY <1>1, <1>3 DEF HasHome, BootTypes, TypeOK
<1>4. ASSUME NEW u \in Unfinished, AtRisk(u)
      PROVE  AtRisk(u)' \/ (HasHome(rootfs') /\ Unfinished' # {})
  BY <1>1, <1>3, <1>4 DEF AtRisk, Unfinished
<1>5. TarNamed' /\ Unfinished' = Unfinished /\ Offered' = Offered
  BY <1>1 DEF StuckInv, TarNamed, Unfinished, Offered
<1> QED
  BY <1>1, <1>2, <1>4, <1>5 DEF StuckInv, Promised

(* The archive was whole and all of it is written out: /root with it. *)
LEMMA TarSucceedsStuck ==
  ASSUME BootTypes, StuckInv, NEW t \in Thread, TarSucceeds(t)
  PROVE  StuckInv'
<1>1. /\ pc[t] = "extract" /\ pc' = [pc EXCEPT ![t] = "mark"] /\ archive' = archive
      /\ file[t] \in Thread /\ archive[file[t]].whole
      /\ parts[t] = archive[file[t]].of \X Part
      /\ UNCHANGED <<screen, awaiting, failed, rootfs, parts, pref>>
  BY DEF TarSucceeds, TarExitsOk, Extracted, Goto, screenVars, BootTypes, TypeOK
<1>2. ~AtRisk(t)
  BY <1>1 DEF AtRisk, HasHome, Part, StuckInv, TarNamed, BootTypes, TypeOK
<1>3. ASSUME NEW u \in Unfinished, AtRisk(u)
      PROVE  u \in Unfinished' /\ AtRisk(u)'
  BY <1>1, <1>2, <1>3 DEF Unfinished, AtRisk, BootTypes, TypeOK
<1>4. pc'[t] = "mark"
  BY <1>1 DEF BootTypes, TypeOK
<1>5. Promised'
  BY <1>1, <1>3, <1>4 DEF StuckInv, Promised, Offered
<1> QED
  BY <1>1, <1>5 DEF StuckInv, TarNamed

(* A thread that is no longer unfinished moves on. *)
LEMMA FinishedStuck ==
  ASSUME BootTypes, StuckInv, NEW t \in Thread, NEW x \in {"done", "ended"},
         pc[t] \in {"mark", "done"}, pc' = [pc EXCEPT ![t] = x],
         pc[t] = "mark" => pref' # None, pref # None => pref' # None,
         UNCHANGED <<screen, awaiting, failed, rootfs, archive, parts>>
  PROVE  StuckInv'
<1>1. Unfinished' = Unfinished /\ \A u \in Unfinished : AtRisk(u) => AtRisk(u)'
  BY DEF Unfinished, Early, AtRisk, BootTypes, TypeOK
<1>2. (\E u \in Thread : pc[u] = "mark") => pref' # None \/ \E u \in Thread : pc'[u] = "mark"
  BY DEF BootTypes, TypeOK
<1> QED
  BY <1>1, <1>2 DEF StuckInv, TarNamed, Promised, Offered

LEMMA MarkStuck ==
  ASSUME BootTypes, StuckInv, NEW t \in Thread, MarkBootstrapped(t)
  PROVE  StuckInv'
<1>1. /\ pc[t] = "mark" /\ pc' = [pc EXCEPT ![t] = "done"] /\ pref' # None
      /\ UNCHANGED <<screen, awaiting, failed, rootfs, archive, parts>>
  BY Threads DEF MarkBootstrapped, Goto, screenVars, threadVars, tarVars, BootTypes, UsedThreads
<1> QED
  BY <1>1, FinishedStuck

LEMMA EndStuck ==
  ASSUME BootTypes, StuckInv, NEW t \in Thread, Done(t) \/ BroadcastError(t)
  PROVE  StuckInv'
<1>1. CASE Done(t)
  <2>1. /\ pc[t] = "done" /\ pc' = [pc EXCEPT ![t] = "ended"]
        /\ UNCHANGED <<screen, awaiting, failed, rootfs, archive, parts, pref>>
    BY <1>1 DEF Done, Goto, screenVars, fileVars, tarVars
  <2> QED
    BY <2>1, FinishedStuck
<1>2. CASE BroadcastError(t)
  <2>1. Offered' /\ archive' = archive
    BY <1>2 DEF BroadcastError, Offered, fileVars, tarVars, BootTypes, TypeOK
  <2> QED
    BY <2>1 DEF StuckInv, TarNamed, Promised
<1> QED
  BY <1>1, <1>2

(* A screen that is opened asks unless the distro is there. *)
LEMMA ScreenStuck ==
  ASSUME BootTypes, StuckInv, OpenScreen \/ CloseScreen \/ ReceiveError \/ ProcessDies
  PROVE  StuckInv'
<1>1. TarNamed'
  BY DEF StuckInv, TarNamed, OpenScreen, CloseScreen, ReceiveError, ProcessDies, fileVars, tarVars
<1>2. CASE CloseScreen \/ ReceiveError \/ ProcessDies
  BY <1>1, <1>2 DEF CloseScreen, ReceiveError, ProcessDies, StuckInv, Promised, Offered
<1>3. CASE OpenScreen
  <2>1. (HasHome(rootfs') /\ pref' # None) \/ Offered'
    BY <1>3 DEF OpenScreen, IsBootstrapped, HasHome, Offered, fileVars
  <2> QED
    BY <1>1, <2>1 DEF StuckInv, Promised
<1> QED
  BY <1>2, <1>3

LEMMA QuietStuck ==
  ASSUME StuckInv,
         UNCHANGED <<screen, awaiting, failed, pc, parts, archive, rootfs, pref>>
  PROVE  StuckInv'
BY DEF StuckInv, TarNamed, Promised, Unfinished, AtRisk, Offered

LEMMA StepStuck == BootTypes /\ StuckInv /\ [Next]_vars => StuckInv'
<1> SUFFICES ASSUME BootTypes, StuckInv, [Next]_vars
             PROVE  StuckInv'
  OBVIOUS
<1>1. CASE UNCHANGED vars
  BY <1>1, QuietStuck DEF vars, screenVars, threadVars, fileVars, tarVars
<1>2. CASE FlushPref
  BY <1>2, QuietStuck DEF FlushPref, screenVars, threadVars, tarVars
<1>3. ASSUME NEW t \in Thread, OrphanTarEnds(t)
      PROVE  StuckInv'
  BY <1>3, QuietStuck DEF OrphanTarEnds, screenVars, fileVars, tarVars
<1>4. ASSUME NEW t \in Thread, Run(t) \/ Tar(t)
      PROVE  StuckInv'
  BY <1>3, <1>4, WorkStuck, StartTarStuck, ExtractStuck, TarSucceedsStuck, MarkStuck, EndStuck
     DEF Run, Tar
<1> QED
  BY <1>1, <1>2, <1>4, ChooseStuck, ScreenStuck DEF Next

(* However installations fail, overlap or die with the process: an open     *)
(* screen with no installation running and no error on its way offers the  *)
(* menu or shows an installed distro.                                      *)
THEOREM UserIsNeverStuck == Spec => []NeverStuck
<1>1. StuckInv => NeverStuck
  BY DEF StuckInv, Promised, Offered, Unfinished, Early, HasHome, NeverStuck, Busy, Working,
         IsBootstrapped
<1> QED
  BY <1>1, InitTypes, StepTypes, InitStuck, StepStuck, PTL DEF Spec

-----------------------------------------------------------------------------
(* One installation at a time: what holds as long as none was begun beside  *)
(* another or over an installed distro.                                    *)
Alone == \A t, u \in Busy : t = u

NoOrphan == interrupted = {} /\ \A t \in untar : pc[t] = "extract"

(* What is marked is there, and no thread is at work on it. *)
OnePref ==
    /\ diskPref \in {None, pref}
    /\ pref # None => rootfs = {pref} \X Part /\ \A t \in Busy : pc[t] = "done"

(* The archive is the thread's own, and rootfs holds what it put there. *)
OwnArchive(t) ==
    /\ pc[t] \in {"store", "wipe", "extract", "mark"} => url[t] = distro[serviceOf[t]]
    /\ pc[t] \in {"store", "wipe", "extract"} =>
         file[t] \in Thread /\ archive[file[t]].of = {url[t]}
    /\ pc[t] \in {"store", "wipe"} => linked[Ext(url[t])] = file[t]
    /\ pc[t] \in {"wipe", "extract"} =>
         archive[file[t]].whole /\ parts[t] = rootfs
    /\ pc[t] = "mark" => rootfs = {url[t]} \X Part

AloneInv ==
    ~clash => Alone /\ NoOrphan /\ OnePref /\ \A t \in Thread : OwnArchive(t)

LEMMA InitAlone == Init => AloneInv
BY DEF Init, AloneInv, Alone, NoOrphan, OnePref, OwnArchive, Busy, Working

(* The only thread that works, and what it has to keep. *)
OnlyBusy(t) == \A u \in Thread \ {t} : pc[u] \notin Working

OwnWork(t) ==
    /\ interrupted = {} /\ untar \subseteq {t} /\ (t \in untar => pc[t] = "extract")
    /\ diskPref \in {None, pref}
    /\ pref # None => rootfs = {pref} \X Part /\ pc[t] \in {"done", "ended"}
    /\ OwnArchive(t)

LEMMA OwnWorkIsEnough ==
  ASSUME NEW t \in Thread, OnlyBusy(t)', OwnWork(t)'
  PROVE  AloneInv'
<1>1. Alone' /\ NoOrphan'
  BY DEF OnlyBusy, OwnWork, Alone, NoOrphan, Busy
<1>2. OnePref'
  BY DEF OnlyBusy, OwnWork, OnePref, Busy, Working
<1>3. \A u \in Thread : OwnArchive(u)'
  BY DEF OnlyBusy, OwnWork, OwnArchive, Working
<1> QED
  BY <1>1, <1>2, <1>3 DEF AloneInv

LEMMA WorkerIsAlone ==
  ASSUME BootTypes, AloneInv, ~clash, NEW t \in Thread, pc[t] \in Working
  PROVE  /\ OnlyBusy(t) /\ OwnWork(t) /\ \A f : Writers(f) \subseteq {t}
         /\ pc[t] # "done" => pref = None /\ diskPref = None
         /\ pc[t] # "extract" => untar = {}
<1>1. Alone /\ NoOrphan /\ OnePref /\ OwnArchive(t)
  BY DEF AloneInv
<1>2. OnlyBusy(t) /\ t \in Busy
  BY <1>1 DEF OnlyBusy, Alone, Busy
<1>3. \A f : Writers(f) \subseteq {t}
  BY <1>2 DEF Writers, OnlyBusy, Working
<1>4. untar \subseteq {t}
  BY <1>1, <1>2 DEF NoOrphan, OnlyBusy, Working, BootTypes, TypeOK
<1> QED
  BY <1>1, <1>2, <1>3, <1>4 DEF OwnWork, NoOrphan, OnePref

(* Up to the archive nothing is claimed of the files. *)
LEMMA BinaryStepAlone ==
  ASSUME BootTypes, AloneInv, ~clash, NEW t \in Thread,
         CheckBinaries(t) \/ OpenBinary(t) \/ FinishBinary(t) \/ ChmodBinary(t) \/ Probe(t)
  PROVE  AloneInv'
<1>1. /\ pc[t] \in Working \ {"done", "extract"}
      /\ \E x \in {"download", "write", "chmod", "probe", "fetch"} :
              pc' = [pc EXCEPT ![t] = x]
      /\ interrupted' \subseteq interrupted
      /\ UNCHANGED <<untar, pref, diskPref, rootfs>>
  BY DEF CheckBinaries, OpenBinary, FinishBinary, ChmodBinary, Probe, Goto, Working,
         threadVars, fileVars, tarVars
<1>2. OnlyBusy(t) /\ OwnWork(t) /\ pref = None /\ untar = {}
  BY <1>1, WorkerIsAlone
<1>3. OnlyBusy(t)' /\ pc'[t] \in {"download", "write", "chmod", "probe", "fetch"}
  BY <1>1, <1>2 DEF OnlyBusy, BootTypes, TypeOK
<1>4. OwnWork(t)'
  BY <1>1, <1>2, <1>3 DEF OwnWork, OwnArchive
<1> QED
  BY <1>3, <1>4, OwnWorkIsEnough

LEMMA ArchiveStepAlone ==
  ASSUME BootTypes, AloneInv, ~clash, NEW t \in Thread,
         OpenTar(t) \/ FinishTar(t) \/ StartTar(t) \/ (\E p \in parts[t] : WipePart(t, p))
  PROVE  AloneInv'
<1>1. pc[t] \in {"fetch", "store", "wipe"} /\ pc[t] \in Working
  BY DEF OpenTar, FinishTar, StartTar, WipePart, Working
<1>2. /\ OnlyBusy(t) /\ OwnWork(t) /\ \A f : Writers(f) \subseteq {t}
      /\ pref = None /\ diskPref = None /\ untar = {}
  BY <1>1, WorkerIsAlone
<1> USE DEF BootTypes, TypeOK, OnlyBusy, OwnWork, OwnArchive
<1>3. CASE OpenTar(t)
  <2> DEFINE d == distro[serviceOf[t]]
             f == IF linked[Ext(d)] = None THEN t ELSE linked[Ext(d)]
             names == {url[u] : u \in Writers(f)} \cup {d}
  <2>1. /\ pc[t] = "fetch" /\ pc' = [pc EXCEPT ![t] = "store"]
        /\ url' = [url EXCEPT ![t] = d] /\ file' = [file EXCEPT ![t] = f]
        /\ linked' = [linked EXCEPT ![Ext(d)] = f]
        /\ archive' = [archive EXCEPT ![f] = [of |-> names, whole |-> FALSE]]
        /\ UNCHANGED <<distro, serviceOf, untar, interrupted, pref, diskPref>>
    BY <1>3 DEF OpenTar, Goto, serviceVars
  <2>2. f \in Thread /\ Ext(d) \in Extension
    BY Extensions
  <2>3. Writers(f) = {} /\ names = {d}
    BY <1>2, <2>1 DEF Writers
  <2> HIDE DEF f, names
  <2>4. url'[t] = d /\ file'[t] = f /\ linked'[Ext(d)] = f /\ pc'[t] = "store"
    BY <2>1, <2>2
  <2>5. archive'[f].of = {d}
    BY <2>1, <2>2, <2>3
  <2>6. OwnArchive(t)'
    BY <2>1, <2>2, <2>4, <2>5 DEF OwnArchive
  <2>7. OnlyBusy(t)'
    BY <1>2, <2>1
  <2> QED
    BY <1>2, <2>1, <2>4, <2>6, <2>7, OwnWorkIsEnough
<1>4. CASE FinishTar(t)
  <2>1. /\ pc[t] = "store" /\ url[t] = distro[serviceOf[t]] /\ file[t] \in Thread
        /\ archive[file[t]].of = {url[t]} /\ linked[Ext(url[t])] = file[t]
    BY <1>2, <1>4 DEF FinishTar
  <2>2. archive'[file[t]].of = {url[t]} /\ archive'[file[t]].whole
    BY <1>2, <1>4, <2>1 DEF FinishTar
  <2>3. /\ pc' = [pc EXCEPT ![t] = "wipe"] /\ parts' = [parts EXCEPT ![t] = rootfs]
        /\ UNCHANGED <<distro, serviceOf, url, file, linked, untar, interrupted,
                       pref, diskPref, rootfs>>
    BY <1>4 DEF FinishTar, Goto, serviceVars
  <2>4. OnlyBusy(t)' /\ pc'[t] = "wipe" /\ parts'[t] = rootfs'
    BY <1>2, <2>3
  <2> QED
    BY <1>2, <2>1, <2>2, <2>3, <2>4, OwnWorkIsEnough
<1>5. CASE StartTar(t)
  <2>1. /\ pc[t] = "wipe" /\ pc' = [pc EXCEPT ![t] = "extract"] /\ untar' = untar \cup {t}
        /\ file' = [file EXCEPT ![t] = linked[Ext(url[t])]]
        /\ UNCHANGED <<distro, serviceOf, url, parts, interrupted, archive, pref, diskPref, rootfs>>
    BY <1>5 DEF StartTar, Goto, serviceVars, fileVars, tarVars
  <2>2. OnlyBusy(t)' /\ pc'[t] = "extract" /\ file'[t] = file[t]
    BY <1>2, <2>1
  <2> QED
    BY <1>2, <2>1, <2>2, OwnWorkIsEnough
<1>6. ASSUME NEW p \in parts[t], WipePart(t, p)
      PROVE  AloneInv'
  <2>1. /\ pc[t] = "wipe" /\ parts' = [parts EXCEPT ![t] = @ \ {p}] /\ rootfs' = rootfs \ {p}
        /\ UNCHANGED <<distro, serviceOf, pc, url, file, untar, interrupted, archive, linked,
                       pref, diskPref>>
    BY <1>6 DEF WipePart, serviceVars, tarVars
  <2>2. parts'[t] = rootfs'
    BY <1>2, <2>1
  <2> QED
    BY <1>2, <2>1, <2>2, OwnWorkIsEnough
<1> QED
  BY <1>3, <1>4, <1>5, <1>6

LEMMA ExtractStepAlone ==
  ASSUME BootTypes, AloneInv, ~clash, NEW t \in Thread,
         (\E p \in Distro \X Part : ExtractPart(t, p)) \/ TarSucceeds(t) \/ StepFails(t)
  PROVE  AloneInv'
<1> USE DEF BootTypes, TypeOK, OnlyBusy, OwnWork, OwnArchive
<1>1. pc[t] \in Working /\ pc[t] # "done"
  BY DEF ExtractPart, TarSucceeds, StepFails, MayFail, AloneInv, NoOrphan, Working
<1>2. OnlyBusy(t) /\ OwnWork(t) /\ pref = None /\ diskPref = None
  BY <1>1, WorkerIsAlone
<1>3. ASSUME NEW p \in Distro \X Part, ExtractPart(t, p)
      PROVE  AloneInv'
  <2>1. /\ pc[t] = "extract"
        /\ parts' = [parts EXCEPT ![t] = @ \cup {p}] /\ rootfs' = rootfs \cup {p}
        /\ UNCHANGED <<distro, serviceOf, pc, url, file, untar, interrupted, archive, linked,
                       pref, diskPref>>
    BY <1>2, <1>3 DEF ExtractPart, serviceVars, tarVars
  <2>2. parts'[t] = rootfs'
    BY <1>2, <2>1
  <2> QED
    BY <1>2, <2>1, <2>2, OwnWorkIsEnough
<1>4. CASE TarSucceeds(t)
  <2>1. /\ pc[t] = "extract" /\ pc' = [pc EXCEPT ![t] = "mark"] /\ untar' = untar \ {t}
        /\ parts[t] = archive[file[t]].of \X Part
        /\ UNCHANGED <<distro, serviceOf, url, interrupted, pref, diskPref, rootfs>>
    BY <1>4 DEF TarSucceeds, TarExitsOk, Extracted, Goto, serviceVars
  <2>2. rootfs' = {url[t]} \X Part /\ url[t] = distro[serviceOf[t]]
    BY <1>2, <2>1
  <2>3. OnlyBusy(t)' /\ pc'[t] = "mark"
    BY <1>2, <2>1
  <2> QED
    BY <1>2, <2>1, <2>2, <2>3, OwnWorkIsEnough
<1>5. CASE StepFails(t)
  <2>1. /\ pc' = [pc EXCEPT ![t] = "error"] /\ untar' \subseteq untar \ {t}
        /\ UNCHANGED <<interrupted, pref, diskPref>>
    BY <1>2, <1>5 DEF StepFails, Goto, fileVars, tarVars
  <2>2. OnlyBusy(t)' /\ pc'[t] = "error"
    BY <1>2, <2>1
  <2> QED
    BY <1>2, <2>1, <2>2, OwnWorkIsEnough
<1> QED
  BY <1>3, <1>4, <1>5

LEMMA MarkStepAlone ==
  ASSUME BootTypes, AloneInv, ~clash, NEW t \in Thread,
         MarkBootstrapped(t) \/ Done(t) \/ BroadcastError(t)
  PROVE  AloneInv'
<1> USE DEF BootTypes, TypeOK, OnlyBusy, OwnWork, OwnArchive
<1>1. pc[t] \in Working /\ pc[t] # "extract"
  BY DEF MarkBootstrapped, Done, BroadcastError, Working
<1>2. OnlyBusy(t) /\ OwnWork(t) /\ untar = {} /\ (pc[t] # "done" => pref = None /\ diskPref = None)
  BY <1>1, WorkerIsAlone
<1>3. CASE MarkBootstrapped(t)
  <2>1. /\ pc[t] = "mark" /\ pc' = [pc EXCEPT ![t] = "done"]
        /\ pref' = distro[serviceOf[t]]
        /\ UNCHANGED <<untar, interrupted, diskPref, rootfs>>
    BY <1>3 DEF MarkBootstrapped, Goto, threadVars
  <2>2. OnlyBusy(t)' /\ pc'[t] = "done"
    BY <1>2, <2>1
  <2> QED
    BY <1>2, <2>1, <2>2, OwnWorkIsEnough
<1>4. CASE Done(t) \/ BroadcastError(t)
  <2>1. Busy = {t}
    BY <1>1, <1>2 DEF Busy
  <2>2. /\ pc' = [pc EXCEPT ![t] = "ended"] /\ interrupted' = {}
        /\ UNCHANGED <<untar, pref, diskPref, rootfs>>
    BY <1>2, <1>4, <2>1 DEF Done, BroadcastError, StopSelf, Goto, fileVars, tarVars
  <2>3. OnlyBusy(t)' /\ pc'[t] = "ended"
    BY <1>2, <2>2
  <2> QED
    BY <1>2, <2>2, <2>3, OwnWorkIsEnough
<1> QED
  BY <1>3, <1>4

(* An installation that begins finds no thread at work and no distro. *)
LEMMA ChooseAlone ==
  ASSUME BootTypes, AloneInv, NEW d \in Distro, ChooseDistro(d), ~clash'
  PROVE  AloneInv'
<1>1. ~clash /\ Busy = {} /\ pref = None
  BY DEF ChooseDistro
<1>2. PICK t \in Unused : pc' = [pc EXCEPT ![t] = "check"]
  BY DEF ChooseDistro
<1>3. t \in Thread /\ UNCHANGED <<untar, interrupted, pref, diskPref, rootfs>>
  BY DEF ChooseDistro, Unused, threadVars, fileVars, tarVars
<1>4. \A u \in Thread : pc[u] \notin Working
  BY <1>1 DEF Busy
<1>5. untar = {} /\ interrupted = {} /\ diskPref = None
  BY <1>1, <1>4 DEF AloneInv, NoOrphan, OnePref, Working, BootTypes, TypeOK
<1>6. OnlyBusy(t)' /\ pc'[t] = "check"
  BY <1>2, <1>3, <1>4 DEF OnlyBusy, BootTypes, TypeOK
<1>7. OwnWork(t)'
  BY <1>1, <1>3, <1>5, <1>6 DEF OwnWork, OwnArchive
<1> QED
  BY <1>3, <1>6, <1>7, OwnWorkIsEnough

LEMMA DeathAlone ==
  ASSUME BootTypes, AloneInv, ~clash, ProcessDies
  PROVE  AloneInv'
<1>1. Busy' = {} /\ \A t \in Thread : pc'[t] \in {"unused", "ended"}
  BY DEF ProcessDies, Busy, Working
<1>2. Alone' /\ NoOrphan' /\ \A t \in Thread : OwnArchive(t)'
  BY <1>1 DEF ProcessDies, Alone, NoOrphan, OwnArchive
<1>3. OnePref'
  BY <1>1 DEF ProcessDies, OnePref, AloneInv
<1> QED
  BY <1>2, <1>3 DEF AloneInv

LEMMA QuietAlone ==
  ASSUME AloneInv, ~clash, diskPref' \in {diskPref, pref},
         UNCHANGED <<pc, url, file, distro, serviceOf, parts, interrupted, untar,
                     tarVars, rootfs, pref>>
  PROVE  AloneInv'
BY DEF AloneInv, Alone, NoOrphan, OnePref, OwnArchive, Busy, tarVars

LEMMA StepAlone == BootTypes /\ AloneInv /\ [Next]_vars => AloneInv'
<1> SUFFICES ASSUME BootTypes, AloneInv, [Next]_vars, ~clash'
             PROVE  AloneInv'
  BY DEF AloneInv
<1>1. ASSUME NEW d \in Distro, ChooseDistro(d)
      PROVE  AloneInv'
  BY <1>1, ChooseAlone
<1>2. CASE OpenScreen \/ CloseScreen \/ ReceiveError \/ FlushPref \/ UNCHANGED vars
  BY <1>2, QuietAlone DEF OpenScreen, CloseScreen, ReceiveError, FlushPref, vars, screenVars,
                          serviceVars, threadVars, fileVars, tarVars
<1>3. CASE ProcessDies
  BY <1>3, DeathAlone DEF ProcessDies
<1>4. ASSUME NEW t \in Thread, Run(t) \/ Tar(t)
      PROVE  AloneInv'
  <2>1. ~clash
    BY <1>4 DEF Run, Tar, CheckBinaries, OpenBinary, FinishBinary, ChmodBinary, Probe, OpenTar,
                FinishTar, WipePart, StartTar, ExtractPart, TarSucceeds, StepFails,
                OrphanTarEnds, MarkBootstrapped, Done, BroadcastError, StopSelf, serviceVars
  <2>2. ~OrphanTarEnds(t)
    BY <2>1 DEF OrphanTarEnds, AloneInv, NoOrphan
  <2> QED
    BY <1>4, <2>1, <2>2, BinaryStepAlone, ArchiveStepAlone, ExtractStepAlone, MarkStepAlone
       DEF Run, Tar
<1> QED
  BY <1>1, <1>2, <1>3, <1>4 DEF Next

(* A distro that counts as installed is there, whole, alone and under its   *)
(* own name, wherever the process died: it is marked after its archive was *)
(* written out, and nothing touches the root file system after that but an *)
(* installation begun over it.                                             *)
THEOREM InstalledIsWhole == Spec => []InstalledMeansWhole
<1>1. AloneInv => InstalledMeansWhole
  BY DEF AloneInv, OnePref, InstalledMeansWhole, IsBootstrapped
<1> QED
  BY <1>1, InitTypes, StepTypes, InitAlone, StepAlone, PTL DEF Spec

-----------------------------------------------------------------------------
(* The binaries are downloaded in the order of the list, and each gets its  *)
(* exec bit when it is whole; busybox, the last, therefore gets it when    *)
(* all are whole, and from then on no thread downloads again.              *)
DoneUpTo(n) == \A i \in 1 .. n : binary[Binary[i]] = [state |-> "whole", exec |-> TRUE]

Downloading == {"download", "write", "chmod"}

InOrder(t) ==
    /\ pc[t] \in {"unused", "check"} => bin[t] = 1
    /\ pc[t] \in Downloading => DoneUpTo(bin[t] - 1) /\ ~binary["busybox"].exec
    /\ pc[t] = "chmod" => binary[Binary[bin[t]]].state = "whole"

BinaryInv ==
    ~clash =>
        /\ binary["busybox"].exec => DoneUpTo(3)
        /\ \A t \in Thread : InOrder(t)

LEMMA InitBinary == Init => BinaryInv
BY DEF Init, BinaryInv, InOrder, Downloading, BinaryName

(* Nothing is written, and no thread begins to download. *)
LEMMA BinariesKept ==
  ASSUME BinaryInv, ~clash, UNCHANGED <<binary, bin>>,
         \A t \in Thread :
            /\ pc'[t] \in {"unused", "check"} => pc[t] \in {"unused", "check"}
            /\ pc'[t] \in Downloading => pc'[t] = pc[t]
  PROVE  BinaryInv'
BY DEF BinaryInv, InOrder, DoneUpTo, Downloading

LEMMA QuietBinary ==
  ASSUME BootTypes, BinaryInv, ~clash, NEW t \in Thread,
         \/ Probe(t) \/ OpenTar(t) \/ FinishTar(t) \/ StartTar(t) \/ TarSucceeds(t)
         \/ StepFails(t) \/ MarkBootstrapped(t) \/ Done(t) \/ BroadcastError(t) \/ Tar(t)
         \/ (\E p \in parts[t] : WipePart(t, p))
  PROVE  BinaryInv'
<1>1. UNCHANGED <<binary, bin>>
  BY DEF Probe, OpenTar, FinishTar, StartTar, TarSucceeds, StepFails, MarkBootstrapped, Done,
         BroadcastError, Tar, ExtractPart, OrphanTarEnds, WipePart, threadVars, fileVars, tarVars
<1>2. \/ pc' = pc
      \/ \E x \in ThreadState \ ({"unused", "check"} \cup Downloading) :
            pc' = [pc EXCEPT ![t] = x]
  BY DEF Probe, OpenTar, FinishTar, StartTar, TarSucceeds, StepFails, MarkBootstrapped, Done,
         BroadcastError, Tar, ExtractPart, OrphanTarEnds, WipePart, Goto, ThreadState, Working,
         Downloading
<1>3. \A u \in Thread :
         /\ pc'[u] \in {"unused", "check"} => pc[u] \in {"unused", "check"}
         /\ pc'[u] \in Downloading => pc'[u] = pc[u]
  BY <1>2 DEF BootTypes, TypeOK
<1> QED
  BY <1>1, <1>3, BinariesKept

(* A thread that works is the only one: what it writes is no other's.      *)
LEMMA OneDownloads ==
  ASSUME NEW t \in Thread, OnlyBusy(t)', InOrder(t)', binary'["busybox"].exec => DoneUpTo(3)',
         \A u \in Thread \ {t} : pc'[u] = "unused" => bin'[u] = 1
  PROVE  BinaryInv'
BY DEF OnlyBusy, BinaryInv, InOrder, Downloading, Working

LEMMA DownloadBinary ==
  ASSUME BootTypes, AloneInv, BinaryInv, ~clash, NEW t \in Thread,
         CheckBinaries(t) \/ OpenBinary(t) \/ FinishBinary(t) \/ ChmodBinary(t)
  PROVE  BinaryInv'
<1>1. /\ pc \in [Thread -> ThreadState] /\ bin \in [Thread -> 1 .. 3] /\ bin[t] \in 1 .. 3
      /\ binary \in [BinaryName -> BinaryType]
  BY Binaries DEF BootTypes, TypeOK, BinaryType
<1>2. pc[t] \in Working
  BY DEF CheckBinaries, OpenBinary, FinishBinary, ChmodBinary, Working
<1>3. OnlyBusy(t)
  BY <1>2, WorkerIsAlone
<1>4. InOrder(t) /\ (binary["busybox"].exec => DoneUpTo(3))
      /\ \A u \in Thread \ {t} : pc[u] = "unused" => bin[u] = 1
  BY DEF BinaryInv, InOrder
<1> DEFINE b == Binary[bin[t]]
<1>5. /\ b \in BinaryName /\ (b = "busybox" <=> bin[t] = 3)
      /\ \A i \in 1 .. bin[t] - 1 : Binary[i] \in BinaryName \ {b}
  BY <1>1, Binaries DEF BinaryName
<1> HIDE DEF b
<1>6. CASE CheckBinaries(t)
  <2>1. UNCHANGED <<binary, bin>>
    BY <1>6 DEF CheckBinaries, threadVars, fileVars, tarVars
  <2>2. /\ pc[t] = "check"
        /\ pc' = [pc EXCEPT ![t] = IF BinariesReady THEN "probe" ELSE "download"]
    BY <1>6 DEF CheckBinaries, Goto
  <2>3. OnlyBusy(t)'
    BY <1>1, <1>3, <2>2 DEF OnlyBusy
  <2>4. DoneUpTo(3) => BinariesReady
    BY Binaries DEF DoneUpTo, BinariesReady, BinaryName
  <2>5. InOrder(t)'
    BY <1>1, <1>4, <2>1, <2>2, <2>4 DEF InOrder, DoneUpTo, Downloading
  <2>6. \A u \in Thread \ {t} : pc'[u] = "unused" => bin'[u] = 1
    BY <1>1, <1>4, <2>1, <2>2
  <2> QED
    BY <1>4, <2>1, <2>3, <2>5, <2>6, OneDownloads DEF DoneUpTo
<1>7. CASE OpenBinary(t) \/ FinishBinary(t)
  <2>1. PICK s \in {"partial", "whole"}, x \in {"write", "chmod"} :
           /\ pc[t] \in Downloading /\ (x = "chmod" => s = "whole")
           /\ pc' = [pc EXCEPT ![t] = x] /\ bin' = bin
           /\ binary' = [binary EXCEPT ![b].state = s]
    BY <1>7 DEF OpenBinary, FinishBinary, Goto, threadVars, Downloading, b
  <2>2. DoneUpTo(bin[t] - 1) /\ ~binary["busybox"].exec
    BY <1>4, <2>1 DEF InOrder
  <2>3. ~binary'["busybox"].exec
    BY <1>1, <1>5, <2>1, <2>2 DEF BinaryType, BinaryName
  <2>4. DoneUpTo(bin[t] - 1)'
    BY <1>1, <1>5, <2>1, <2>2 DEF DoneUpTo
  <2>5. binary'[b].state = s
    BY <1>1, <1>5, <2>1 DEF BinaryType
  <2>6. InOrder(t)'
    BY <1>1, <2>1, <2>3, <2>4, <2>5 DEF InOrder, Downloading, DoneUpTo, b
  <2>7. OnlyBusy(t)' /\ \A u \in Thread \ {t} : pc'[u] = "unused" => bin'[u] = 1
    BY <1>1, <1>3, <1>4, <2>1 DEF OnlyBusy
  <2> QED
    BY <2>3, <2>6, <2>7, OneDownloads
<1>8. CASE ChmodBinary(t)
  <2>1. /\ pc[t] = "chmod" /\ binary' = [binary EXCEPT ![b].exec = TRUE]
        /\ \/ bin[t] < 3 /\ bin' = [bin EXCEPT ![t] = @ + 1] /\ pc' = [pc EXCEPT ![t] = "download"]
           \/ bin[t] = 3 /\ bin' = bin /\ pc' = [pc EXCEPT ![t] = "probe"]
    BY <1>1, <1>8, Binaries DEF ChmodBinary, MoreBinaries, Goto, b
  <2>2. DoneUpTo(bin[t] - 1) /\ ~binary["busybox"].exec /\ binary[b].state = "whole"
    BY <1>4, <2>1 DEF InOrder, Downloading, b
  <2>3. binary'[b] = [state |-> "whole", exec |-> TRUE]
    BY <1>1, <1>5, <2>1, <2>2 DEF BinaryType
  <2>4. \A i \in 1 .. bin[t] : binary'[Binary[i]] = [state |-> "whole", exec |-> TRUE]
    <3>1. ASSUME NEW i \in 1 .. bin[t] - 1
          PROVE  binary'[Binary[i]] = [state |-> "whole", exec |-> TRUE]
      BY <1>1, <1>5, <2>1, <2>2 DEF DoneUpTo
    <3> QED
      BY <1>1, <2>3, <3>1 DEF b
  <2>5. bin[t] < 3 => binary'["busybox"] = binary["busybox"]
    BY <1>1, <1>5, <2>1 DEF BinaryName
  <2>6. OnlyBusy(t)' /\ \A u \in Thread \ {t} : pc'[u] = "unused" => bin'[u] = 1
    BY <1>1, <1>3, <1>4, <2>1 DEF OnlyBusy
  <2>7. CASE bin[t] < 3
    <3>1. bin'[t] = bin[t] + 1 /\ pc'[t] = "download"
      BY <1>1, <2>1, <2>7
    <3>2. InOrder(t)' /\ ~binary'["busybox"].exec
      BY <1>1, <2>2, <2>4, <2>5, <2>7, <3>1 DEF InOrder, DoneUpTo, Downloading
    <3> QED
      BY <2>6, <3>2, OneDownloads
  <2>8. CASE bin[t] = 3
    <3>1. pc'[t] = "probe" /\ DoneUpTo(3)'
      BY <1>1, <2>1, <2>4, <2>8 DEF DoneUpTo
    <3>2. InOrder(t)'
      BY <3>1 DEF InOrder, Downloading
    <3> QED
      BY <2>6, <3>1, <3>2, OneDownloads
  <2> QED
    BY <1>1, <2>7, <2>8
<1> QED
  BY <1>6, <1>7, <1>8

LEMMA StepBinary == BootTypes /\ AloneInv /\ BinaryInv /\ [Next]_vars => BinaryInv'
<1> SUFFICES ASSUME BootTypes, AloneInv, BinaryInv, [Next]_vars, ~clash'
             PROVE  BinaryInv'
  BY DEF BinaryInv
<1>1. ASSUME NEW d \in Distro, ChooseDistro(d)
      PROVE  BinaryInv'
  <2>1. PICK t \in Unused : pc' = [pc EXCEPT ![t] = "check"]
    BY <1>1 DEF ChooseDistro
  <2>2. ~clash /\ UNCHANGED <<binary, bin>>
    BY <1>1 DEF ChooseDistro, threadVars, fileVars, tarVars
  <2>3. \A u \in Thread :
           /\ pc'[u] \in {"unused", "check"} => pc[u] \in {"unused", "check"}
           /\ pc'[u] \in Downloading => pc'[u] = pc[u]
    BY <2>1 DEF Unused, Downloading, BootTypes, TypeOK
  <2> QED
    BY <2>2, <2>3, BinariesKept
<1>2. CASE OpenScreen \/ CloseScreen \/ ReceiveError \/ FlushPref \/ UNCHANGED vars
  BY <1>2, BinariesKept DEF OpenScreen, CloseScreen, ReceiveError, FlushPref, vars, screenVars,
                            serviceVars, threadVars, fileVars, tarVars
<1>3. CASE ProcessDies
  <2>1. \A t \in Thread :
           /\ pc'[t] \in {"unused", "check"} => pc[t] \in {"unused", "check"}
           /\ pc'[t] \in Downloading => pc'[t] = pc[t]
    BY <1>3 DEF ProcessDies, Downloading
  <2> QED
    BY <1>3, <2>1, BinariesKept DEF ProcessDies
<1>4. ASSUME NEW t \in Thread, Run(t) \/ Tar(t)
      PROVE  BinaryInv'
  <2>1. ~clash
    BY <1>4 DEF Run, Tar, CheckBinaries, OpenBinary, FinishBinary, ChmodBinary, Probe, OpenTar,
                FinishTar, WipePart, StartTar, ExtractPart, TarSucceeds, StepFails,
                OrphanTarEnds, MarkBootstrapped, Done, BroadcastError, StopSelf, serviceVars
  <2> QED
    BY <1>4, <2>1, QuietBinary, DownloadBinary DEF Run
<1> QED
  BY <1>1, <1>2, <1>3, <1>4 DEF Next

(* Binaries that count as ready are whole, although a new download leaves   *)
(* the exec bits of an old one, wherever the process died.                 *)
THEOREM ReadyIsWhole == Spec => []ReadyMeansWhole
<1>1. BinaryInv => ReadyMeansWhole
  <2> SUFFICES ASSUME BinaryInv, ~clash, BinariesReady, NEW b \in BinaryName
               PROVE  binary[b].state = "whole"
    BY DEF ReadyMeansWhole
  <2>1. DoneUpTo(3)
    BY DEF BinaryInv, BinariesReady, BinaryName
  <2>2. \E i \in 1 .. 3 : b = Binary[i]
    BY Binaries DEF BinaryName
  <2> QED
    BY <2>1, <2>2 DEF DoneUpTo
<1> QED
  BY <1>1, InitTypes, StepTypes, InitAlone, StepAlone, InitBinary, StepBinary, PTL DEF Spec
=============================================================================
