---------------------------- MODULE PtyManager ----------------------------
(***************************************************************************)
(* The native table of terminal/pty_manager.c: g_sessions, the counter     *)
(* g_session_count, and the part of the kernel the functions act on (the   *)
(* forked shells and the open master ends).  Each exported function is one  *)
(* action: the module is the contract of the C library for calls that do   *)
(* not overlap.  Calls come in any order and with any slot number, because *)
(* every NativeTerminal of the process shares the one table and keeps the  *)
(* slot number it was given.  The window size of a slot, which nothing     *)
(* depends on, is left out.                                                *)
(*                                                                         *)
(* A shell k of Shell stands for one incarnation of a pty: its pid and the *)
(* master descriptor opened for it.                                        *)
(***************************************************************************)
EXTENDS Integers, FiniteSets

CONSTANTS MaxSessions,  \* MAX_PTY_SESSIONS, 8 in pty_manager.h
          Shell,        \* the pty incarnations the kernel can hand out
          None          \* the -1 of an unset descriptor or pid

ASSUME MaxSessionsAssumption == MaxSessions \in Nat \ {0}
ASSUME ShellAssumption == IsFiniteSet(Shell) /\ None \notin Shell

VARIABLES slots,    \* g_sessions
          count,    \* g_session_count
          shell,    \* process state of each incarnation
          master,   \* incarnations whose master end is open in this process
          hup,      \* shells that were sent SIGHUP
          wiped,    \* history: shells whose active slot was overwritten by init
          sent      \* shells signalled by the last call

vars == <<slots, count, shell, master, hup, wiped, sent>>

Slot == 0 .. MaxSessions - 1

ProcState == {"none", "running", "zombie", "reaped"}

Session == [active : BOOLEAN, fd : Shell \cup {None}, pid : Shell \cup {None}]

Active == {s \in Slot : slots[s].active}
Free   == Slot \ Active

(* Mutant: init without its loop leaves the zeros of memset. *)
ZeroedSlot == [active |-> FALSE, fd |-> 0, pid |-> 0]

(* A slot as pty_manager_init and pty_close_session leave it. *)
EmptySlot == [active |-> FALSE, fd |-> None, pid |-> None]

PidsOf(S) == {slots[s].pid : s \in S}
FdsOf(S)  == {slots[s].fd : s \in S}

-----------------------------------------------------------------------------
(* The table after the first pty_manager_init of the process. *)
Init ==
    /\ slots = [s \in Slot |-> EmptySlot]
    /\ count = 0
    /\ shell = [k \in Shell |-> "none"]
    /\ master = {}
    /\ hup = {}
    /\ wiped = {}
    /\ sent = {}

(* pty_manager_init once more: nothing is closed, the counter is kept. *)
PtyManagerInit ==
    /\ slots' = [s \in Slot |-> EmptySlot]
    /\ wiped' = wiped \cup PidsOf(Active)
    /\ sent' = {}
    /\ UNCHANGED <<count, shell, master, hup>>

(* Mutant: the counter is taken for the next free slot. *)
OpenTargetByCount(s) == count < MaxSessions /\ s = count

(* The slot pty_open_session settles on: the first inactive one, if the     *)
(* counter allows an open at all.                                          *)
OpenTarget(s) ==
    /\ count < MaxSessions
    /\ s \in Free
    /\ \A r \in Free : s <= r

OpenOk(s, k) ==
    /\ OpenTarget(s)
    /\ shell[k] = "none"
    /\ slots' = [slots EXCEPT ![s] = [active |-> TRUE, fd |-> k, pid |-> k]]
    /\ count' = count + 1
    /\ shell' = [shell EXCEPT ![k] = "running"]
    /\ master' = master \cup {k}
    /\ sent' = {}
    /\ UNCHANGED <<hup, wiped>>

(* posix_openpt, grantpt, unlockpt or ptsname fails: what was opened is     *)
(* closed, master_fd is -1, pid keeps its old value.                       *)
OpenPtFails(s) ==
    /\ OpenTarget(s)
    /\ slots' = [slots EXCEPT ![s].fd = None]
    /\ sent' = {}
    /\ UNCHANGED <<count, shell, master, hup, wiped>>

(* fork fails: pid is -1 as well. *)
ForkFails(s) ==
    /\ OpenTarget(s)
    /\ slots' = [slots EXCEPT ![s].fd = None, ![s].pid = None]
    /\ sent' = {}
    /\ UNCHANGED <<count, shell, master, hup, wiped>>

(* Mutant: no check that the session is active. *)
MaySignalAny(s) == s \in Slot

(* The check pty_resize and pty_send_signal make before they use the slot. *)
MaySignal(s) == slots[s].active

SignalSession(s) ==
    /\ MaySignal(s)
    /\ slots[s].pid # None
    /\ sent' = PidsOf({s})
    /\ UNCHANGED <<slots, count, shell, master, hup, wiped>>

(* TIOCSWINSZ, which needs the descriptor, then SIGWINCH. *)
Resize(s) == slots[s].fd # None /\ SignalSession(s)

SendSignal(s) == SignalSession(s)

(* Mutant: close forgets the descriptor. *)
ClosesNothing(S) == {}

(* The descriptors a close of the slots S gives back. *)
Closes(S) == FdsOf(S) \ {None}

(* pty_close_session of every slot of S, one after the other: SIGHUP, one  *)
(* waitpid(WNOHANG), which collects the zombies and perhaps shells that    *)
(* just ended, then close, reset, decrement.                               *)
CloseAll(S) ==
    LET pids == PidsOf(S) \ {None}
    IN  /\ \E collected \in SUBSET {k \in pids : shell[k] \in {"running", "zombie"}} :
             /\ \A k \in pids : shell[k] = "zombie" => k \in collected
             /\ shell' = [k \in Shell |->
                             IF k \in collected THEN "reaped" ELSE shell[k]]
        /\ hup' = hup \cup pids
        /\ sent' = pids
        /\ master' = master \ Closes(S)
        /\ slots' = [s \in Slot |->
                        IF s \in S THEN EmptySlot ELSE slots[s]]
        /\ count' = count - Cardinality(S)
        /\ UNCHANGED wiped

CloseSession(s) == slots[s].active /\ CloseAll({s})

PtyManagerDestroy == CloseAll(Active)

(* Mutants: pty_is_alive leaves the counter alone, or the slot active. *)
IsAliveKeepsCount(s) ==
    /\ slots[s].active
    /\ shell[slots[s].pid] = "zombie"
    /\ shell' = [shell EXCEPT ![slots[s].pid] = "reaped"]
    /\ slots' = [slots EXCEPT ![s].active = FALSE]
    /\ UNCHANGED <<count, master, hup, wiped, sent>>

IsAliveKeepsSlot(s) ==
    /\ slots[s].active
    /\ shell[slots[s].pid] = "zombie"
    /\ shell' = [shell EXCEPT ![slots[s].pid] = "reaped"]
    /\ UNCHANGED <<slots, count, master, hup, wiped, sent>>

(* pty_is_alive collecting the exited shell: the slot is given back, the   *)
(* descriptor and the pid stay in it.                                      *)
IsAliveReaps(s) ==
    /\ slots[s].active
    /\ slots[s].pid # None
    /\ shell[slots[s].pid] = "zombie"
    /\ shell' = [shell EXCEPT ![slots[s].pid] = "reaped"]
    /\ slots' = [slots EXCEPT ![s].active = FALSE]
    /\ count' = count - 1
    /\ sent' = {}
    /\ UNCHANGED <<master, hup, wiped>>

(* The shell exits: of its own accord, or because of the hangup. *)
ShellExits(k) ==
    /\ shell[k] = "running"
    /\ shell' = [shell EXCEPT ![k] = "zombie"]
    /\ sent' = {}
    /\ UNCHANGED <<slots, count, master, hup, wiped>>

Next ==
    \/ PtyManagerInit
    \/ \E s \in Slot, k \in Shell : OpenOk(s, k)
    \/ \E s \in Slot : OpenPtFails(s)
    \/ \E s \in Slot : ForkFails(s)
    \/ \E s \in Slot : Resize(s)
    \/ \E s \in Slot : SendSignal(s)
    \/ \E s \in Slot : CloseSession(s)
    \/ PtyManagerDestroy
    \/ \E s \in Slot : IsAliveReaps(s)
    \/ \E k \in Shell : ShellExits(k)

Spec == Init /\ [][Next]_vars

-----------------------------------------------------------------------------
(* Type invariant of the table and of the kernel state beside it. *)
TypeOK ==
    /\ slots \in [Slot -> Session]
    /\ count \in Int
    /\ shell \in [Shell -> ProcState]
    /\ master \subseteq Shell
    /\ hup \subseteq Shell
    /\ wiped \subseteq Shell
    /\ sent \subseteq Shell

(* g_session_count is the number of active slots plus the sessions that    *)
(* pty_manager_init overwrote: nothing else makes the counter drift, and   *)
(* what init forgot is never given back.                                   *)
CountAccounts == count = Cardinality(Active) + Cardinality(wiped)

(* Two sessions never share a shell or a descriptor, and an active slot    *)
(* owns a shell not yet collected and a master that is open: no call can   *)
(* act on a recycled pid or descriptor through an active slot.             *)
ActiveSlotsOwn ==
    \A s \in Active :
        /\ slots[s].pid = slots[s].fd
        /\ slots[s].pid \in master
        /\ shell[slots[s].pid] \in {"running", "zombie"}
        /\ slots[s].pid \notin wiped \cup hup
        /\ \A r \in Active \ {s} : slots[r].pid # slots[s].pid

(* No shell runs on unnoticed: one that was not collected is in an active  *)
(* slot, or was hung up by a close, or was forgotten by init.              *)
ShellsAccounted ==
    \A k \in Shell : shell[k] \in {"running", "zombie"} =>
        k \in PidsOf(Active) \cup hup \cup wiped

(* A master end is open only for an active session, for one init forgot,   *)
(* or for a shell that pty_is_alive collected: is_alive keeps the          *)
(* descriptor of an exited shell, and no later call closes it.             *)
MastersAccounted ==
    \A k \in master :
        k \in FdsOf(Active) \cup wiped \/ (shell[k] = "reaped" /\ k \notin hup)

(* A signal only reaches a shell that still has its pid: kill is never     *)
(* called with a pid the kernel may have given to another process.         *)
SignalsReachOwnShell ==
    [][\A k \in sent' : shell[k] \in {"running", "zombie"}]_vars

(* The message of the refusal, "Max sessions reached (%d)": an open is     *)
(* refused on the counter only when that many sessions are active.         *)
RefusedOnlyWhenFull == count >= MaxSessions => Active = Slot

=============================================================================
