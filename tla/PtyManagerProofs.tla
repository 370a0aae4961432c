------------------------- MODULE PtyManagerProofs -------------------------
(* The invariants of PtyManager hold for every size of the table and every *)
(* finite set of ptys.  TableInv is inductive; the counter and the two     *)
(* accounting invariants are inductive relative to it.                     *)
EXTENDS PtyManager, FiniteSetTheorems, FunctionTheorems, TLAPS

(* A pty not yet handed out has left no trace. *)
FreshUnused ==
    \A k \in Shell : shell[k] = "none" => k \notin master \cup hup \cup wiped

TableInv == TypeOK /\ ActiveSlotsOwn /\ FreshUnused

(* Sets of slots are finite, so they can be counted. *)
LEMMA SlotSubsets ==
  ASSUME NEW S \in SUBSET Slot
  PROVE  IsFiniteSet(S) /\ Cardinality(S) \in Nat
<1>1. IsFiniteSet(Slot)
  BY FS_Interval, MaxSessionsAssumption DEF Slot
<1> QED
  BY <1>1, FS_Subset, FS_CardinalityType

LEMMA InitTable == Init => TableInv
  BY ShellAssumption
     DEF Init, TableInv, TypeOK, ActiveSlotsOwn, FreshUnused, Active, EmptySlot,
         Session, ProcState

(* The kinds of step the proofs below go through. *)
LEMMA StepKinds ==
  ASSUME [Next]_vars
  PROVE  \/ PtyManagerInit
         \/ \E s \in Slot, k \in Shell : OpenOk(s, k)
         \/ \E s \in Slot : OpenPtFails(s) \/ ForkFails(s)
         \/ \E s \in Slot : SignalSession(s)
         \/ \E S \in SUBSET Active : CloseAll(S)
         \/ \E s \in Slot : IsAliveReaps(s)
         \/ \E k \in Shell : ShellExits(k)
         \/ UNCHANGED vars
<1>1. ASSUME NEW s \in Slot, CloseSession(s)
      PROVE  \E S \in SUBSET Active : CloseAll(S)
  <2>1. {s} \in SUBSET Active
    BY <1>1 DEF CloseSession, Active
  <2> QED
    BY <1>1, <2>1 DEF CloseSession
<1>2. PtyManagerDestroy => \E S \in SUBSET Active : CloseAll(S)
  BY DEF PtyManagerDestroy
<1> QED
  BY <1>1, <1>2 DEF Next, Resize, SendSignal

-----------------------------------------------------------------------------
LEMMA NextTypeOK ==
  ASSUME TableInv, [Next]_vars
  PROVE  TypeOK'
<1> USE DEF TypeOK, Session, ProcState
<1>1. CASE PtyManagerInit
  <2>1. PidsOf(Active) \subseteq Shell
    BY DEF TableInv, ActiveSlotsOwn, PidsOf, Active
  <2> QED
    BY <1>1, <2>1 DEF PtyManagerInit, EmptySlot, TableInv
<1>2. ASSUME NEW s \in Slot, NEW k \in Shell, OpenOk(s, k)
      PROVE  TypeOK'
  BY <1>2 DEF OpenOk, TableInv
<1>3. ASSUME NEW s \in Slot, OpenPtFails(s) \/ ForkFails(s)
      PROVE  TypeOK'
  BY <1>3 DEF OpenPtFails, ForkFails, TableInv
<1>4. ASSUME NEW s \in Slot, SignalSession(s)
      PROVE  TypeOK'
  BY <1>4 DEF SignalSession, PidsOf, TableInv
<1>5. ASSUME NEW S \in SUBSET Active, CloseAll(S)
      PROVE  TypeOK'
  <2>1. PidsOf(S) \ {None} \subseteq Shell /\ S \subseteq Slot
    BY DEF TableInv, PidsOf, Active
  <2>2. Cardinality(S) \in Nat
    BY <2>1, SlotSubsets
  <2>3. slots' \in [Slot -> Session]
    BY <1>5, <2>1 DEF CloseAll, TableInv, EmptySlot
  <2>4. shell' \in [Shell -> ProcState]
    BY <1>5 DEF CloseAll, TableInv
  <2>5. count' \in Int
    <3>1. count' = count - Cardinality(S)
      BY <1>5 DEF CloseAll
    <3> QED
      BY <3>1, <2>2 DEF TableInv
  <2>6. master' \subseteq Shell /\ wiped' \subseteq Shell
    BY <1>5 DEF CloseAll, TableInv
  <2>7. hup' \subseteq Shell /\ sent' \subseteq Shell
    BY <1>5, <2>1 DEF CloseAll, TableInv
  <2> QED
    BY <2>3, <2>4, <2>5, <2>6, <2>7
<1>6. ASSUME NEW s \in Slot, IsAliveReaps(s)
      PROVE  TypeOK'
  <2>1. slots' \in [Slot -> Session]
    BY <1>6 DEF IsAliveReaps, TableInv
  <2>2. shell' \in [Shell -> ProcState]
    BY <1>6 DEF IsAliveReaps, TableInv
  <2> QED
    BY <1>6, <2>1, <2>2 DEF IsAliveReaps, TableInv
<1>7. ASSUME NEW k \in Shell, ShellExits(k)
      PROVE  TypeOK'
  BY <1>7 DEF ShellExits, TableInv
<1>8. CASE UNCHANGED vars
  BY <1>8 DEF vars, TableInv
<1> HIDE DEF TypeOK
<1> QED
  BY <1>1, <1>2, <1>3, <1>4, <1>5, <1>6, <1>7, <1>8, StepKinds

-----------------------------------------------------------------------------
(* What each kind of step does to the set of active slots. *)
LEMMA ActiveAfterOpen ==
  ASSUME TypeOK, NEW s \in Slot, NEW k \in Shell, OpenOk(s, k)
  PROVE  /\ s \notin Active /\ Active' = Active \cup {s}
         /\ \A r \in Active : slots'[r] = slots[r]
         /\ slots'[s].pid = k /\ slots'[s].fd = k
  BY DEF TypeOK, OpenOk, OpenTarget, Free, Active

LEMMA ActiveAfterFailure ==
  ASSUME TypeOK, NEW s \in Slot, OpenPtFails(s) \/ ForkFails(s)
  PROVE  /\ Active' = Active
         /\ \A r \in Active : slots'[r] = slots[r]
  BY DEF TypeOK, OpenPtFails, ForkFails, OpenTarget, Free, Active, Session

LEMMA ActiveAfterClose ==
  ASSUME TypeOK, NEW S \in SUBSET Active, CloseAll(S)
  PROVE  /\ Active' = Active \ S
         /\ \A r \in Active \ S : slots'[r] = slots[r]
<1>1. slots' = [s \in Slot |-> IF s \in S THEN EmptySlot ELSE slots[s]]
  BY DEF CloseAll
<1> QED
  BY <1>1 DEF TypeOK, Active, EmptySlot

LEMMA ActiveAfterIsAlive ==
  ASSUME TypeOK, NEW s \in Slot, IsAliveReaps(s)
  PROVE  /\ s \in Active /\ Active' = Active \ {s}
         /\ \A r \in Active' : slots'[r] = slots[r]
  BY DEF TypeOK, IsAliveReaps, Active, Session

-----------------------------------------------------------------------------
LEMMA NextActiveSlotsOwn ==
  ASSUME TableInv, [Next]_vars
  PROVE  ActiveSlotsOwn'
<1> USE DEF TableInv
<1>1. CASE PtyManagerInit
  BY <1>1 DEF PtyManagerInit, ActiveSlotsOwn, Active, EmptySlot
<1>2. ASSUME NEW s \in Slot, NEW k \in Shell, OpenOk(s, k)
      PROVE  ActiveSlotsOwn'
  <2>1. shell[k] = "none" /\ k \notin hup \cup wiped
    BY <1>2 DEF OpenOk, FreshUnused
  <2>2. /\ shell' = [shell EXCEPT ![k] = "running"] /\ master' = master \cup {k}
        /\ hup' = hup /\ wiped' = wiped
    BY <1>2 DEF OpenOk
  <2>3. \A r \in Active : slots[r].pid # k /\ slots[r].pid \in Shell
    BY <2>1 DEF ActiveSlotsOwn, TypeOK
  <2> QED
    BY <1>2, <2>1, <2>2, <2>3, ActiveAfterOpen DEF ActiveSlotsOwn, TypeOK
<1>3. ASSUME NEW s \in Slot, OpenPtFails(s) \/ ForkFails(s)
      PROVE  ActiveSlotsOwn'
  <2>1. UNCHANGED <<shell, master, hup, wiped>>
    BY <1>3 DEF OpenPtFails, ForkFails
  <2> QED
    BY <1>3, <2>1, ActiveAfterFailure DEF ActiveSlotsOwn
<1>4. ASSUME NEW s \in Slot, SignalSession(s)
      PROVE  ActiveSlotsOwn'
  BY <1>4 DEF SignalSession, ActiveSlotsOwn, Active
<1>5. ASSUME NEW S \in SUBSET Active, CloseAll(S)
      PROVE  ActiveSlotsOwn'
  <2>1. \A r \in Active \ S : slots[r].pid \notin PidsOf(S) /\ slots[r].pid \notin Closes(S)
    BY DEF ActiveSlotsOwn, PidsOf, Closes, FdsOf
  <2>2. \A k \in Shell \ PidsOf(S) : shell'[k] = shell[k]
    BY <1>5 DEF CloseAll, TypeOK
  <2>3. /\ hup' \subseteq hup \cup PidsOf(S) /\ wiped' = wiped
        /\ master' = master \ Closes(S)
    BY <1>5 DEF CloseAll
  <2>4. \A r \in Active : slots[r].pid \in Shell
    BY DEF ActiveSlotsOwn, TypeOK
  <2> QED
    BY <1>5, <2>1, <2>2, <2>3, <2>4, ActiveAfterClose DEF ActiveSlotsOwn
<1>6. ASSUME NEW s \in Slot, IsAliveReaps(s)
      PROVE  ActiveSlotsOwn'
  <2>1. /\ shell' = [shell EXCEPT ![slots[s].pid] = "reaped"]
        /\ UNCHANGED <<master, hup, wiped>>
    BY <1>6 DEF IsAliveReaps
  <2> QED
    BY <1>6, <2>1, ActiveAfterIsAlive DEF ActiveSlotsOwn, TypeOK
<1>7. ASSUME NEW k \in Shell, ShellExits(k)
      PROVE  ActiveSlotsOwn'
  BY <1>7 DEF ShellExits, ActiveSlotsOwn, Active, TypeOK
<1>8. CASE UNCHANGED vars
  BY <1>8 DEF vars, ActiveSlotsOwn, Active
<1> QED
  BY <1>1, <1>2, <1>3, <1>4, <1>5, <1>6, <1>7, <1>8, StepKinds

LEMMA NextFreshUnused ==
  ASSUME TableInv, [Next]_vars
  PROVE  FreshUnused'
<1> USE DEF TableInv, FreshUnused
<1>0. \A k \in PidsOf(Active) : k \in Shell /\ shell[k] # "none"
  BY DEF PidsOf, ActiveSlotsOwn, TypeOK
<1>1. CASE PtyManagerInit
  BY <1>0, <1>1 DEF PtyManagerInit
<1>2. ASSUME NEW s \in Slot, NEW k \in Shell, OpenOk(s, k)
      PROVE  FreshUnused'
  BY <1>2 DEF OpenOk, TypeOK
<1>3. ASSUME NEW s \in Slot, OpenPtFails(s) \/ ForkFails(s)
      PROVE  FreshUnused'
  BY <1>3 DEF OpenPtFails, ForkFails
<1>4. ASSUME NEW s \in Slot, SignalSession(s)
      PROVE  FreshUnused'
  BY <1>4 DEF SignalSession
<1>5. ASSUME NEW S \in SUBSET Active, CloseAll(S)
      PROVE  FreshUnused'
  <2>1. \A k \in Shell : shell'[k] = shell[k] \/ shell'[k] = "reaped"
    BY <1>5 DEF CloseAll, TypeOK
  <2>2. PidsOf(S) \subseteq PidsOf(Active)
    BY DEF PidsOf
  <2>3. hup' \subseteq hup \cup PidsOf(S) /\ master' \subseteq master /\ wiped' = wiped
    BY <1>5 DEF CloseAll
  <2> QED
    BY <1>0, <2>1, <2>2, <2>3
<1>6. ASSUME NEW s \in Slot, IsAliveReaps(s)
      PROVE  FreshUnused'
  BY <1>6 DEF IsAliveReaps, TypeOK
<1>7. ASSUME NEW k \in Shell, ShellExits(k)
      PROVE  FreshUnused'
  BY <1>7 DEF ShellExits, TypeOK
<1>8. CASE UNCHANGED vars
  BY <1>8 DEF vars
<1> HIDE DEF FreshUnused
<1> QED
  BY <1>1, <1>2, <1>3, <1>4, <1>5, <1>6, <1>7, <1>8, StepKinds

LEMMA NextTable == TableInv /\ [Next]_vars => TableInv'
  BY NextTypeOK, NextActiveSlotsOwn, NextFreshUnused DEF TableInv

-----------------------------------------------------------------------------
(* Sessions and their shells are equally many: no shell is in two slots. *)
LEMMA PidsOfActiveCounted ==
  ASSUME TableInv
  PROVE  /\ IsFiniteSet(PidsOf(Active))
         /\ Cardinality(PidsOf(Active)) = Cardinality(Active)
<1> DEFINE f == [s \in Active |-> slots[s].pid]
<1>1. f \in Bijection(Active, PidsOf(Active))
  <2>1. f \in [Active -> PidsOf(Active)]
    BY DEF PidsOf
  <2>2. \A s, t \in Active : f[s] = f[t] => s = t
    BY DEF TableInv, ActiveSlotsOwn
  <2>3. \A k \in PidsOf(Active) : \E s \in Active : f[s] = k
    BY DEF PidsOf
  <2> QED
    BY <2>1, <2>2, <2>3, Fun_IsBij
<1>2. IsFiniteSet(Active)
  BY SlotSubsets DEF Active
<1> QED
  BY <1>1, <1>2, FS_Bijection DEF ExistsBijection

LEMMA NextCountAccounts ==
  ASSUME TableInv, CountAccounts, [Next]_vars
  PROVE  CountAccounts'
<1>1. IsFiniteSet(Active) /\ Cardinality(Active) \in Nat
  BY SlotSubsets DEF Active
<1>2. IsFiniteSet(wiped) /\ Cardinality(wiped) \in Nat
  BY ShellAssumption, FS_Subset, FS_CardinalityType DEF TableInv, TypeOK
<1>3. TypeOK
  BY DEF TableInv
<1>4. ASSUME Active' = Active, wiped' = wiped, count' = count
      PROVE  CountAccounts'
  BY <1>4 DEF CountAccounts
<1>5. CASE PtyManagerInit
  <2>1. Active' = {} /\ Cardinality(Active') = 0
    BY <1>5, FS_EmptySet DEF PtyManagerInit, Active, EmptySlot
  <2>2. wiped \cap PidsOf(Active) = {}
    BY DEF TableInv, ActiveSlotsOwn, PidsOf
  <2>3. Cardinality(wiped') = Cardinality(wiped) + Cardinality(Active)
    BY <1>1, <1>2, <1>5, <2>2, PidsOfActiveCounted, FS_Union, FS_EmptySet
       DEF PtyManagerInit
  <2> QED
    BY <1>1, <1>2, <1>5, <2>1, <2>3 DEF CountAccounts, PtyManagerInit
<1>6. ASSUME NEW s \in Slot, NEW k \in Shell, OpenOk(s, k)
      PROVE  CountAccounts'
  <2>1. Cardinality(Active') = Cardinality(Active) + 1
    BY <1>1, <1>3, <1>6, ActiveAfterOpen, FS_AddElement
  <2> QED
    BY <1>1, <1>2, <1>6, <2>1 DEF OpenOk, CountAccounts
<1>7. ASSUME NEW s \in Slot, OpenPtFails(s) \/ ForkFails(s)
      PROVE  CountAccounts'
  BY <1>3, <1>4, <1>7, ActiveAfterFailure DEF OpenPtFails, ForkFails
<1>8. ASSUME NEW s \in Slot, SignalSession(s)
      PROVE  CountAccounts'
  BY <1>4, <1>8 DEF SignalSession, Active
<1>9. ASSUME NEW S \in SUBSET Active, CloseAll(S)
      PROVE  CountAccounts'
  <2>1. Active \cap S = S /\ Active' = Active \ S
    BY <1>3, <1>9, ActiveAfterClose
  <2>2. Cardinality(Active') = Cardinality(Active) - Cardinality(S)
    BY <1>1, <2>1, FS_Difference
  <2>3. Cardinality(S) \in Nat
    BY SlotSubsets DEF Active
  <2>4. count' = count - Cardinality(S) /\ wiped' = wiped
    BY <1>9 DEF CloseAll
  <2> QED
    BY <1>1, <1>2, <2>2, <2>3, <2>4 DEF CountAccounts
<1>10. ASSUME NEW s \in Slot, IsAliveReaps(s)
       PROVE  CountAccounts'
  <2>1. Cardinality(Active') = Cardinality(Active) - 1
    BY <1>1, <1>3, <1>10, ActiveAfterIsAlive, FS_RemoveElement
  <2> QED
    BY <1>1, <1>2, <1>10, <2>1 DEF IsAliveReaps, CountAccounts
<1>11. ASSUME NEW k \in Shell, ShellExits(k)
       PROVE  CountAccounts'
  BY <1>4, <1>11 DEF ShellExits, Active
<1>12. CASE UNCHANGED vars
  BY <1>4, <1>12 DEF vars, Active
<1> QED
  BY <1>5, <1>6, <1>7, <1>8, <1>9, <1>10, <1>11, <1>12, StepKinds

-----------------------------------------------------------------------------
LEMMA NextShellsAccounted ==
  ASSUME TableInv, ShellsAccounted, [Next]_vars
  PROVE  ShellsAccounted'
<1> USE DEF ShellsAccounted
<1>1. TypeOK
  BY DEF TableInv
<1>2. CASE PtyManagerInit
  BY <1>2 DEF PtyManagerInit
<1>3. ASSUME NEW s \in Slot, NEW k \in Shell, OpenOk(s, k)
      PROVE  ShellsAccounted'
  <2>1. PidsOf(Active)' = PidsOf(Active) \cup {k}
    BY <1>1, <1>3, ActiveAfterOpen DEF PidsOf
  <2> QED
    BY <1>1, <1>3, <2>1 DEF OpenOk, TypeOK
<1>4. ASSUME NEW s \in Slot, OpenPtFails(s) \/ ForkFails(s)
      PROVE  ShellsAccounted'
  <2>1. PidsOf(Active)' = PidsOf(Active)
    BY <1>1, <1>4, ActiveAfterFailure DEF PidsOf
  <2> QED
    BY <1>4, <2>1 DEF OpenPtFails, ForkFails
<1>5. ASSUME NEW s \in Slot, SignalSession(s)
      PROVE  ShellsAccounted'
  BY <1>5 DEF SignalSession, PidsOf, Active
<1>6. ASSUME NEW S \in SUBSET Active, CloseAll(S)
      PROVE  ShellsAccounted'
  <2>1. \A k \in PidsOf(Active) : k \in PidsOf(Active)' \/ k \in PidsOf(S)
    BY <1>1, <1>6, ActiveAfterClose DEF PidsOf
  <2>2. hup' = hup \cup (PidsOf(S) \ {None}) /\ wiped' = wiped
    BY <1>6 DEF CloseAll
  <2>3. \A k \in Shell : shell'[k] \in {"running", "zombie"} => shell'[k] = shell[k]
    BY <1>6 DEF CloseAll, TypeOK
  <2> QED
    BY <2>1, <2>2, <2>3, ShellAssumption
<1>7. ASSUME NEW s \in Slot, IsAliveReaps(s)
      PROVE  ShellsAccounted'
  <2>1. \A k \in PidsOf(Active) : k \in PidsOf(Active)' \/ k = slots[s].pid
    BY <1>1, <1>7, ActiveAfterIsAlive DEF PidsOf
  <2> QED
    BY <1>1, <1>7, <2>1 DEF IsAliveReaps, TypeOK
<1>8. ASSUME NEW k \in Shell, ShellExits(k)
      PROVE  ShellsAccounted'
  BY <1>1, <1>8 DEF ShellExits, PidsOf, Active, TypeOK
<1>9. CASE UNCHANGED vars
  BY <1>9 DEF vars, PidsOf, Active
<1> HIDE DEF ShellsAccounted
<1> QED
  BY <1>2, <1>3, <1>4, <1>5, <1>6, <1>7, <1>8, <1>9, StepKinds

LEMMA NextMastersAccounted ==
  ASSUME TableInv, MastersAccounted, [Next]_vars
  PROVE  MastersAccounted'
<1> USE DEF MastersAccounted
<1>1. TypeOK /\ FdsOf(Active) = PidsOf(Active)
  BY DEF TableInv, ActiveSlotsOwn, FdsOf, PidsOf
<1>2. CASE PtyManagerInit
  BY <1>1, <1>2 DEF PtyManagerInit
<1>3. ASSUME NEW s \in Slot, NEW k \in Shell, OpenOk(s, k)
      PROVE  MastersAccounted'
  <2>1. FdsOf(Active)' = FdsOf(Active) \cup {k}
    BY <1>1, <1>3, ActiveAfterOpen DEF FdsOf
  <2> QED
    BY <1>1, <1>3, <2>1 DEF OpenOk, TypeOK
<1>4. ASSUME NEW s \in Slot, OpenPtFails(s) \/ ForkFails(s)
      PROVE  MastersAccounted'
  <2>1. FdsOf(Active)' = FdsOf(Active)
    BY <1>1, <1>4, ActiveAfterFailure DEF FdsOf
  <2> QED
    BY <1>4, <2>1 DEF OpenPtFails, ForkFails
<1>5. ASSUME NEW s \in Slot, SignalSession(s)
      PROVE  MastersAccounted'
  BY <1>5 DEF SignalSession, FdsOf, Active
<1>6. ASSUME NEW S \in SUBSET Active, CloseAll(S)
      PROVE  MastersAccounted'
  <2>1. \A k \in FdsOf(Active) : k \in FdsOf(Active)' \/ k \in FdsOf(S)
    BY <1>1, <1>6, ActiveAfterClose DEF FdsOf
  <2>2. /\ hup' = hup \cup (PidsOf(S) \ {None}) /\ wiped' = wiped
        /\ master' = master \ (FdsOf(S) \ {None})
    BY <1>6 DEF CloseAll, Closes
  <2>3. \A k \in Shell : shell[k] = "reaped" => shell'[k] = "reaped"
    BY <1>6 DEF CloseAll, TypeOK
  <2>4. \A k \in PidsOf(S) : shell[k] # "reaped"
    BY DEF PidsOf, TableInv, ActiveSlotsOwn
  <2>5. master \subseteq Shell
    BY <1>1 DEF TypeOK
  <2> QED
    BY <2>1, <2>2, <2>3, <2>4, <2>5, ShellAssumption
<1>7. ASSUME NEW s \in Slot, IsAliveReaps(s)
      PROVE  MastersAccounted'
  <2>1. \A k \in FdsOf(Active) : k \in FdsOf(Active)' \/ k = slots[s].fd
    BY <1>1, <1>7, ActiveAfterIsAlive DEF FdsOf
  <2>2. slots[s].fd = slots[s].pid /\ slots[s].fd \notin hup
    BY <1>7 DEF IsAliveReaps, TableInv, ActiveSlotsOwn, Active
  <2> QED
    BY <1>1, <1>7, <2>1, <2>2 DEF IsAliveReaps, TypeOK
<1>8. ASSUME NEW k \in Shell, ShellExits(k)
      PROVE  MastersAccounted'
  BY <1>1, <1>8 DEF ShellExits, FdsOf, Active, TypeOK
<1>9. CASE UNCHANGED vars
  BY <1>9 DEF vars, FdsOf, Active
<1> HIDE DEF MastersAccounted
<1> QED
  BY <1>2, <1>3, <1>4, <1>5, <1>6, <1>7, <1>8, <1>9, StepKinds

LEMMA StepSignalsOwn ==
  ASSUME TableInv, [Next]_vars
  PROVE  [\A k \in sent' : shell[k] \in {"running", "zombie"}]_vars
<1>1. \A S \in SUBSET Active : \A k \in PidsOf(S) : shell[k] \in {"running", "zombie"}
  BY DEF TableInv, ActiveSlotsOwn, PidsOf
<1>2. CASE sent' = {}
  BY <1>2
<1>3. ASSUME NEW s \in Slot, SignalSession(s)
      PROVE  \A k \in sent' : shell[k] \in {"running", "zombie"}
  <2>1. {s} \in SUBSET Active
    BY <1>3 DEF SignalSession, MaySignal, Active
  <2> QED
    BY <1>1, <1>3, <2>1 DEF SignalSession
<1>4. ASSUME NEW S \in SUBSET Active, CloseAll(S)
      PROVE  \A k \in sent' : shell[k] \in {"running", "zombie"}
  BY <1>1, <1>4 DEF CloseAll
<1>5. \/ PtyManagerInit
      \/ \E s \in Slot, k \in Shell : OpenOk(s, k)
      \/ \E s \in Slot : OpenPtFails(s) \/ ForkFails(s)
      \/ \E s \in Slot : IsAliveReaps(s)
      \/ \E k \in Shell : ShellExits(k)
      => sent' = {}
  BY DEF PtyManagerInit, OpenOk, OpenPtFails, ForkFails, IsAliveReaps, ShellExits
<1> QED
  BY <1>2, <1>3, <1>4, <1>5, StepKinds

-----------------------------------------------------------------------------
(* The inductive invariant of the table holds in every behaviour. *)
THEOREM TableInvariant == Spec => []TableInv
<1> QED
  BY InitTable, NextTable, PTL DEF Spec

(* Type correctness of g_sessions and of the kernel state beside it. *)
THEOREM TypeCorrect == Spec => []TypeOK
<1>1. TableInv => TypeOK
  BY DEF TableInv
<1> QED
  BY <1>1, TableInvariant, PTL

(* No two sessions share a shell or a descriptor, whatever the order in    *)
(* which the functions of pty_manager.c are called.                        *)
THEOREM SessionsAreSeparate == Spec => []ActiveSlotsOwn
<1>1. TableInv => ActiveSlotsOwn
  BY DEF TableInv
<1> QED
  BY <1>1, TableInvariant, PTL

(* g_session_count is exact up to the sessions pty_manager_init forgot. *)
THEOREM CounterIsExact == Spec => []CountAccounts
<1>1. Init => CountAccounts
  <2>1. Init => Active = {} /\ wiped = {} /\ count = 0
    BY DEF Init, Active, EmptySlot
  <2>2. Cardinality({}) = 0
    BY FS_EmptySet
  <2> QED
    BY <2>1, <2>2 DEF CountAccounts
<1> QED
  BY <1>1, NextCountAccounts, TableInvariant, PTL DEF Spec

(* Every shell not collected is in a session, hung up, or forgotten by     *)
(* pty_manager_init.                                                       *)
THEOREM NoUnaccountedShell == Spec => []ShellsAccounted
<1>1. Init => ShellsAccounted
  BY DEF Init, ShellsAccounted
<1> QED
  BY <1>1, NextShellsAccounted, TableInvariant, PTL DEF Spec

(* The only master ends a session does not hold are those pty_is_alive and *)
(* pty_manager_init leave behind.                                          *)
THEOREM NoUnaccountedMaster == Spec => []MastersAccounted
<1>1. Init => MastersAccounted
  BY DEF Init, MastersAccounted
<1> QED
  BY <1>1, NextMastersAccounted, TableInvariant, PTL DEF Spec

(* kill is never called with the pid of a shell already collected. *)
THEOREM SignalsAreSafe == Spec => SignalsReachOwnShell
<1>1. TableInv /\ [Next]_vars => [\A k \in sent' : shell[k] \in {"running", "zombie"}]_vars
  BY StepSignalsOwn
<1> QED
  BY <1>1, TableInvariant, PTL DEF Spec, SignalsReachOwnShell
=============================================================================
