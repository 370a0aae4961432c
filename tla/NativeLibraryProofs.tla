------------------------ MODULE NativeLibraryProofs ------------------------
(***************************************************************************)
(* For every set of commands, names, values, characters and path names,    *)
(* every limit and every rootfs: the invariants of the native library's    *)
(* state, and what its pure functions compute for inputs of any length.    *)
(***************************************************************************)
EXTENDS NativeLibrary, FiniteSetTheorems, SequenceTheorems, TLAPS

-----------------------------------------------------------------------------
(* The tables of aliases and variables.  What an array of names and values *)
(* computes does not depend on the constants of KeyTable, so the lemmas    *)
(* are about the operators of one instance, for names N and values V of any *)
(* kind and any capacity max; SameArrays carries them over to the other.   *)
Fine(t, N, V, max) == t \in Seq([name : N, value : V]) /\ Len(t) <= max /\ Alias!Unique(t)

(* KeyTable's With, for a capacity of max. *)
Stored(t, n, v, max) ==
    IF n \in Alias!Names(t)
    THEN [t EXCEPT ![Alias!Position(t, n)] = [name |-> n, value |-> v]]
    ELSE IF Len(t) < max THEN Append(t, [name |-> n, value |-> v]) ELSE t

LEMMA SameArrays ==
  ASSUME NEW t, NEW n, NEW v
  PROVE  /\ Env!Unique(t) <=> Alias!Unique(t)
         /\ Env!Names(t) = Alias!Names(t)
         /\ Env!MapOf(t) = Alias!MapOf(t)
         /\ Env!Without(t, n) = Alias!Without(t, n)
         /\ Env!With(t, n, v) = Stored(t, n, v, MaxVariables)
         /\ Alias!With(t, n, v) = Stored(t, n, v, MaxAliases)
<1>1. Env!Names(t) = Alias!Names(t) /\ (Env!Unique(t) <=> Alias!Unique(t))
  BY DEF Env!Names, Alias!Names, Env!Unique, Alias!Unique
<1>2. \A m : Env!Position(t, m) = Alias!Position(t, m)
  BY DEF Env!Position, Alias!Position
<1>3. Env!MapOf(t) = Alias!MapOf(t)
  BY <1>1, <1>2 DEF Env!MapOf, Alias!MapOf, Env!Get, Alias!Get
<1>4. Env!Without(t, n) = Alias!Without(t, n)
  BY <1>1, <1>2 DEF Env!Without, Alias!Without
<1>5. /\ Env!With(t, n, v) = Stored(t, n, v, MaxVariables)
      /\ Alias!With(t, n, v) = Stored(t, n, v, MaxAliases)
  BY <1>1, <1>2 DEF Env!With, Alias!With, Stored
<1> QED
  BY <1>1, <1>3, <1>4, <1>5

(* The search from the front finds the only entry of a name. *)
LEMMA PositionIsTheEntry ==
  ASSUME NEW E, NEW t \in Seq(E), Alias!Unique(t), NEW i \in DOMAIN t
  PROVE  Alias!Position(t, t[i].name) = i
<1> DEFINE P(k) == t[k].name = t[i].name /\ \A j \in DOMAIN t : j < k => t[j].name # t[i].name
<1>1. P(i)
  <2>1. ASSUME NEW j \in DOMAIN t, j < i PROVE t[j].name # t[i].name
    BY <2>1 DEF Alias!Unique
  <2> QED
    BY <2>1
<1>2. ASSUME NEW k \in DOMAIN t, P(k) PROVE k = i
  BY <1>2 DEF Alias!Unique
<1> QED
  BY <1>1, <1>2 DEF Alias!Position

LEMMA GetIsTheEntry ==
  ASSUME NEW E, NEW t \in Seq(E), Alias!Unique(t), NEW i \in DOMAIN t
  PROVE  Alias!Get(t, t[i].name) = t[i].value
  BY PositionIsTheEntry DEF Alias!Get

LEMMA PositionOfAName ==
  ASSUME NEW E, NEW t \in Seq(E), Alias!Unique(t), NEW n \in Alias!Names(t)
  PROVE  Alias!Position(t, n) \in 1 .. Len(t) /\ t[Alias!Position(t, n)].name = n
<1>1. PICK i \in DOMAIN t : t[i].name = n
  BY DEF Alias!Names
<1>2. Alias!Position(t, n) = i
  BY <1>1, PositionIsTheEntry
<1> QED
  BY <1>1, <1>2

-----------------------------------------------------------------------------
(* A set leaves the table fine, and changes the function at n only. *)
Updated(s, t, n, v) ==
    /\ Alias!Names(s) = Alias!Names(t) \cup {n}
    /\ \A m \in Alias!Names(s) : Alias!Get(s, m) = IF m = n THEN v ELSE Alias!Get(t, m)

LEMMA StoredIsAnUpdate ==
  ASSUME NEW N, NEW V, NEW max \in Nat, NEW t, Fine(t, N, V, max),
         NEW n \in N, NEW v \in V,
         n \in Alias!Names(t) \/ Len(t) < max,
         NEW s, s = Stored(t, n, v, max)
  PROVE  Fine(s, N, V, max) /\ Updated(s, t, n, v)
<1> USE DEF Fine, Updated
<1> DEFINE e == [name |-> n, value |-> v]
<1>1. e \in [name : N, value : V]
  OBVIOUS
<1>2. CASE n \in Alias!Names(t)
  <2> DEFINE p == Alias!Position(t, n)
  <2>1. p \in 1 .. Len(t) /\ t[p].name = n
    BY <1>2, PositionOfAName
  <2>2. s = [t EXCEPT ![p] = e]
    BY <1>2 DEF Stored
  <2> HIDE DEF p
  <2>3. s \in Seq([name : N, value : V]) /\ Len(s) = Len(t) /\ DOMAIN s = DOMAIN t
    BY <1>1, <2>1, <2>2
  <2>4. \A i \in DOMAIN s : s[i] = IF i = p THEN e ELSE t[i]
    BY <2>1, <2>2, <2>3
  <2>5. \A i \in DOMAIN s : s[i].name = t[i].name
    BY <2>1, <2>4
  <2>6. Alias!Unique(s) /\ Alias!Names(s) = Alias!Names(t)
    BY <2>3, <2>5 DEF Alias!Unique, Alias!Names
  <2>7. ASSUME NEW m \in Alias!Names(s) PROVE Alias!Get(s, m) = IF m = n THEN v ELSE Alias!Get(t, m)
    <3>1. PICK i \in DOMAIN s : s[i].name = m
      BY DEF Alias!Names
    <3>2. Alias!Get(s, m) = s[i].value /\ Alias!Get(t, m) = t[i].value
      BY <2>3, <2>5, <2>6, <3>1, GetIsTheEntry
    <3>3. m = n <=> i = p
      BY <2>1, <2>3, <2>5, <3>1 DEF Alias!Unique
    <3> QED
      BY <2>4, <3>2, <3>3
  <2> QED
    BY <1>2, <2>3, <2>6, <2>7
<1>3. CASE n \notin Alias!Names(t)
  <2>1. s = Append(t, e) /\ Len(t) < max
    BY <1>3 DEF Stored
  <2>2. /\ s \in Seq([name : N, value : V]) /\ Len(s) = Len(t) + 1 /\ Len(t) \in Nat
        /\ DOMAIN s = 1 .. Len(t) + 1 /\ DOMAIN t = 1 .. Len(t)
    BY <1>1, <2>1
  <2>3. \A i \in DOMAIN t : s[i] = t[i] /\ s[i].name # n
    BY <1>3, <2>1, <2>2 DEF Alias!Names
  <2>4. s[Len(t) + 1] = e
    BY <2>1
  <2>5. Alias!Unique(s)
    BY <2>2, <2>3, <2>4 DEF Alias!Unique
  <2>6. Alias!Names(s) = Alias!Names(t) \cup {n}
    BY <2>2, <2>3, <2>4 DEF Alias!Names
  <2>7. ASSUME NEW m \in Alias!Names(s) PROVE Alias!Get(s, m) = IF m = n THEN v ELSE Alias!Get(t, m)
    <3>1. PICK i \in DOMAIN s : s[i].name = m
      BY DEF Alias!Names
    <3>2. Alias!Get(s, m) = s[i].value
      BY <2>2, <2>5, <3>1, GetIsTheEntry
    <3>3. CASE i = Len(t) + 1
      BY <2>4, <3>1, <3>2, <3>3
    <3>4. CASE i # Len(t) + 1
      <4>1. i \in DOMAIN t /\ m = t[i].name /\ m # n
        BY <2>2, <2>3, <3>1, <3>4
      <4>2. Alias!Get(t, m) = t[i].value
        BY <4>1, GetIsTheEntry
      <4> QED
        BY <2>3, <3>2, <4>1, <4>2
    <3> QED
      BY <3>3, <3>4
  <2>8. Len(s) <= max
    BY <2>1, <2>2
  <2> QED
    BY <2>2, <2>5, <2>6, <2>7, <2>8
<1> QED
  BY <1>2, <1>3

(* An unset moves the entries behind it, and takes n out of the function. *)
LEMMA WithoutIsARemoval ==
  ASSUME NEW N, NEW V, NEW max \in Nat, NEW t, Fine(t, N, V, max), NEW n \in Alias!Names(t),
         NEW s, s = Alias!Without(t, n)
  PROVE  /\ Fine(s, N, V, max)
         /\ Alias!Names(s) = Alias!Names(t) \ {n}
         /\ \A m \in Alias!Names(s) : Alias!Get(s, m) = Alias!Get(t, m)
<1> USE DEF Fine
<1> DEFINE p == Alias!Position(t, n)
           back(i) == IF i < p THEN i ELSE i + 1
<1>1. p \in 1 .. Len(t) /\ t[p].name = n /\ Len(t) \in Nat /\ DOMAIN t = 1 .. Len(t)
  BY PositionOfAName
<1>2. s = [i \in 1 .. Len(t) - 1 |-> IF i < p THEN t[i] ELSE t[i + 1]]
  BY DEF Alias!Without
<1> HIDE DEF p
<1>3. \A i \in 1 .. Len(t) - 1 : back(i) \in DOMAIN t /\ back(i) # p /\ s[i] = t[back(i)]
  BY <1>1, <1>2
<1>4. s \in Seq([name : N, value : V]) /\ Len(s) = Len(t) - 1 /\ DOMAIN s = 1 .. Len(t) - 1
  <2> DEFINE E == [name : N, value : V]
  <2>0. t \in Seq(E)
    OBVIOUS
  <2> HIDE DEF E, back
  <2>1. \A i \in 1 .. Len(t) - 1 : s[i] \in E
    BY <1>1, <1>3, <2>0
  <2>2. Len(t) - 1 \in Nat
    BY <1>1
  <2> QED
    BY <1>2, <2>1, <2>2, IsASeq DEF E
<1>5. \A i \in DOMAIN s, j \in DOMAIN s : back(i) = back(j) => i = j
  BY <1>1, <1>4
<1>6. Alias!Unique(s)
  <2> SUFFICES ASSUME NEW i \in DOMAIN s, NEW j \in DOMAIN s, s[i].name = s[j].name PROVE i = j
    BY DEF Alias!Unique
  <2>1. back(i) \in DOMAIN t /\ back(j) \in DOMAIN t /\ s[i] = t[back(i)] /\ s[j] = t[back(j)]
    BY <1>3, <1>4
  <2> HIDE DEF back
  <2>2. back(i) = back(j)
    BY <2>1 DEF Alias!Unique
  <2> QED
    BY <1>5, <2>2
<1>7. \A k \in DOMAIN t : k # p => \E i \in DOMAIN s : back(i) = k
  <2> SUFFICES ASSUME NEW k \in DOMAIN t, k # p PROVE \E i \in DOMAIN s : back(i) = k
    OBVIOUS
  <2>1. CASE k < p
    <3>1. k \in DOMAIN s /\ back(k) = k
      BY <1>1, <1>4, <2>1
    <3> QED
      BY <3>1
  <2>2. CASE k > p
    <3>1. k - 1 \in DOMAIN s /\ back(k - 1) = k
      BY <1>1, <1>4, <2>2
    <3> QED
      BY <3>1
  <2> QED
    BY <1>1, <2>1, <2>2
<1>8. Alias!Names(s) = Alias!Names(t) \ {n}
  <2>1. ASSUME NEW i \in DOMAIN s PROVE s[i].name \in Alias!Names(t) \ {n}
    <3>1. back(i) \in DOMAIN t /\ back(i) # p /\ s[i] = t[back(i)]
      BY <1>3, <1>4
    <3> HIDE DEF back
    <3>2. t[back(i)].name # n
      BY <1>1, <3>1 DEF Alias!Unique
    <3> QED
      BY <3>1, <3>2 DEF Alias!Names
  <2>2. ASSUME NEW m \in Alias!Names(t) \ {n} PROVE m \in Alias!Names(s)
    <3>1. PICK k \in DOMAIN t : t[k].name = m
      BY DEF Alias!Names
    <3>2. PICK i \in DOMAIN s : back(i) = k
      BY <1>1, <1>7, <3>1
    <3> QED
      BY <1>3, <1>4, <3>1, <3>2 DEF Alias!Names
  <2> QED
    BY <2>1, <2>2 DEF Alias!Names
<1>9. ASSUME NEW m \in Alias!Names(s) PROVE Alias!Get(s, m) = Alias!Get(t, m)
  <2>1. PICK i \in DOMAIN s : s[i].name = m
    BY DEF Alias!Names
  <2>2. Alias!Get(s, m) = s[i].value
    BY <1>4, <1>6, <2>1, GetIsTheEntry
  <2>3. back(i) \in DOMAIN t /\ s[i] = t[back(i)]
    BY <1>3, <1>4
  <2>4. Alias!Get(t, m) = t[back(i)].value
    BY <2>1, <2>3, GetIsTheEntry
  <2> QED
    BY <2>2, <2>3, <2>4
<1>10. Len(s) <= max
  BY <1>1, <1>4
<1> QED
  BY <1>4, <1>6, <1>8, <1>9, <1>10

-----------------------------------------------------------------------------
(* There are no more names than entries. *)
LEMMA NamesAreFew ==
  ASSUME NEW E, NEW t \in Seq(E)
  PROVE  IsFiniteSet(Alias!Names(t)) /\ Cardinality(Alias!Names(t)) <= Len(t)
<1> DEFINE f == [i \in 1 .. Len(t) |-> t[i].name]
<1>1. Len(t) \in Nat /\ DOMAIN t = 1 .. Len(t)
  OBVIOUS
<1>2. IsFiniteSet(1 .. Len(t)) /\ Cardinality(1 .. Len(t)) = Len(t)
  BY <1>1, FS_Interval
<1>3. f \in Surjection(1 .. Len(t), Alias!Names(t))
  BY <1>1 DEF Alias!Names, Surjection
<1> QED
  BY <1>1, <1>2, <1>3, FS_Surjection

-----------------------------------------------------------------------------
(* What a set and an unset do to the function a table stands for, if s is   *)
(* the table afterwards.                                                    *)
MapStored(s, t, n, v, max) ==
    \/ /\ n \in DOMAIN Alias!MapOf(t) \/ Cardinality(DOMAIN Alias!MapOf(t)) < max
       /\ Alias!MapOf(s) = [m \in DOMAIN Alias!MapOf(t) \cup {n} |->
                              IF m = n THEN v ELSE Alias!MapOf(t)[m]]
    \/ n \notin Alias!Names(t) /\ Len(t) = max /\ s = t

MapWithout(s, t, n) ==
    \/ /\ n \in DOMAIN Alias!MapOf(t)
       /\ Alias!MapOf(s) = [m \in DOMAIN Alias!MapOf(t) \ {n} |-> Alias!MapOf(t)[m]]
    \/ n \notin Alias!Names(t) /\ s = t

LEMMA StoredUpdatesTheMap ==
  ASSUME NEW N, NEW V, NEW max \in Nat, NEW t, Fine(t, N, V, max),
         NEW n \in N, NEW v \in V,
         NEW s, s = Stored(t, n, v, max)
  PROVE  Fine(s, N, V, max) /\ MapStored(s, t, n, v, max)
<1>0. Len(t) \in Nat /\ t \in Seq([name : N, value : V]) /\ Len(t) <= max
  BY DEF Fine
<1>1. CASE n \in Alias!Names(t) \/ Len(t) < max
  <2>0. Fine(s, N, V, max) /\ Updated(s, t, n, v)
    BY <1>1, StoredIsAnUpdate
  <2>1. /\ Fine(s, N, V, max)
        /\ Alias!Names(s) = Alias!Names(t) \cup {n}
        /\ \A m \in Alias!Names(s) : Alias!Get(s, m) = IF m = n THEN v ELSE Alias!Get(t, m)
    BY <2>0 DEF Updated
  <2>2. /\ DOMAIN Alias!MapOf(t) = Alias!Names(t)
        /\ \A m \in Alias!Names(t) : Alias!MapOf(t)[m] = Alias!Get(t, m)
    BY DEF Alias!MapOf
  <2>3. Alias!MapOf(s) = [m \in DOMAIN Alias!MapOf(t) \cup {n} |->
                             IF m = n THEN v ELSE Alias!MapOf(t)[m]]
    <3>1. \A m \in Alias!Names(t) \cup {n} : m # n => m \in Alias!Names(t)
      OBVIOUS
    <3> QED
      BY <2>1, <2>2, <3>1 DEF Alias!MapOf
  <2>4. n \in DOMAIN Alias!MapOf(t) \/ Cardinality(DOMAIN Alias!MapOf(t)) < max
    <3>1. IsFiniteSet(Alias!Names(t)) /\ Cardinality(Alias!Names(t)) <= Len(t)
      BY <1>0, NamesAreFew
    <3>2. Cardinality(Alias!Names(t)) \in Nat
      BY <3>1, FS_CardinalityType
    <3> QED
      BY <1>0, <1>1, <2>2, <3>1, <3>2
  <2> QED
    BY <2>1, <2>3, <2>4 DEF MapStored
<1>2. CASE ~(n \in Alias!Names(t) \/ Len(t) < max)
  BY <1>0, <1>2 DEF Stored, Fine, MapStored
<1> QED
  BY <1>1, <1>2

LEMMA WithoutUpdatesTheMap ==
  ASSUME NEW N, NEW V, NEW max \in Nat, NEW t, Fine(t, N, V, max), NEW n,
         NEW s, s = Alias!Without(t, n)
  PROVE  Fine(s, N, V, max) /\ MapWithout(s, t, n)
<1>1. CASE n \in Alias!Names(t)
  <2>1. /\ Fine(s, N, V, max)
        /\ Alias!Names(s) = Alias!Names(t) \ {n}
        /\ \A m \in Alias!Names(s) : Alias!Get(s, m) = Alias!Get(t, m)
    BY <1>1, WithoutIsARemoval
  <2>2. /\ DOMAIN Alias!MapOf(t) = Alias!Names(t)
        /\ \A m \in Alias!Names(t) : Alias!MapOf(t)[m] = Alias!Get(t, m)
    BY DEF Alias!MapOf
  <2>3. Alias!MapOf(s) = [m \in DOMAIN Alias!MapOf(t) \ {n} |-> Alias!MapOf(t)[m]]
    BY <2>1, <2>2 DEF Alias!MapOf
  <2> QED
    BY <1>1, <2>1, <2>2, <2>3 DEF MapWithout
<1>2. CASE n \notin Alias!Names(t)
  BY <1>2 DEF Alias!Without, MapWithout
<1> QED
  BY <1>1, <1>2

LEMMA EmptyTableIsNothing ==
  /\ Alias!MapOf(<<>>) = Alias!Map!Nothing /\ Env!MapOf(<<>>) = Env!Map!Nothing
  /\ \A N, V : \A max \in Nat : Fine(<<>>, N, V, max)
<1>1. Alias!Names(<<>>) = {}
  BY DEF Alias!Names
<1>2. Env!MapOf(<<>>) = Alias!MapOf(<<>>)
  BY SameArrays
<1>3. Alias!MapOf(<<>>) = Alias!Map!Nothing /\ Alias!MapOf(<<>>) = Env!Map!Nothing
  BY <1>1 DEF Alias!MapOf, Alias!Map!Nothing, Env!Map!Nothing
<1>4. \A N, V : \A max \in Nat : Fine(<<>>, N, V, max)
  BY DEF Fine, Alias!Unique
<1> QED
  BY <1>2, <1>3, <1>4


-----------------------------------------------------------------------------
(* What the process keeps.  The history's entries are not empty, no line   *)
(* is alone in one unless it has characters, and neighbours differ: that   *)
(* is what history_add compares, and what makes a reload exact.            *)
Blank == {<<>>, <<"">>}

Distinct(es) ==
    /\ \A i \in 1 .. Len(es) : es[i] \notin Blank
    /\ \A i \in 1 .. Len(es) - 1 : es[i] # es[i + 1]

Whole(h) ==
    /\ h \in [entries : Seq(Seq(Text)), position : Int, max : 0 .. MaxHistory]
    /\ Len(h.entries) <= h.max
    /\ h.position \in -1 .. Len(h.entries) - 1
    /\ Distinct(h.entries)

(* A history that was begun with room for an entry. *)
Open(h) == Whole(h) /\ h.max > 0

HistoryWhole ==
    /\ Whole(hist) /\ (histReady => Open(hist))
    /\ file \in Seq(Text) /\ histReady \in BOOLEAN /\ saving \in BOOLEAN

LibraryInv == HistoryWhole /\ Alias!TableOK /\ Env!TableOK

IsText(lines) == lines \in Seq(Text)

Reading == INSTANCE FoldFacts WITH Step <- LoadLine, Good <- Open
Writing == INSTANCE FoldFacts WITH Step <- WriteEntry, Good <- IsText

LEMMA LinesAreAFold == \A h : Lines(h) = Writing!Folded(<<>>, h.entries)
  BY DEF Lines, Writing!Folded, FoldLeft, Writing!FoldLeft,
         MapThenFoldSet, Writing!MapThenFoldSet, Max, Writing!Max

LEMMA LoadIsAFold == \A h, lines : Load(h, lines) = Reading!Folded(h, lines)
  BY DEF Load, Reading!Folded, FoldLeft, Reading!FoldLeft,
         MapThenFoldSet, Reading!MapThenFoldSet, Max, Reading!Max

LEMMA HistoryHasRoom == MaxHistory \in Nat \ {0}
  BY HistoryAssumption

LEMMA CommandsAreText ==
  ASSUME NEW cmd \in Command
  PROVE  cmd \in Seq(Text) /\ (cmd = <<>> \/ cmd \notin Blank)
<1>1. cmd \in Seq(Range(cmd)) /\ cmd # <<"">>
  BY HistoryAssumption
<1>2. Range(cmd) \subseteq Text
  BY DEF Text
<1> DEFINE R == Range(cmd)
<1> HIDE DEF R
<1>3. cmd \in Seq(R) /\ R \subseteq Text
  BY <1>1, <1>2 DEF R
<1>4. cmd \in Seq(Text)
  BY <1>3
<1> QED
  BY <1>1, <1>4 DEF Blank

LEMMA WholeIs ==
  ASSUME NEW es \in Seq(Seq(Text)), NEW p \in -1 .. Len(es) - 1, NEW max \in 0 .. MaxHistory,
         Len(es) <= max, Distinct(es)
  PROVE  Whole([entries |-> es, position |-> p, max |-> max])
<1> DEFINE h == [entries |-> es, position |-> p, max |-> max]
<1>1. p \in Int
  <2>1. Len(es) \in Nat
    BY LenProperties
  <2> QED
    BY <2>1
<1>2. h \in [entries : Seq(Seq(Text)), position : Int, max : 0 .. MaxHistory]
  BY <1>1
<1>3. h.entries = es /\ h.position = p /\ h.max = max
  OBVIOUS
<1> HIDE DEF h
<1>4. Whole(h)
  BY <1>2, <1>3 DEF Whole
<1> QED
  BY <1>4 DEF h

LEMMA WholeHas ==
  ASSUME NEW h, Whole(h)
  PROVE  /\ h = [entries |-> h.entries, position |-> h.position, max |-> h.max]
         /\ h.entries \in Seq(Seq(Text)) /\ Len(h.entries) \in Nat
         /\ DOMAIN h.entries = 1 .. Len(h.entries)
         /\ h.max \in 0 .. MaxHistory /\ Len(h.entries) <= h.max
         /\ h.position \in -1 .. Len(h.entries) - 1
         /\ Distinct(h.entries)
         /\ h.entries = <<>> <=> Len(h.entries) = 0
<1>1. /\ h = [entries |-> h.entries, position |-> h.position, max |-> h.max]
      /\ h.entries \in Seq(Seq(Text)) /\ h.max \in 0 .. MaxHistory
  BY DEF Whole
<1>2. Len(h.entries) <= h.max /\ h.position \in -1 .. Len(h.entries) - 1 /\ Distinct(h.entries)
  BY DEF Whole
<1>3. /\ Len(h.entries) \in Nat /\ DOMAIN h.entries = 1 .. Len(h.entries)
      /\ h.entries = <<>> <=> Len(h.entries) = 0
  BY <1>1, LenProperties, EmptySeq
<1> QED
  BY <1>1, <1>2, <1>3

LEMMA EmptyIsWhole ==
  ASSUME NEW max \in 0 .. MaxHistory
  PROVE  Whole(Empty(max)) /\ Empty(max).max = max /\ Empty(max).entries = <<>>
<1>1. /\ <<>> \in Seq(Seq(Text)) /\ Len(<<>>) = 0 /\ -1 \in -1 .. 0 - 1 /\ 0 <= max
  BY HistoryHasRoom
<1>2. Distinct(<<>>)
  BY <1>1 DEF Distinct
<1>3. Whole([entries |-> <<>>, position |-> -1, max |-> max])
  BY <1>1, <1>2, WholeIs
<1> QED
  BY <1>3 DEF Empty

(* What room for one more leaves of the entries, with the command behind. *)
Evicted(es, max) == IF Len(es) >= max THEN Tail(es) ELSE es

LEMMA EvictedIsASuffix ==
  ASSUME NEW E, NEW es \in Seq(E), NEW max \in Nat, max > 0, Len(es) <= max
  PROVE  /\ Evicted(es, max) \in Seq(E) /\ Len(Evicted(es, max)) < max
         /\ \E off \in {0, 1} :
               /\ Len(es) = Len(Evicted(es, max)) + off
               /\ \A i \in 1 .. Len(Evicted(es, max)) : Evicted(es, max)[i] = es[i + off]
<1>0. Len(es) \in Nat /\ (Len(es) > 0 => es # <<>>)
  BY LenProperties
<1>1. CASE Len(es) >= max
  <2>1. es # <<>>
    BY <1>0, <1>1
  <2>2. /\ Tail(es) \in Seq(E) /\ Len(Tail(es)) = Len(es) - 1
        /\ \A i \in 1 .. Len(Tail(es)) : Tail(es)[i] = es[i + 1]
    BY <2>1, HeadTailProperties
  <2> QED
    BY <1>0, <1>1, <2>2 DEF Evicted
<1>2. CASE ~(Len(es) >= max)
  <2>1. Evicted(es, max) = es
    BY <1>2 DEF Evicted
  <2>2. \A i \in 1 .. Len(es) : es[i] = es[i + 0]
    BY <1>0
  <2> QED
    BY <1>0, <1>2, <2>1, <2>2
<1> QED
  BY <1>1, <1>2

LEMMA EvictedStaysDistinct ==
  ASSUME NEW E, NEW es \in Seq(E), NEW max \in Nat, max > 0, Len(es) <= max, Distinct(es),
         NEW cmd \in E, cmd \notin Blank, es = <<>> \/ es[Len(es)] # cmd
  PROVE  /\ Append(Evicted(es, max), cmd) \in Seq(E)
         /\ Len(Append(Evicted(es, max), cmd)) \in 1 .. max
         /\ Distinct(Append(Evicted(es, max), cmd))
<1> DEFINE kept == Evicted(es, max)
           n == Len(kept)
           new == Append(kept, cmd)
<1>1. kept \in Seq(E) /\ n < max
  BY EvictedIsASuffix
<1>2. PICK off \in {0, 1} : Len(es) = n + off /\ \A i \in 1 .. n : kept[i] = es[i + off]
  BY EvictedIsASuffix
<1>3. n \in Nat /\ Len(es) \in Nat
  BY <1>1, LenProperties
<1> HIDE DEF kept
<1>4. /\ new \in Seq(E) /\ Len(new) = n + 1 /\ new[n + 1] = cmd
      /\ \A i \in 1 .. n : new[i] = kept[i]
  BY <1>1, AppendProperties
<1> HIDE DEF n, new
<1>5. /\ \A i \in 1 .. Len(es) : es[i] \notin Blank
      /\ \A i \in 1 .. Len(es) - 1 : es[i] # es[i + 1]
  BY DEF Distinct
<1>6. ASSUME NEW i \in 1 .. n + 1 PROVE new[i] \notin Blank
  <2>1. CASE i = n + 1
    BY <1>4, <2>1
  <2>2. CASE i # n + 1
    <3>1. i \in 1 .. n /\ i + off \in 1 .. Len(es)
      BY <1>2, <1>3, <2>2
    <3> QED
      BY <1>2, <1>4, <1>5, <3>1
  <2> QED
    BY <2>1, <2>2
<1>7. ASSUME NEW i \in 1 .. n PROVE new[i] # new[i + 1]
  <2>1. CASE i = n
    <3>1. i + off = Len(es) /\ Len(es) > 0 /\ es # <<>>
      BY <1>2, <1>3, <2>1
    <3> QED
      BY <1>2, <1>4, <2>1, <3>1
  <2>2. CASE i # n
    <3>1. i + 1 \in 1 .. n /\ i + off \in 1 .. Len(es) - 1 /\ (i + 1) + off = (i + off) + 1
      BY <1>2, <1>3, <2>2
    <3> QED
      BY <1>2, <1>4, <1>5, <3>1
  <2> QED
    BY <2>1, <2>2
<1>8. Distinct(new)
  <2>1. Len(new) = n + 1 /\ Len(new) - 1 = n
    BY <1>3, <1>4
  <2> QED
    BY <1>6, <1>7, <2>1 DEF Distinct
<1> QED
  BY <1>1, <1>3, <1>4, <1>8 DEF new, kept

(* history_add evicts before it appends, and drops a repetition. *)
LEMMA AddKeepsTheHistory ==
  ASSUME NEW h, Open(h), NEW cmd \in Seq(Text), cmd = <<>> \/ cmd \notin Blank
  PROVE  Open(Add(h, cmd)) /\ Add(h, cmd).max = h.max
<1> DEFINE es == h.entries
           E  == Seq(Text)
<1>0. /\ h = [entries |-> es, position |-> h.position, max |-> h.max]
      /\ es \in Seq(E) /\ Len(es) \in Nat /\ Len(es) <= h.max /\ Distinct(es)
      /\ h.max \in 0 .. MaxHistory /\ h.max > 0 /\ Whole(h)
      /\ h.max \in Nat
  BY WholeHas, HistoryHasRoom DEF Open
<1> HIDE DEF es
<1>1. CASE cmd = <<>>
  BY <1>1 DEF Add
<1>2. CASE cmd # <<>> /\ es # <<>> /\ Last(es) = cmd
  <2>1. Add(h, cmd) = [h EXCEPT !.position = -1]
    BY <1>2 DEF Add, es
  <2>2. Add(h, cmd) = [entries |-> es, position |-> -1, max |-> h.max]
    BY <1>0, <2>1
  <2>3. -1 \in -1 .. Len(es) - 1
    BY <1>0
  <2>4. Whole([entries |-> es, position |-> -1, max |-> h.max])
    BY <1>0, <2>3, WholeIs
  <2> QED
    BY <1>0, <2>2, <2>4 DEF Open
<1>3. CASE cmd # <<>> /\ ~(es # <<>> /\ Last(es) = cmd)
  <2> DEFINE new == Append(Evicted(es, h.max), cmd)
  <2>1. Add(h, cmd) = [h EXCEPT !.entries = new, !.position = -1]
    BY <1>3 DEF Add, Evicted, es
  <2>2. cmd \in E /\ cmd \notin Blank /\ (es = <<>> \/ es[Len(es)] # cmd)
    BY <1>3 DEF Last
  <2> HIDE DEF E
  <2>3. new \in Seq(E) /\ Len(new) \in 1 .. h.max /\ Distinct(new)
    BY <1>0, <2>2, EvictedStaysDistinct
  <2> HIDE DEF new
  <2>4. Add(h, cmd) = [entries |-> new, position |-> -1, max |-> h.max]
    BY <1>0, <2>1
  <2>5. -1 \in -1 .. Len(new) - 1 /\ Len(new) <= h.max
    BY <1>0, <2>3
  <2>6. Whole([entries |-> new, position |-> -1, max |-> h.max])
    BY <1>0, <2>3, <2>5, WholeIs DEF E
  <2> QED
    BY <1>0, <2>4, <2>6 DEF Open
<1> QED
  BY <1>1, <1>2, <1>3

LEMMA LoadKeepsTheHistory ==
  ASSUME NEW h, Open(h), NEW lines \in Seq(Text)
  PROVE  Open(Load(h, lines))
<1>1. ASSUME NEW g, NEW line \in Text, Open(g) PROVE Open(LoadLine(g, line))
  <2>1. <<line>> \in Seq(Text)
    OBVIOUS
  <2>2. line # "" => <<line>> \notin Blank
    BY DEF Blank
  <2> QED
    BY <1>1, <2>1, <2>2, AddKeepsTheHistory DEF LoadLine
<1>2. Open(Reading!Folded(h, lines))
  BY <1>1, Reading!FoldedKeeps
<1> QED
  BY <1>2, LoadIsAFold

LEMMA LinesAreText ==
  ASSUME NEW h, Whole(h)
  PROVE  Lines(h) \in Seq(Text)
<1>1. ASSUME NEW lines, NEW entry \in Seq(Text), IsText(lines)
      PROVE  IsText(WriteEntry(lines, entry))
  BY <1>1, ConcatProperties DEF WriteEntry, IsText
<1>2. IsText(<<>>) /\ h.entries \in Seq(Seq(Text))
  BY WholeHas DEF IsText
<1>3. IsText(Writing!Folded(<<>>, h.entries))
  BY <1>1, <1>2, Writing!FoldedKeeps
<1> QED
  BY <1>3, LinesAreAFold DEF IsText

LEMMA CutsAreText ==
  ASSUME NEW lines \in Seq(Text), NEW cut \in Cut(lines)
  PROVE  cut \in Seq(Text)
<1>0. Len(lines) \in Nat /\ Torn \in Text
  BY LenProperties DEF Text
<1>1. \A k \in 0 .. Len(lines) : SubSeq(lines, 1, k) \in Seq(Text)
  BY <1>0, SubSeqProperties
<1>2. \A k \in 0 .. Len(lines) - 1 : Append(SubSeq(lines, 1, k), Torn) \in Seq(Text)
  BY <1>0, <1>1, AppendProperties
<1> QED
  BY <1>1, <1>2 DEF Cut

(* The up and the down key move the position to an entry, or to none. *)
LEMMA KeysKeepTheHistory ==
  ASSUME NEW h, Whole(h)
  PROVE  /\ Whole(Prev(h)) /\ Prev(h).max = h.max
         /\ Whole(NextEntry(h)) /\ NextEntry(h).max = h.max
<1>0. /\ h = [entries |-> h.entries, position |-> h.position, max |-> h.max]
      /\ Len(h.entries) \in Nat /\ h.position \in -1 .. Len(h.entries) - 1
      /\ h.entries # <<>> => Len(h.entries) > 0
  BY WholeHas
<1> DEFINE At(p) == [entries |-> h.entries, position |-> p, max |-> h.max]
<1>1. \A p \in -1 .. Len(h.entries) - 1 : Whole(At(p)) /\ At(p).max = h.max
  BY WholeHas, WholeIs
<1>2. Prev(h) = h \/ \E p \in -1 .. Len(h.entries) - 1 : Prev(h) = At(p)
  <2>1. CASE h.entries = <<>>
    BY <2>1 DEF Prev
  <2>2. CASE h.entries # <<>>
    <3> DEFINE from == IF h.position < 0 THEN Len(h.entries) ELSE h.position
               p == IF from > 0 THEN from - 1 ELSE from
    <3>1. p \in -1 .. Len(h.entries) - 1
      BY <1>0, <2>2
    <3>2. Prev(h) = At(p)
      BY <1>0, <2>2 DEF Prev
    <3> HIDE DEF p
    <3> QED
      BY <3>1, <3>2
  <2> QED
    BY <2>1, <2>2
<1>3. NextEntry(h) = h \/ \E p \in -1 .. Len(h.entries) - 1 : NextEntry(h) = At(p)
  <2>1. CASE h.position < 0
    BY <2>1 DEF NextEntry
  <2>2. CASE ~(h.position < 0)
    <3> DEFINE p == IF h.position + 1 >= Len(h.entries) THEN -1 ELSE h.position + 1
    <3>1. p \in -1 .. Len(h.entries) - 1
      BY <1>0, <2>2
    <3>2. NextEntry(h) = At(p)
      BY <1>0, <2>2 DEF NextEntry
    <3> HIDE DEF p
    <3> QED
      BY <3>1, <3>2
  <2> QED
    BY <2>1, <2>2
<1> HIDE DEF At
<1> QED
  BY <1>1, <1>2, <1>3

-----------------------------------------------------------------------------
(* The steps.                                                              *)
LEMMA TableAssumptions ==
  /\ MaxAliases \in Nat /\ MaxVariables \in Nat
  /\ Fine(DefaultAliases, AliasName, Expansion, MaxAliases)
<1>1. Alias!TableAssumption /\ Env!TableAssumption
  BY LibraryAssumption
<1> QED
  BY <1>1 DEF Alias!TableAssumption, Alias!Entry, Env!TableAssumption, Fine

LEMMA TablesAreFine ==
  /\ Alias!TableOK <=> Fine(aliases, AliasName, Expansion, MaxAliases)
  /\ Env!TableOK <=> Fine(variables, Variable, Setting, MaxVariables)
  /\ Alias!TableOK' <=> Fine(aliases', AliasName, Expansion, MaxAliases)
  /\ Env!TableOK' <=> Fine(variables', Variable, Setting, MaxVariables)
BY SameArrays DEF Alias!TableOK, Alias!Entry, Env!TableOK, Env!Entry, Fine, Alias!Unique, Env!Unique

LEMMA EmptyIsFine ==
  /\ Fine(<<>>, AliasName, Expansion, MaxAliases)
  /\ Fine(<<>>, Variable, Setting, MaxVariables)
BY EmptyTableIsNothing, TableAssumptions

LEMMA InitKeeps == Init => LibraryInv
<1> SUFFICES ASSUME Init PROVE LibraryInv
  OBVIOUS
<1>1. Whole(hist) /\ histReady = FALSE /\ file = <<>> /\ saving = FALSE
  <2>1. 0 \in 0 .. MaxHistory
    BY HistoryHasRoom
  <2> QED
    BY <2>1, EmptyIsWhole DEF Init, HistInit
<1>2. aliases = <<>> /\ variables = <<>>
  BY DEF Init, Alias!Init, Env!Init
<1>3. Alias!TableOK /\ Env!TableOK
  BY <1>2, EmptyIsFine, TablesAreFine
<1>4. HistoryWhole
  <2>1. <<>> \in Seq(Text)
    OBVIOUS
  <2>2. FALSE \in BOOLEAN /\ (FALSE => Open(hist))
    OBVIOUS
  <2> QED
    BY <1>1, <2>1, <2>2, Zenon DEF HistoryWhole
<1> QED
  BY <1>3, <1>4 DEF LibraryInv

LEMMA HistoryStepKeeps ==
  ASSUME HistoryWhole, HistoryStep
  PROVE  HistoryWhole'
<1>0. /\ Whole(hist) /\ histReady \in BOOLEAN /\ saving \in BOOLEAN /\ file \in Seq(Text)
      /\ histReady => Open(hist)
  BY DEF HistoryWhole
<1>1. ASSUME NEW max \in 0 .. MaxHistory, HistoryInit(max) PROVE HistoryWhole'
  <2>1. max > 0 => Open(Load(Empty(max), file))
    BY <1>0, EmptyIsWhole, LoadKeepsTheHistory DEF Open
  <2> QED
    BY <1>0, <1>1, <2>1 DEF HistoryInit, HistoryWhole, Open
<1>2. ASSUME NEW new, HistoryCall(new), Open(hist) => Open(new) PROVE HistoryWhole'
  BY <1>0, <1>2 DEF HistoryCall, HistoryWhole, Open
<1>3. ASSUME NEW cmd \in Command, HistoryAdd(cmd) PROVE HistoryWhole'
  <2>1. Open(hist) => Open(Add(hist, cmd))
    BY CommandsAreText, AddKeepsTheHistory
  <2> QED
    BY <1>2, <1>3, <2>1 DEF HistoryAdd
<1>4. CASE HistoryPrev
  <2>1. Open(hist) => Open(Prev(hist))
    BY KeysKeepTheHistory DEF Open
  <2> QED
    BY <1>2, <1>4, <2>1 DEF HistoryPrev
<1>5. CASE HistoryNext
  <2>1. Open(hist) => Open(NextEntry(hist))
    BY KeysKeepTheHistory DEF Open
  <2> QED
    BY <1>2, <1>5, <2>1 DEF HistoryNext
<1>6. CASE HistoryClear
  <2>1. Open(hist) => Open(Empty(hist.max))
    BY WholeHas, EmptyIsWhole DEF Open
  <2> QED
    BY <1>2, <1>6, <2>1 DEF HistoryClear
<1>7. CASE SaveBegin
  BY <1>0, <1>7 DEF SaveBegin, HistoryWhole
<1>8. CASE SaveEnd
  BY <1>0, <1>8, LinesAreText DEF SaveEnd, HistoryWhole
<1> QED
  BY <1>1, <1>3, <1>4, <1>5, <1>6, <1>7, <1>8 DEF HistoryStep

LEMMA AliasStepKeeps ==
  ASSUME Alias!TableOK, AliasStep
  PROVE  Alias!TableOK'
<1>0. Fine(aliases, AliasName, Expansion, MaxAliases) /\ MaxAliases \in Nat
  BY TablesAreFine, TableAssumptions
<1>1. CASE Alias!AddDefaults
  BY <1>1, TableAssumptions, TablesAreFine DEF Alias!AddDefaults
<1>2. CASE Alias!Destroy
  BY <1>2, EmptyIsFine, TablesAreFine DEF Alias!Destroy
<1>3. ASSUME NEW n \in AliasName, Alias!Unset(n) PROVE Alias!TableOK'
  <2>1. aliases' = Alias!Without(aliases, n)
    BY <1>3 DEF Alias!Unset
  <2>2. Fine(aliases', AliasName, Expansion, MaxAliases)
    BY <1>0, <2>1, WithoutUpdatesTheMap
  <2> QED
    BY <2>2, TablesAreFine
<1>4. ASSUME NEW n \in AliasName, NEW e \in Expansion, Alias!Set(n, e) PROVE Alias!TableOK'
  <2>1. aliases' = Stored(aliases, n, e, MaxAliases)
    BY <1>4, SameArrays DEF Alias!Set
  <2>2. Fine(aliases', AliasName, Expansion, MaxAliases)
    BY <1>0, <2>1, StoredUpdatesTheMap
  <2> QED
    BY <2>2, TablesAreFine
<1> QED
  BY <1>1, <1>2, <1>3, <1>4 DEF AliasStep

LEMMA EnvStepKeeps ==
  ASSUME Env!TableOK, EnvStep
  PROVE  Env!TableOK'
<1>0. Fine(variables, Variable, Setting, MaxVariables) /\ MaxVariables \in Nat
  BY TablesAreFine, TableAssumptions
<1>1. CASE Env!Destroy
  BY <1>1, EmptyIsFine, TablesAreFine DEF Env!Destroy
<1>2. ASSUME NEW n \in Variable, Env!Unset(n) PROVE Env!TableOK'
  <2>1. variables' = Alias!Without(variables, n)
    BY <1>2, SameArrays DEF Env!Unset
  <2>2. Fine(variables', Variable, Setting, MaxVariables)
    BY <1>0, <2>1, WithoutUpdatesTheMap
  <2> QED
    BY <2>2, TablesAreFine
<1>3. ASSUME NEW n \in Variable, NEW v \in Setting, Env!Set(n, v) PROVE Env!TableOK'
  <2>1. variables' = Stored(variables, n, v, MaxVariables)
    BY <1>3, SameArrays DEF Env!Set
  <2>2. Fine(variables', Variable, Setting, MaxVariables)
    BY <1>0, <2>1, StoredUpdatesTheMap
  <2> QED
    BY <2>2, TablesAreFine
<1> QED
  BY <1>1, <1>2, <1>3 DEF EnvStep

(* What was on its way to the file when the process died is text too. *)
LEMMA DeathKeeps ==
  ASSUME LibraryInv, Die
  PROVE  LibraryInv'
<1>1. Whole(hist') /\ histReady' = FALSE /\ saving' = FALSE
  <2>1. 0 \in 0 .. MaxHistory
    BY HistoryHasRoom
  <2> QED
    BY <2>1, EmptyIsWhole DEF Die, Crash
<1>2. file' \in Seq(Text)
  <2>1. Lines(hist) \in Seq(Text) /\ file \in Seq(Text)
    BY LinesAreText DEF LibraryInv, HistoryWhole
  <2>2. file' \in Cut(Lines(hist)) \/ file' = file
    BY DEF Die, Crash
  <2> QED
    BY <2>1, <2>2, CutsAreText
<1>3. Alias!TableOK' /\ Env!TableOK'
  BY EmptyIsFine, TablesAreFine DEF Die
<1> QED
  BY <1>1, <1>2, <1>3 DEF LibraryInv, HistoryWhole

LEMMA NextKeeps == LibraryInv /\ [Next]_vars => LibraryInv'
<1> SUFFICES ASSUME LibraryInv, [Next]_vars PROVE LibraryInv'
  OBVIOUS
<1>0. HistoryWhole /\ Alias!TableOK /\ Env!TableOK
  BY DEF LibraryInv
<1>1. UNCHANGED histVars => HistoryWhole'
  BY <1>0 DEF histVars, HistoryWhole
<1>2. aliases' = aliases => Alias!TableOK'
  BY <1>0, TablesAreFine
<1>3. variables' = variables => Env!TableOK'
  BY <1>0, TablesAreFine
<1>4. CASE HistoryStep
  BY <1>0, <1>2, <1>3, <1>4, HistoryStepKeeps DEF HistoryStep, LibraryInv
<1>5. CASE AliasStep
  BY <1>0, <1>1, <1>3, <1>5, AliasStepKeeps DEF AliasStep, LibraryInv
<1>6. CASE EnvStep
  BY <1>0, <1>1, <1>2, <1>6, EnvStepKeeps DEF EnvStep, LibraryInv
<1>7. CASE Die
  BY <1>7, DeathKeeps
<1>8. CASE UNCHANGED vars
  BY <1>1, <1>2, <1>3, <1>8 DEF vars, histVars, LibraryInv
<1> QED
  BY <1>4, <1>5, <1>6, <1>7, <1>8 DEF Next

LEMMA InvariantHolds == Spec => []LibraryInv
  BY InitKeeps, NextKeeps, PTL DEF Spec

(* The types, for any limits: the table of entries is never overfull, the  *)
(* position is an entry or none, the file holds lines of commands and of   *)
(* at most a torn one, and no table has a name twice.                      *)
THEOREM LibraryTypesHold == Spec => []LibraryTypeOK
<1>1. LibraryInv => LibraryTypeOK
  BY DEF LibraryInv, HistoryWhole, Whole, LibraryTypeOK, HistTypeOK
<1> QED
  BY <1>1, InvariantHolds, PTL

-----------------------------------------------------------------------------
(* The tables are functions.                                               *)
LEMMA PrimesOfMaps ==
  /\ (Alias!MapOf(aliases))' = Alias!MapOf(aliases')
  /\ (Env!MapOf(variables))' = Alias!MapOf(variables')
  /\ Env!MapOf(variables) = Alias!MapOf(variables)
<1>1. (Alias!MapOf(aliases))' = Alias!MapOf(aliases')
  BY DEF Alias!MapOf, Alias!Names, Alias!Get, Alias!Position
<1>2. (Env!MapOf(variables))' = Env!MapOf(variables')
  BY DEF Env!MapOf, Env!Names, Env!Get, Env!Position
<1> QED
  BY <1>1, <1>2, SameArrays

LEMMA AliasCalls ==
  ASSUME Alias!TableOK
  PROVE  /\ \A n \in AliasName, e \in Expansion : Alias!Set(n, e) =>
               \/ Alias!Map!Set(n, e)
               \/ n \notin Alias!Names(aliases) /\ Len(aliases) = MaxAliases /\ UNCHANGED aliases
         /\ \A n \in AliasName : Alias!Unset(n) =>
               Alias!Map!Unset(n) \/ (n \notin Alias!Names(aliases) /\ UNCHANGED aliases)
<1>0. Fine(aliases, AliasName, Expansion, MaxAliases) /\ MaxAliases \in Nat
  BY TablesAreFine, TableAssumptions
<1>1. ASSUME NEW n \in AliasName, NEW e \in Expansion, Alias!Set(n, e)
      PROVE  \/ Alias!Map!Set(n, e)
             \/ n \notin Alias!Names(aliases) /\ Len(aliases) = MaxAliases /\ UNCHANGED aliases
  <2>1. aliases' = Stored(aliases, n, e, MaxAliases)
    BY <1>1, SameArrays DEF Alias!Set
  <2>2. MapStored(aliases', aliases, n, e, MaxAliases)
    BY <1>0, <2>1, StoredUpdatesTheMap
  <2>3. \A S : Alias!Map!Cardinality(S) = Cardinality(S)
    BY DEF Alias!Map!Cardinality, Cardinality
  <2> QED
    BY <2>2, <2>3, PrimesOfMaps DEF Alias!Map!Set, MapStored
<1>2. ASSUME NEW n \in AliasName, Alias!Unset(n)
      PROVE  Alias!Map!Unset(n) \/ (n \notin Alias!Names(aliases) /\ UNCHANGED aliases)
  <2>1. aliases' = Alias!Without(aliases, n)
    BY <1>2 DEF Alias!Unset
  <2>2. MapWithout(aliases', aliases, n)
    BY <1>0, <2>1, WithoutUpdatesTheMap
  <2> QED
    BY <2>2, PrimesOfMaps DEF Alias!Map!Unset, MapWithout
<1> QED
  BY <1>1, <1>2

LEMMA EnvCalls ==
  ASSUME Env!TableOK
  PROVE  /\ \A n \in Variable, v \in Setting : Env!Set(n, v) =>
               \/ Env!Map!Set(n, v)
               \/ n \notin Env!Names(variables) /\ Len(variables) = MaxVariables
                  /\ UNCHANGED variables
         /\ \A n \in Variable : Env!Unset(n) =>
               Env!Map!Unset(n) \/ (n \notin Env!Names(variables) /\ UNCHANGED variables)
<1>0. Fine(variables, Variable, Setting, MaxVariables) /\ MaxVariables \in Nat
  BY TablesAreFine, TableAssumptions
<1>1. ASSUME NEW n \in Variable, NEW v \in Setting, Env!Set(n, v)
      PROVE  \/ Env!Map!Set(n, v)
             \/ n \notin Env!Names(variables) /\ Len(variables) = MaxVariables
                /\ UNCHANGED variables
  <2>1. variables' = Stored(variables, n, v, MaxVariables)
    BY <1>1, SameArrays DEF Env!Set
  <2>2. MapStored(variables', variables, n, v, MaxVariables)
    BY <1>0, <2>1, StoredUpdatesTheMap
  <2>3. \A S : Env!Map!Cardinality(S) = Cardinality(S)
    BY DEF Env!Map!Cardinality, Cardinality
  <2> QED
    BY <2>2, <2>3, PrimesOfMaps, SameArrays DEF Env!Map!Set, MapStored
<1>2. ASSUME NEW n \in Variable, Env!Unset(n)
      PROVE  Env!Map!Unset(n) \/ (n \notin Env!Names(variables) /\ UNCHANGED variables)
  <2>1. variables' = Alias!Without(variables, n)
    BY <1>2, SameArrays DEF Env!Unset
  <2>2. MapWithout(variables', variables, n)
    BY <1>0, <2>1, WithoutUpdatesTheMap
  <2> QED
    BY <2>2, PrimesOfMaps, SameArrays DEF Env!Map!Unset, MapWithout
<1> QED
  BY <1>1, <1>2

(* In every run each alias_set, alias_unset, env_set and env_unset changes *)
(* what its table means at its own name only, whatever the memmove of the  *)
(* entries touches.                                                        *)
THEOREM EveryCallKept == Spec => TablesAreMaps
<1>1. LibraryInv => Alias!CallKept /\ Env!CallKept
  <2> SUFFICES ASSUME LibraryInv PROVE Alias!CallKept /\ Env!CallKept
    OBVIOUS
  <2>1. Alias!TableOK /\ Env!TableOK
    BY DEF LibraryInv
  <2>2. Alias!CallKept
    BY <2>1, AliasCalls DEF Alias!CallKept
  <2>3. Env!CallKept
    BY <2>1, EnvCalls DEF Env!CallKept
  <2> QED
    BY <2>2, <2>3
<1> QED
  BY <1>1, InvariantHolds, PTL DEF TablesAreMaps

LEMMA AliasStepsAreMapSteps ==
  LibraryInv /\ [Next]_vars => [Alias!Map!Next]_(Alias!MapOf(aliases))
<1> SUFFICES ASSUME LibraryInv, [Next]_vars
             PROVE  Alias!Map!Next \/ (Alias!MapOf(aliases))' = Alias!MapOf(aliases)
  OBVIOUS
<1>0. Alias!TableOK
  BY DEF LibraryInv
<1>1. CASE aliases' = aliases
  BY <1>1, PrimesOfMaps
<1>2. CASE aliases' = <<>>
  BY <1>2, PrimesOfMaps, EmptyTableIsNothing DEF Alias!Map!Next, Alias!Map!Reset
<1>3. CASE Alias!AddDefaults
  BY <1>3, PrimesOfMaps DEF Alias!AddDefaults, Alias!Map!Next, Alias!Map!Reset
<1>4. ASSUME NEW n \in AliasName, NEW e \in Expansion, Alias!Set(n, e)
      PROVE  Alias!Map!Next \/ aliases' = aliases
  BY <1>0, <1>4, AliasCalls DEF Alias!Map!Next
<1>5. ASSUME NEW n \in AliasName, Alias!Unset(n)
      PROVE  Alias!Map!Next \/ aliases' = aliases
  BY <1>0, <1>5, AliasCalls DEF Alias!Map!Next
<1>6. \/ aliases' = aliases \/ aliases' = <<>> \/ Alias!AddDefaults
      \/ \E n \in AliasName : Alias!Unset(n) \/ \E e \in Expansion : Alias!Set(n, e)
  BY DEF Next, vars, HistoryStep, AliasStep, EnvStep, Die, Alias!Destroy
<1> QED
  BY <1>1, <1>2, <1>3, <1>4, <1>5, <1>6

LEMMA EnvStepsAreMapSteps ==
  LibraryInv /\ [Next]_vars => [Env!Map!Next]_(Env!MapOf(variables))
<1> SUFFICES ASSUME LibraryInv, [Next]_vars
             PROVE  Env!Map!Next \/ (Env!MapOf(variables))' = Env!MapOf(variables)
  OBVIOUS
<1>0. Env!TableOK
  BY DEF LibraryInv
<1>1. CASE variables' = variables
  BY <1>1, PrimesOfMaps
<1>2. CASE variables' = <<>>
  BY <1>2, PrimesOfMaps, EmptyTableIsNothing, SameArrays DEF Env!Map!Next, Env!Map!Reset
<1>4. ASSUME NEW n \in Variable, NEW v \in Setting, Env!Set(n, v)
      PROVE  Env!Map!Next \/ variables' = variables
  BY <1>0, <1>4, EnvCalls DEF Env!Map!Next
<1>5. ASSUME NEW n \in Variable, Env!Unset(n)
      PROVE  Env!Map!Next \/ variables' = variables
  BY <1>0, <1>5, EnvCalls DEF Env!Map!Next
<1>6. \/ variables' = variables \/ variables' = <<>>
      \/ \E n \in Variable : Env!Unset(n) \/ \E v \in Setting : Env!Set(n, v)
  BY DEF Next, vars, HistoryStep, AliasStep, EnvStep, Die, Env!Destroy
<1> QED
  BY <1>1, <1>2, <1>4, <1>5, <1>6

(* The arrays of alias_engine.c and env_manager.c, side by side in the     *)
(* library, searched, filled and compacted, and emptied when the process   *)
(* dies, each implement a partial function of names.                       *)
THEOREM TablesImplementMaps == Spec => Alias!TableIsAMap /\ Env!TableIsAMap
<1>1. Init => Alias!Map!Init /\ Env!Map!Init
  BY EmptyTableIsNothing DEF Init, Alias!Init, Env!Init, Alias!Map!Init, Env!Map!Init
<1>2. Spec => Alias!TableIsAMap
  BY <1>1, AliasStepsAreMapSteps, InvariantHolds, PTL
     DEF Spec, Alias!TableIsAMap, Alias!Map!Spec
<1>3. Spec => Env!TableIsAMap
  BY <1>1, EnvStepsAreMapSteps, InvariantHolds, PTL
     DEF Spec, Env!TableIsAMap, Env!Map!Spec
<1> QED
  BY <1>2, <1>3

-----------------------------------------------------------------------------
(* The up and the down key.  Count(n) numbers the presses.                 *)
Count(n) == [i \in 1 .. n |-> i]
At(h, p) == [h EXCEPT !.position = p]

Climbing   == INSTANCE FoldFacts WITH Step <- Up, Good <- Whole
Descending == INSTANCE FoldFacts WITH Step <- Down, Good <- Whole

LEMMA PressesAreFolds ==
  \A h, n, m : Presses(h, n, m) = Descending!Folded(Climbing!Folded(h, Count(n)), Count(m))
BY DEF Presses, Count, Climbing!Folded, Descending!Folded, FoldLeft, Climbing!FoldLeft,
       Descending!FoldLeft, MapThenFoldSet, Climbing!MapThenFoldSet,
       Descending!MapThenFoldSet, Max, Climbing!Max, Descending!Max

LEMMA Counting ==
  /\ Count(0) = <<>>
  /\ \A n \in Nat : /\ Count(n) \in Seq(Nat) /\ n + 1 \in Nat
                    /\ Count(n + 1) = Append(Count(n), n + 1)
<1>1. Count(0) = <<>>
  BY DEF Count
<1>2. ASSUME NEW n \in Nat
      PROVE  /\ Count(n) \in Seq(Nat) /\ n + 1 \in Nat
             /\ Count(n + 1) = Append(Count(n), n + 1)
  BY DEF Count
<1> QED
  BY <1>1, <1>2

LEMMA OneMorePress ==
  ASSUME NEW h, NEW n \in Nat
  PROVE  /\ Climbing!Folded(h, Count(0)) = h /\ Descending!Folded(h, Count(0)) = h
         /\ Climbing!Folded(h, Count(n + 1)) = Prev(Climbing!Folded(h, Count(n)))
         /\ Descending!Folded(h, Count(n + 1)) = NextEntry(Descending!Folded(h, Count(n)))
<1>1. Climbing!Folded(h, Count(0)) = h /\ Descending!Folded(h, Count(0)) = h
  BY Counting, Climbing!FoldedEmpty, Descending!FoldedEmpty
<1>2. Count(n) \in Seq(Nat) /\ n + 1 \in Nat /\ Count(n + 1) = Append(Count(n), n + 1)
  BY Counting
<1>3. Climbing!Folded(h, Append(Count(n), n + 1)) = Up(Climbing!Folded(h, Count(n)), n + 1)
  BY <1>2, Climbing!FoldedAppend
<1>4. Descending!Folded(h, Append(Count(n), n + 1))
        = Down(Descending!Folded(h, Count(n)), n + 1)
  BY <1>2, Descending!FoldedAppend
<1> QED
  BY <1>1, <1>2, <1>3, <1>4 DEF Up, Down

(* A press at position p of a history that has entries. *)
LEMMA PressAt ==
  ASSUME NEW h, Whole(h), NEW p \in -1 .. Len(h.entries) - 1
  PROVE  /\ p = -1 /\ Len(h.entries) > 0 => Prev(At(h, p)) = At(h, Len(h.entries) - 1)
         /\ p > 0 => Prev(At(h, p)) = At(h, p - 1)
         /\ p = 0 => Prev(At(h, p)) = At(h, p)
         /\ p \in 0 .. Len(h.entries) - 2 => NextEntry(At(h, p)) = At(h, p + 1)
         /\ p = Len(h.entries) - 1 => NextEntry(At(h, p)) = At(h, -1)
<1> DEFINE es == h.entries
           n  == Len(es)
<1>1. /\ h = [entries |-> es, position |-> h.position, max |-> h.max]
      /\ n \in Nat /\ (es = <<>> <=> n = 0)
  BY WholeHas
<1> HIDE DEF es, n
<1>2. \A q : At(h, q) = [entries |-> es, position |-> q, max |-> h.max]
  BY <1>1 DEF At
<1>3. p \in Int /\ p \in -1 .. n - 1
  BY <1>1 DEF n, es
<1> DEFINE g == At(h, p)
<1>4. g.entries = es /\ g.position = p /\ g = [entries |-> es, position |-> p, max |-> h.max]
  BY <1>2
<1> HIDE DEF g
<1>5. p = -1 /\ n > 0 => Prev(g) = At(h, n - 1)
  BY <1>1, <1>2, <1>3, <1>4 DEF Prev, n
<1>6. p > 0 => Prev(g) = At(h, p - 1)
  BY <1>1, <1>2, <1>3, <1>4 DEF Prev, n
<1>7. p = 0 => Prev(g) = At(h, p)
  BY <1>1, <1>2, <1>3, <1>4 DEF Prev, n
<1>8. p \in 0 .. n - 2 => NextEntry(g) = At(h, p + 1)
  BY <1>1, <1>2, <1>3, <1>4 DEF NextEntry, n
<1>9. p = n - 1 => NextEntry(g) = At(h, -1)
  <2>1. CASE n = 0
    BY <1>1, <1>2, <1>3, <1>4, <2>1 DEF NextEntry
  <2>2. CASE n > 0
    BY <1>1, <1>2, <1>3, <1>4, <2>2 DEF NextEntry, n
  <2> QED
    BY <1>1, <2>1, <2>2
<1> QED
  BY <1>5, <1>6, <1>7, <1>8, <1>9 DEF g, n, es

LEMMA AtIs ==
  ASSUME NEW h, Whole(h), NEW p
  PROVE  /\ At(h, p).position = p /\ At(h, p).entries = h.entries
         /\ h.position = -1 => At(h, -1) = h
<1>1. h = [entries |-> h.entries, position |-> h.position, max |-> h.max]
  BY WholeHas
<1> QED
  BY <1>1 DEF At

(* k presses of the up key lead to the entry that is k from the end. *)
LEMMA Climb ==
  ASSUME NEW h, Whole(h), h.position = -1
  PROVE  \A k \in 1 .. Len(h.entries) : Climbing!Folded(h, Count(k)) = At(h, Len(h.entries) - k)
<1> DEFINE n == Len(h.entries)
           T == {k \in Nat : k + 1 <= n => Climbing!Folded(h, Count(k + 1)) = At(h, n - (k + 1))}
<1>0. n \in Nat /\ -1 \in -1 .. n - 1
  BY WholeHas
<1>1. 0 \in T
  <2>1. At(h, -1) = h
    BY AtIs
  <2>2. Climbing!Folded(h, Count(0 + 1)) = Prev(h)
    BY OneMorePress
  <2>3. n > 0 => Prev(h) = At(h, n - 1)
    BY <1>0, <2>1, PressAt
  <2> QED
    BY <1>0, <2>2, <2>3
<1>2. ASSUME NEW k \in Nat, k \in T PROVE k + 1 \in T
  <2> SUFFICES ASSUME (k + 1) + 1 <= n
               PROVE  Climbing!Folded(h, Count((k + 1) + 1)) = At(h, n - ((k + 1) + 1))
    OBVIOUS
  <2>1. Climbing!Folded(h, Count(k + 1)) = At(h, n - (k + 1))
    BY <1>0, <1>2
  <2>2. k + 1 \in Nat
    OBVIOUS
  <2>3. Climbing!Folded(h, Count((k + 1) + 1)) = Prev(At(h, n - (k + 1)))
    BY <2>1, <2>2, OneMorePress
  <2>4. n - (k + 1) \in -1 .. n - 1 /\ n - (k + 1) > 0 /\ (n - (k + 1)) - 1 = n - ((k + 1) + 1)
    BY <1>0
  <2>5. Prev(At(h, n - (k + 1))) = At(h, (n - (k + 1)) - 1)
    BY <2>4, PressAt
  <2> QED
    BY <2>3, <2>4, <2>5
<1> HIDE DEF T
<1>3. \A k \in Nat : k \in T
  BY <1>1, <1>2, Climbing!SetInduction
<1> SUFFICES ASSUME NEW k \in 1 .. n PROVE Climbing!Folded(h, Count(k)) = At(h, n - k)
  OBVIOUS
<1>4. k - 1 \in Nat /\ (k - 1) + 1 = k /\ k <= n
  BY <1>0
<1>5. k - 1 \in T
  BY <1>3, <1>4
<1> QED
  BY <1>4, <1>5 DEF T

(* From there the down key leads back, and ends the navigation. *)
LEMMA Descend ==
  ASSUME NEW h, Whole(h), h.position = -1, NEW k \in 1 .. Len(h.entries)
  PROVE  \A j \in 0 .. k : Descending!Folded(At(h, Len(h.entries) - k), Count(j))
                             = IF j = k THEN h ELSE At(h, Len(h.entries) - k + j)
<1> DEFINE n == Len(h.entries)
           g == At(h, n - k)
           T == {j \in Nat : j <= k => Descending!Folded(g, Count(j))
                                         = IF j = k THEN h ELSE At(h, n - k + j)}
<1>0. n \in Nat /\ k \in Nat /\ k > 0 /\ k <= n
  BY WholeHas
<1>1. 0 \in T
  <2>1. n - k + 0 = n - k /\ 0 # k
    BY <1>0
  <2>2. Descending!Folded(g, Count(0)) = g
    BY OneMorePress
  <2> QED
    BY <2>1, <2>2
<1> HIDE DEF T, n
<1>2. ASSUME NEW j \in Nat, j \in T PROVE j + 1 \in T
  <2>0. j + 1 \in Nat
    OBVIOUS
  <2> SUFFICES ASSUME j + 1 <= k
               PROVE  Descending!Folded(g, Count(j + 1))
                        = IF j + 1 = k THEN h ELSE At(h, n - k + (j + 1))
    BY <2>0 DEF T
  <2>1. j <= k /\ j # k
    BY <1>0
  <2>2. Descending!Folded(g, Count(j)) = At(h, n - k + j)
    BY <1>2, <2>1 DEF T
  <2>3. Descending!Folded(g, Count(j + 1)) = NextEntry(At(h, n - k + j))
    BY <2>2, OneMorePress
  <2>4. n - k + j \in -1 .. n - 1 /\ (n - k + j) + 1 = n - k + (j + 1)
    BY <1>0
  <2>5. CASE j + 1 = k
    <3>1. n - k + j = n - 1
      BY <1>0, <2>5
    <3>2. NextEntry(At(h, n - k + j)) = At(h, -1)
      BY <2>4, <3>1, PressAt DEF n
    <3> QED
      BY <2>3, <2>5, <3>2, AtIs
  <2>6. CASE j + 1 # k
    <3>1. n - k + j \in 0 .. n - 2
      BY <1>0, <2>6
    <3>2. NextEntry(At(h, n - k + j)) = At(h, (n - k + j) + 1)
      BY <2>4, <3>1, PressAt DEF n
    <3> QED
      BY <2>3, <2>4, <2>6, <3>2
  <2> QED
    BY <2>5, <2>6
<1>3. \A j \in Nat : j \in T
  BY <1>1, <1>2, Descending!SetInduction
<1>4. \A j \in 0 .. k : j \in Nat /\ j <= k
  BY <1>0
<1> QED
  BY <1>3, <1>4 DEF T, n

(* Through a history of any length the up key visits every entry once,     *)
(* newest first, the down key takes the way back, and both know their end. *)
LEMMA NavigationInAnyHistory ==
  ASSUME NEW h, Whole(h), h.position = -1, NEW n, n = Len(h.entries)
  PROVE  /\ \A k \in 1 .. n : /\ Shown(Presses(h, k, 0)) = h.entries[n - k + 1]
                              /\ \A j \in 1 .. k - 1 :
                                   Shown(Presses(h, k, j)) = h.entries[n - k + 1 + j]
                              /\ Presses(h, k, k) = h
         /\ n > 0 => Presses(h, n + 1, 0) = Presses(h, n, 0)
<1>0. n \in Nat
  BY WholeHas
<1>1. \A k \in 1 .. n : Climbing!Folded(h, Count(k)) = At(h, n - k)
  BY Climb
<1>2. \A k \in 1 .. n : \A j \in 0 .. k :
        Presses(h, k, j) = IF j = k THEN h ELSE At(h, n - k + j)
  <2> SUFFICES ASSUME NEW k \in 1 .. n, NEW j \in 0 .. k
               PROVE  Presses(h, k, j) = IF j = k THEN h ELSE At(h, n - k + j)
    OBVIOUS
  <2>1. Presses(h, k, j) = Descending!Folded(At(h, n - k), Count(j))
    BY <1>1, PressesAreFolds
  <2> QED
    BY <2>1, Descend
<1>3. \A p \in 0 .. n - 1 : Shown(At(h, p)) = h.entries[p + 1]
  BY AtIs DEF Shown
<1>4. ASSUME NEW k \in 1 .. n
      PROVE  /\ Shown(Presses(h, k, 0)) = h.entries[n - k + 1]
             /\ \A j \in 1 .. k - 1 : Shown(Presses(h, k, j)) = h.entries[n - k + 1 + j]
             /\ Presses(h, k, k) = h
  <2>1. ASSUME NEW j \in 0 .. k - 1 PROVE Shown(Presses(h, k, j)) = h.entries[n - k + 1 + j]
    <3>1. j \in 0 .. k /\ j # k /\ n - k + j \in 0 .. n - 1 /\ (n - k + j) + 1 = n - k + 1 + j
      BY <1>0
    <3>2. Presses(h, k, j) = At(h, n - k + j)
      BY <1>2, <3>1
    <3> QED
      BY <1>3, <3>1, <3>2
  <2>2. 0 \in 0 .. k - 1 /\ k \in 0 .. k /\ n - k + 1 + 0 = n - k + 1
    BY <1>0
  <2>3. \A j \in 1 .. k - 1 : j \in 0 .. k - 1
    BY <1>0
  <2>4. Shown(Presses(h, k, 0)) = h.entries[n - k + 1 + 0]
    BY <2>1, <2>2
  <2>5. Presses(h, k, k) = h
    BY <1>2, <2>2
  <2> QED
    BY <2>1, <2>2, <2>3, <2>4, <2>5
<1>5. n > 0 => Presses(h, n + 1, 0) = Presses(h, n, 0)
  <2> SUFFICES ASSUME n > 0 PROVE Presses(h, n + 1, 0) = Presses(h, n, 0)
    OBVIOUS
  <2>1. n \in 1 .. n /\ n - n = 0 /\ 0 \in -1 .. Len(h.entries) - 1
    BY <1>0
  <2>2. Climbing!Folded(h, Count(n)) = At(h, 0)
    BY <1>1, <2>1
  <2>3. Climbing!Folded(h, Count(n + 1)) = Prev(At(h, 0))
    BY <1>0, <2>2, OneMorePress
  <2>4. Prev(At(h, 0)) = At(h, 0)
    BY <2>1, PressAt
  <2> QED
    BY <2>2, <2>3, <2>4, PressesAreFolds
<1> QED
  BY <1>4, <1>5

(* The same of the history as any calls have left it. *)
THEOREM NavigationHolds == Spec => []HistoryNavigation
<1>1. LibraryInv => HistoryNavigation
  <2> SUFFICES ASSUME LibraryInv PROVE HistoryNavigation
    OBVIOUS
  <2> DEFINE h == [hist EXCEPT !.position = -1]
  <2>1. Whole(hist)
    BY DEF LibraryInv, HistoryWhole
  <2>2. /\ hist = [entries |-> hist.entries, position |-> hist.position, max |-> hist.max]
        /\ hist.entries \in Seq(Seq(Text)) /\ Len(hist.entries) \in Nat
        /\ hist.max \in 0 .. MaxHistory /\ Len(hist.entries) <= hist.max
        /\ Distinct(hist.entries)
    BY <2>1, WholeHas
  <2>3. h = [entries |-> hist.entries, position |-> -1, max |-> hist.max]
    BY <2>2
  <2>4. -1 \in -1 .. Len(hist.entries) - 1
    BY <2>2
  <2>5. Whole(h) /\ h.position = -1
    BY <2>2, <2>3, <2>4, WholeIs
  <2> HIDE DEF h
  <2> DEFINE n == Len(h.entries)
  <2>6. /\ \A k \in 1 .. n : /\ Shown(Presses(h, k, 0)) = h.entries[n - k + 1]
                              /\ \A j \in 1 .. k - 1 :
                                   Shown(Presses(h, k, j)) = h.entries[n - k + 1 + j]
                              /\ Presses(h, k, k) = h
        /\ n > 0 => Presses(h, n + 1, 0) = Presses(h, n, 0)
    BY <2>5, NavigationInAnyHistory
  <2> QED
    BY <2>6 DEF HistoryNavigation, h
<1> QED
  BY <1>1, InvariantHolds, PTL

-----------------------------------------------------------------------------
(* A save and a reload.                                                    *)
OneLine(es) == \A i \in 1 .. Len(es) : Len(es[i]) = 1

LEMMA ALineIsItsText ==
  ASSUME NEW e \in Seq(Text), Len(e) = 1
  PROVE  e = <<e[1]>> /\ e[1] \in Text
OBVIOUS

LEMMA BlankIs == <<"">> \in Blank /\ <<>> \in Blank
  BY DEF Blank

LEMMA Shorter ==
  ASSUME NEW E, NEW es \in Seq(E), NEW e \in E,
         OneLine(Append(es, e)), Distinct(Append(es, e))
  PROVE  /\ OneLine(es) /\ Distinct(es) /\ Len(e) = 1 /\ e \notin Blank
         /\ es = <<>> \/ es[Len(es)] # e
<1> DEFINE new == Append(es, e)
           n == Len(es)
<1>1. /\ new \in Seq(E) /\ Len(new) = n + 1 /\ new[n + 1] = e
      /\ \A i \in 1 .. n : new[i] = es[i]
  BY AppendProperties
<1>2. n \in Nat /\ (es = <<>> <=> n = 0)
  BY LenProperties, EmptySeq
<1> HIDE DEF new, n
<1>3. /\ \A i \in 1 .. n + 1 : new[i] \notin Blank /\ Len(new[i]) = 1
      /\ \A i \in 1 .. n : new[i] # new[i + 1]
  <2>1. /\ \A i \in 1 .. Len(new) : new[i] \notin Blank /\ Len(new[i]) = 1
        /\ \A i \in 1 .. Len(new) - 1 : new[i] # new[i + 1]
    BY DEF OneLine, Distinct, new
  <2>2. Len(new) - 1 = n
    BY <1>1, <1>2
  <2> QED
    BY <1>1, <2>1, <2>2
<1>4. OneLine(es) /\ Distinct(es)
  <2>1. \A i \in 1 .. n : i \in 1 .. n + 1
    BY <1>2
  <2>2. \A i \in 1 .. n - 1 : i \in 1 .. n /\ i + 1 \in 1 .. n
    BY <1>2
  <2> QED
    BY <1>1, <1>3, <2>1, <2>2 DEF OneLine, Distinct, n
<1>5. Len(e) = 1 /\ e \notin Blank
  <2>1. n + 1 \in 1 .. n + 1
    BY <1>2
  <2> QED
    BY <1>1, <1>3, <2>1
<1>6. es = <<>> \/ es[n] # e
  <2>1. es # <<>> => n \in 1 .. n
    BY <1>2
  <2> QED
    BY <1>1, <1>3, <2>1
<1> QED
  BY <1>4, <1>5, <1>6 DEF n

(* A history that fits is built again by its own lines, one by one. *)
LEMMA ReloadIsExact ==
  ASSUME NEW max \in 1 .. MaxHistory, NEW es \in Seq(Seq(Text)),
         OneLine(es), Distinct(es), Len(es) <= max
  PROVE  Reading!Folded(Empty(max), Writing!Folded(<<>>, es))
           = [entries |-> es, position |-> -1, max |-> max]
<1> DEFINE W(s) == Writing!Folded(<<>>, s)
           R(s) == Reading!Folded(Empty(max), W(s))
           H(s) == [entries |-> s, position |-> -1, max |-> max]
           Fits1(s) == OneLine(s) /\ Distinct(s) /\ Len(s) <= max
           T == {s \in Seq(Seq(Text)) : Fits1(s) => W(s) \in Seq(Text) /\ R(s) = H(s)}
<1>0. max \in Nat
  BY HistoryHasRoom
<1>1. <<>> \in T
  <2>1. W(<<>>) = <<>>
    BY Writing!FoldedEmpty
  <2>2. R(<<>>) = Empty(max)
    BY <2>1, Reading!FoldedEmpty
  <2>3. <<>> \in Seq(Text) /\ <<>> \in Seq(Seq(Text))
    OBVIOUS
  <2>4. Empty(max) = H(<<>>)
    BY DEF Empty
  <2> QED
    BY <2>1, <2>2, <2>3, <2>4
<1> HIDE DEF T
<1>2. ASSUME NEW s \in Seq(Seq(Text)), NEW e \in Seq(Text), s \in T
      PROVE  Append(s, e) \in T
  <2> DEFINE new == Append(s, e)
  <2>0. new \in Seq(Seq(Text)) /\ Len(new) = Len(s) + 1 /\ Len(s) \in Nat
    BY AppendProperties, LenProperties
  <2> SUFFICES ASSUME Fits1(new) PROVE W(new) \in Seq(Text) /\ R(new) = H(new)
    BY <2>0 DEF T
  <2>1. /\ OneLine(s) /\ Distinct(s) /\ Len(e) = 1 /\ e \notin Blank
        /\ s = <<>> \/ s[Len(s)] # e
    BY Shorter
  <2>2. Len(s) < max
    BY <1>0, <2>0
  <2>3. W(s) \in Seq(Text) /\ R(s) = H(s)
    BY <1>0, <1>2, <2>0, <2>1, <2>2 DEF T
  <2>4. e = <<e[1]>> /\ e[1] \in Text
    BY <2>1, ALineIsItsText
  <2>5. W(new) = W(s) \o e
    BY Writing!FoldedAppend DEF WriteEntry
  <2>6. W(new) = Append(W(s), e[1]) /\ W(new) \in Seq(Text)
    <3>1. Append(W(s), e[1]) = W(s) \o <<e[1]>> /\ Append(W(s), e[1]) \in Seq(Text)
      BY <2>3, <2>4, AppendIsConcat, AppendProperties
    <3> QED
      BY <2>4, <2>5, <3>1
  <2>7. R(new) = LoadLine(H(s), e[1])
    <3> HIDE DEF W, H
    <3>1. Reading!Folded(Empty(max), Append(W(s), e[1])) = LoadLine(R(s), e[1])
      BY <2>3, <2>4, Reading!FoldedAppend
    <3> QED
      BY <2>3, <2>6, <3>1
  <2>8. LoadLine(H(s), e[1]) = Add(H(s), e)
    <3>1. e[1] # ""
      BY <2>1, <2>4, BlankIs
    <3> QED
      BY <2>4, <3>1 DEF LoadLine
  <2>9. Add(H(s), e) = H(new)
    <3>1. e # <<>>
      BY <2>1, BlankIs
    <3>2. H(s).entries = s /\ H(s).max = max
      OBVIOUS
    <3>3. ~(s # <<>> /\ Last(s) = e)
      BY <2>1 DEF Last
    <3>4. ~(Len(s) >= max)
      BY <1>0, <2>0, <2>2
    <3>5. Add(H(s), e) = [H(s) EXCEPT !.entries = Append(s, e), !.position = -1]
      BY <3>1, <3>2, <3>3, <3>4 DEF Add
    <3> QED
      BY <3>5
  <2> HIDE DEF W, R, H, new
  <2> QED
    BY <2>6, <2>7, <2>8, <2>9
<1>3. \A s \in Seq(Seq(Text)) : s \in T
  <2> DEFINE E == Seq(Text)
  <2>1. \A s \in Seq(E) : \A e \in E : s \in T => Append(s, e) \in T
    BY <1>2
  <2> HIDE DEF E
  <2>2. \A s \in Seq(E) : s \in T
    BY <1>1, <2>1, Reading!SequenceInduction
  <2> QED
    BY <2>2 DEF E
<1> QED
  BY <1>3 DEF T

(* history_save and history_load are inverse on one-line commands, however *)
(* many there are and whatever was evicted before; and a reload never      *)
(* brings equal entries next to each other, however the lines were cut.    *)
THEOREM ReloadHolds == Spec => []SavedHistoryReloads
<1>1. LibraryInv => SavedHistoryReloads
  <2> SUFFICES ASSUME LibraryInv, hist.max > 0 PROVE SavedHistoryReloads
    BY DEF SavedHistoryReloads
  <2> DEFINE again == Load(Empty(hist.max), Lines(hist)).entries
             es == hist.entries
  <2>1. Whole(hist)
    BY DEF LibraryInv, HistoryWhole
  <2>2. /\ es \in Seq(Seq(Text)) /\ Len(es) \in Nat /\ DOMAIN es = 1 .. Len(es)
        /\ Len(es) <= hist.max /\ Distinct(es)
        /\ hist.max \in 0 .. MaxHistory
    BY <2>1, WholeHas
  <2>3. hist.max \in 1 .. MaxHistory
    BY <2>2, HistoryHasRoom
  <2>4. (\A i \in DOMAIN es : Len(es[i]) = 1) => again = es
    <3> SUFFICES ASSUME \A i \in DOMAIN es : Len(es[i]) = 1 PROVE again = es
      OBVIOUS
    <3>1. OneLine(es)
      BY <2>2 DEF OneLine
    <3> HIDE DEF es
    <3>2. Reading!Folded(Empty(hist.max), Writing!Folded(<<>>, es))
            = [entries |-> es, position |-> -1, max |-> hist.max]
      BY <2>2, <2>3, <3>1, ReloadIsExact
    <3>3. Load(Empty(hist.max), Lines(hist))
            = Reading!Folded(Empty(hist.max), Writing!Folded(<<>>, es))
      BY LoadIsAFold, LinesAreAFold DEF es
    <3> QED
      BY <3>2, <3>3
  <2>5. \A i \in 1 .. Len(again) - 1 : again[i] # again[i + 1]
    <3>1. Open(Empty(hist.max))
      BY <2>2, EmptyIsWhole DEF Open
    <3>2. Open(Load(Empty(hist.max), Lines(hist)))
      BY <2>1, <3>1, LinesAreText, LoadKeepsTheHistory
    <3>3. Distinct(again)
      BY <3>2, WholeHas DEF Open
    <3> HIDE DEF again
    <3> QED
      BY <3>3 DEF Distinct
  <2> QED
    BY <2>4, <2>5 DEF SavedHistoryReloads
<1> QED
  BY <1>1, InvariantHolds, PTL

-----------------------------------------------------------------------------
(* Paths.  What strtok skips, and the step back.                           *)
Nowhere == {"", "."}
Dots    == Nowhere \cup {".."}

Walking == INSTANCE FoldFacts WITH Step <- CollapseNext, Good <- Whole

LEMMA PartsAreAFold == \A path : Parts(path) = Walking!Folded(<<>>, path)
  BY DEF Parts, Walking!Folded, FoldLeft, Walking!FoldLeft,
         MapThenFoldSet, Walking!MapThenFoldSet, Max, Walking!Max

LEMMA RoomForParts == MaxParts \in Nat \ {0}
  BY PathAssumption

LEMMA EmptyPath == Parts(<<>>) = <<>>
  BY PartsAreAFold, Walking!FoldedEmpty

LEMMA OneMoreName ==
  ASSUME NEW S, NEW path \in Seq(S), NEW s \in S
  PROVE  Parts(Append(path, s)) = CollapseNext(Parts(path), s)
BY PartsAreAFold, Walking!FoldedAppend

LEMMA FrontIs ==
  ASSUME NEW S, NEW s \in Seq(S), s # <<>>
  PROVE  Front(s) \in Seq(S) /\ Len(Front(s)) = Len(s) - 1 /\ s = Append(Front(s), Last(s))
         /\ Last(s) \in S
<1>1. Len(s) \in Nat /\ Len(s) # 0
  BY LenProperties, EmptySeq
<1>2. Front(s) = SubSeq(s, 1, Len(s) - 1) /\ Last(s) = s[Len(s)]
  BY DEF Front, Last
<1>3. Front(s) \in Seq(S) /\ Len(Front(s)) = Len(s) - 1
  <2>1. 1 \in Int /\ Len(s) - 1 \in Int /\ \A i \in 1 .. Len(s) - 1 : s[i] \in S
    BY <1>1
  <2>2. /\ SubSeq(s, 1, Len(s) - 1) \in Seq(S)
        /\ Len(SubSeq(s, 1, Len(s) - 1)) = IF 1 <= Len(s) - 1 THEN Len(s) - 1 - 1 + 1 ELSE 0
    BY <2>1, SubSeqProperties
  <2>3. CASE Len(s) = 1
    BY <1>2, <2>2, <2>3
  <2>4. CASE Len(s) > 1
    BY <1>1, <1>2, <2>2, <2>4
  <2>5. Len(s) = 1 \/ Len(s) > 1
    <3>1. \A n \in Nat : n # 0 => n = 1 \/ n > 1
      OBVIOUS
    <3> QED
      BY <1>1, <3>1, Zenon
  <2> QED
    BY <2>3, <2>4, <2>5
<1>4. Last(s) \in S
  BY <1>1, <1>2
<1>5. s = Append(Front(s), Last(s))
  BY <1>1, <1>2
<1> QED
  BY <1>3, <1>4, <1>5

LEMMA FrontOfAppend ==
  ASSUME NEW S, NEW s \in Seq(S), NEW e \in S
  PROVE  Front(Append(s, e)) = s /\ Last(Append(s, e)) = e
BY DEF Front, Last

(* A turn keeps the names without dots, and there are no more than turns. *)
LEMMA CollapseKeepsNames ==
  ASSUME NEW S, NEW parts \in Seq(S \ Dots), Len(parts) <= MaxParts, NEW s \in S
  PROVE  /\ CollapseNext(parts, s) \in Seq(S \ Dots)
         /\ Len(CollapseNext(parts, s)) <= MaxParts
         /\ Len(CollapseNext(parts, s)) <= Len(parts) + 1
<1>0. Len(parts) \in Nat /\ MaxParts \in Nat
  BY LenProperties, RoomForParts
<1>1. CASE Len(parts) = MaxParts
  BY <1>0, <1>1 DEF CollapseNext
<1>2. CASE Len(parts) # MaxParts /\ s \in Nowhere
  <2>1. CollapseNext(parts, s) = parts
    BY <1>2 DEF CollapseNext, Collapse, Nowhere
  <2> QED
    BY <1>0, <2>1
<1>3. CASE Len(parts) # MaxParts /\ s = ".."
  <2>1. CollapseNext(parts, s) = IF parts = <<>> THEN parts ELSE Front(parts)
    BY <1>3 DEF CollapseNext, Collapse
  <2>2. CASE parts = <<>>
    BY <1>0, <2>1, <2>2
  <2>3. CASE parts # <<>>
    <3>1. Front(parts) \in Seq(S \ Dots) /\ Len(Front(parts)) = Len(parts) - 1
      BY <2>3, FrontIs
    <3> QED
      BY <1>0, <2>1, <2>3, <3>1
  <2> QED
    BY <2>2, <2>3
<1>4. CASE Len(parts) # MaxParts /\ s \notin Nowhere /\ s # ".."
  <2>1. CollapseNext(parts, s) = Append(parts, s)
    BY <1>4 DEF CollapseNext, Collapse, Nowhere
  <2>2. s \in S \ Dots
    BY <1>4 DEF Dots
  <2>3. Append(parts, s) \in Seq(S \ Dots) /\ Len(Append(parts, s)) = Len(parts) + 1
    BY <2>2, AppendProperties
  <2>4. Len(parts) # MaxParts
    BY <1>4
  <2> QED
    BY <1>0, <2>1, <2>3, <2>4
<1> QED
  BY <1>1, <1>2, <1>3, <1>4

LEMMA PartsAreNames ==
  ASSUME NEW S, NEW path \in Seq(S)
  PROVE  /\ Parts(path) \in Seq(S \ Dots)
         /\ Len(Parts(path)) <= MaxParts /\ Len(Parts(path)) <= Len(path)
<1> DEFINE T == {p \in Seq(S) : /\ Parts(p) \in Seq(S \ Dots)
                                /\ Len(Parts(p)) <= MaxParts /\ Len(Parts(p)) <= Len(p)}
<1>1. <<>> \in T
  <2>1. <<>> \in Seq(S) /\ <<>> \in Seq(S \ Dots) /\ Len(<<>>) = 0 /\ 0 <= MaxParts /\ 0 <= 0
    BY RoomForParts
  <2> QED
    BY <2>1, EmptyPath
<1>2. ASSUME NEW p \in Seq(S), NEW s \in S, p \in T PROVE Append(p, s) \in T
  <2>1. Append(p, s) \in Seq(S) /\ Len(Append(p, s)) = Len(p) + 1 /\ Len(p) \in Nat
    BY AppendProperties, LenProperties
  <2>2. Parts(Append(p, s)) = CollapseNext(Parts(p), s)
    BY OneMoreName
  <2>3. /\ Parts(p) \in Seq(S \ Dots) /\ Len(Parts(p)) \in Nat
        /\ Len(Parts(p)) <= MaxParts /\ Len(Parts(p)) <= Len(p)
    BY <1>2, LenProperties
  <2>4. /\ CollapseNext(Parts(p), s) \in Seq(S \ Dots)
        /\ Len(CollapseNext(Parts(p), s)) <= MaxParts
        /\ Len(CollapseNext(Parts(p), s)) <= Len(Parts(p)) + 1
        /\ Len(CollapseNext(Parts(p), s)) \in Nat
    BY <2>3, CollapseKeepsNames, LenProperties
  <2>5. Len(CollapseNext(Parts(p), s)) <= Len(p) + 1
    BY <2>1, <2>3, <2>4
  <2> QED
    BY <2>1, <2>2, <2>4, <2>5
<1> HIDE DEF T
<1>3. \A p \in Seq(S) : p \in T
  BY <1>1, <1>2, Walking!SequenceInduction
<1> QED
  BY <1>3 DEF T

(* Names that are no dots stay as they are. *)
LEMMA NamesStay ==
  ASSUME NEW S, NEW names \in Seq(S \ Dots), Len(names) <= MaxParts
  PROVE  Parts(names) = names
<1> DEFINE N == S \ Dots
           T == {p \in Seq(N) : Len(p) <= MaxParts => Parts(p) = p}
<1>0. MaxParts \in Nat
  BY RoomForParts
<1>1. <<>> \in T
  BY EmptyPath
<1>2. ASSUME NEW p \in Seq(N), NEW s \in N, p \in T PROVE Append(p, s) \in T
  <2>0. s \notin Nowhere /\ s # ".."
    BY DEF Dots
  <2> HIDE DEF N
  <2>1. Append(p, s) \in Seq(N) /\ Len(Append(p, s)) = Len(p) + 1 /\ Len(p) \in Nat
    BY AppendProperties, LenProperties
  <2> SUFFICES ASSUME Len(Append(p, s)) <= MaxParts PROVE Parts(Append(p, s)) = Append(p, s)
    BY <2>1
  <2>2. Parts(p) = p /\ Len(p) # MaxParts
    BY <1>0, <1>2, <2>1
  <2>3. Parts(Append(p, s)) = CollapseNext(p, s)
    BY <2>2, OneMoreName
  <2> QED
    BY <2>0, <2>2, <2>3 DEF CollapseNext, Collapse, Nowhere
<1> HIDE DEF T, N
<1>3. \A p \in Seq(N) : p \in T
  BY <1>1, <1>2, Walking!SequenceInduction
<1> QED
  BY <1>3 DEF T, N

(* An empty name, or a dot, in front changes nothing. *)
LEMMA SkippedInFront ==
  ASSUME NEW S, NEW path \in Seq(S), NEW s \in S, s \in Nowhere
  PROVE  Parts(<<s>> \o path) = Parts(path)
<1>1. <<s>> \in Seq(S) /\ <<s>> = Append(<<>>, s) /\ <<>> \in Seq(S)
  OBVIOUS
<1>2. Parts(<<s>>) = <<>>
  <2>1. Parts(<<s>>) = CollapseNext(<<>>, s)
    BY <1>1, OneMoreName, EmptyPath
  <2> QED
    BY <2>1 DEF CollapseNext, Collapse, Nowhere
<1>3. Walking!Folded(<<>>, <<s>> \o path) = Walking!Folded(Walking!Folded(<<>>, <<s>>), path)
  BY <1>1, Walking!FoldedConcat
<1> QED
  BY <1>2, <1>3, PartsAreAFold

(* A name and the step back behind it cancel out while there is room. *)
LEMMA NameAndBack ==
  ASSUME NEW S, NEW path \in Seq(S), NEW s \in S \ Dots, ".." \in S,
         Len(path) + 1 < MaxParts
  PROVE  Parts(path \o <<s, "..">>) = Parts(path)
<1> DEFINE P == Parts(path)
<1>1. P \in Seq(S \ Dots) /\ Len(P) <= Len(path) /\ Len(P) \in Nat /\ Len(path) \in Nat
  BY PartsAreNames, LenProperties
<1>2. path \o <<s, "..">> = Append(Append(path, s), "..") /\ Append(path, s) \in Seq(S)
  OBVIOUS
<1>3. Parts(path \o <<s, "..">>) = CollapseNext(CollapseNext(P, s), "..")
  BY <1>2, OneMoreName
<1> HIDE DEF P
<1>4. CollapseNext(P, s) = Append(P, s)
  <2>1. s \notin Nowhere /\ s # ".."
    BY DEF Dots
  <2>2. Len(P) # MaxParts
    BY <1>1, RoomForParts
  <2> QED
    BY <2>1, <2>2 DEF CollapseNext, Collapse, Nowhere
<1>5. /\ Append(P, s) # <<>> /\ Len(Append(P, s)) = Len(P) + 1
      /\ Front(Append(P, s)) = P
  BY <1>1, FrontOfAppend
<1>6. CollapseNext(Append(P, s), "..") = Front(Append(P, s))
  <2>1. Len(Append(P, s)) # MaxParts
    BY <1>1, <1>5, RoomForParts
  <2> QED
    BY <1>5, <2>1 DEF CollapseNext, Collapse
<1> QED
  BY <1>3, <1>4, <1>5, <1>6 DEF P

(* The empty name, which stands in front of a slash.                       *)
NoName == ""

LEMMA NoNameIs ==
  /\ NoName \in Nowhere /\ NoName \in Dots /\ NoName \notin {".", ".."}
  /\ Root = <<NoName, NoName>>
  /\ \A p : IsAbs(p) <=> Len(p) > 1 /\ Head(p) = NoName
<1>1. \A p : IsAbs(p) <=> Len(p) > 1 /\ Head(p) = NoName
  BY DEF NoName, IsAbs
<1> QED
  BY <1>1 DEF NoName, Nowhere, Dots, Root

(* The cases of path_normalize; Q is what is joined to the rootfs. *)
Below(path) == IF Parts(path) = <<>> THEN <<NoName>> ELSE Parts(path)

LEMMA NormalizeIs ==
  \A path : Normalize(path) = IF IsAbs(path) THEN <<NoName>> \o Below(path) ELSE Below(path)
<1> SUFFICES ASSUME NEW path
             PROVE  Normalize(path) = IF IsAbs(path) THEN <<NoName>> \o Below(path) ELSE Below(path)
  OBVIOUS
<1>1. Root = <<NoName>> \o <<NoName>>
  BY NoNameIs
<1>2. CASE Parts(path) = <<>>
  BY <1>1, <1>2 DEF Normalize, Below, NoName
<1>3. CASE Parts(path) # <<>>
  BY <1>3 DEF Normalize, Below, NoName
<1> QED
  BY <1>2, <1>3

LEMMA BelowIs ==
  ASSUME NEW S, NEW path \in Seq(S), NoName \in S
  PROVE  /\ Below(path) \in Seq(S) /\ Len(Below(path)) \in Nat /\ Len(Below(path)) > 0
         /\ Below(path) # <<>>
         /\ Range(Below(path)) \cap {".", ".."} = {}
         /\ ~ IsAbs(Below(path))
<1> DEFINE P == Parts(path)
<1>1. P \in Seq(S \ Dots) /\ Len(P) \in Nat /\ (P # <<>> => Len(P) > 0)
  BY PartsAreNames, LenProperties, EmptySeq
<1> HIDE DEF P
<1>2. CASE P = <<>>
  <2>1. Below(path) = <<NoName>>
    BY <1>2 DEF Below, P
  <2>2. <<NoName>> \in Seq(S) /\ Len(<<NoName>>) = 1 /\ <<NoName>> # <<>>
    OBVIOUS
  <2>3. Range(<<NoName>>) = {NoName}
    BY DEF Range
  <2>4. NoName \notin {".", ".."}
    BY NoNameIs
  <2>5. Range(<<NoName>>) \cap {".", ".."} = {}
    BY <2>3, <2>4
  <2>6. ~ IsAbs(<<NoName>>)
    BY <2>2, NoNameIs
  <2> QED
    BY <2>1, <2>2, <2>5, <2>6
<1>3. CASE P # <<>>
  <2>1. Below(path) = P
    BY <1>3 DEF Below, P
  <2>2. \A i \in 1 .. Len(P) : P[i] \in S \ Dots
    BY <1>1
  <2>3. \A i \in DOMAIN P : P[i] \notin {".", ".."}
    <3>1. DOMAIN P = 1 .. Len(P)
      BY <1>1
    <3>2. {".", ".."} \subseteq Dots
      BY DEF Dots, Nowhere
    <3> QED
      BY <2>2, <3>1, <3>2
  <2>4. Range(P) \cap {".", ".."} = {}
    BY <2>3 DEF Range
  <2>5. ~ IsAbs(P)
    <3>1. Head(P) = P[1]
      BY <1>1, <1>3
    <3>2. P[1] # NoName
      BY <1>1, <1>3, <2>2, NoNameIs
    <3> QED
      BY <3>1, <3>2, NoNameIs
  <2>6. P \in Seq(S)
    BY <1>1
  <2> QED
    BY <1>1, <1>3, <2>1, <2>4, <2>5, <2>6
<1> QED
  BY <1>2, <1>3

(* What stands in front of a slash, and what is joined behind it. *)
LEMMA SlashInFront ==
  ASSUME NEW S, NEW p \in Seq(S), p # <<>>, NoName \in S
  PROVE  /\ IsAbs(<<NoName>> \o p) /\ Tail(<<NoName>> \o p) = p
         /\ Len(<<NoName>> \o p) = Len(p) + 1 /\ <<NoName>> \o p \in Seq(S)
<1>1. Len(p) \in Nat /\ Len(p) > 0
  BY LenProperties, EmptySeq
<1>2. <<NoName>> \in Seq(S) /\ Len(<<NoName>>) = 1
  OBVIOUS
<1>3. <<NoName>> \o p \in Seq(S) /\ Len(<<NoName>> \o p) = Len(p) + 1
  BY <1>1, <1>2, ConcatProperties
<1>4. Head(<<NoName>> \o p) = NoName
  BY <1>1, <1>2, <1>3
<1>5. Tail(<<NoName>> \o p) = p
  BY <1>1, <1>2, <1>3
<1>6. IsAbs(<<NoName>> \o p)
  <2>1. Len(<<NoName>> \o p) > 1
    BY <1>1, <1>3
  <2> QED
    BY <1>4, <2>1, NoNameIs
<1> QED
  BY <1>3, <1>5, <1>6

(* path_guest_to_host joins the rootfs with the names and nothing else. *)
LEMMA HostIs ==
  ASSUME NEW S, NEW path \in Seq(S), NoName \in S, Rootfs \in Seq(S)
  PROVE  /\ GuestToHost(path) = Rootfs \o Below(path)
         /\ IsPrefix(Rootfs, Rootfs \o Below(path))
         /\ From(Rootfs \o Below(path), Len(Rootfs) + 1) = Below(path)
         /\ Rootfs \o Below(path) # Rootfs
<1> DEFINE Q == Below(path)
           host == Rootfs \o Q
<1>1. /\ Q \in Seq(S) /\ Len(Q) \in Nat /\ Len(Q) > 0 /\ Q # <<>> /\ ~ IsAbs(Q)
      /\ Len(Rootfs) \in Nat
  BY BelowIs, LenProperties
<1> HIDE DEF Q
<1>2. host \in Seq(S) /\ Len(host) = Len(Rootfs) + Len(Q)
  BY <1>1, ConcatProperties
<1>3. SubSeq(host, 1, Len(Rootfs)) = Rootfs /\ SubSeq(Rootfs, 1, Len(Rootfs)) = Rootfs
  BY <1>1
<1>4. IsPrefix(Rootfs, host)
  BY <1>1, <1>2, <1>3 DEF IsPrefix
<1>5. SubSeq(host, Len(Rootfs) + 1, Len(Rootfs) + Len(Q)) = Q
  BY <1>1
<1>6. From(host, Len(Rootfs) + 1) = Q
  BY <1>2, <1>5 DEF From
<1>7. host # Rootfs
  BY <1>1, <1>2
<1>8. GuestToHost(path) = host
  <2>1. CASE IsAbs(path)
    <3>1. Normalize(path) = <<NoName>> \o Q
      BY <2>1, NormalizeIs DEF Q
    <3>2. IsAbs(<<NoName>> \o Q) /\ Tail(<<NoName>> \o Q) = Q
      BY <1>1, SlashInFront
    <3> QED
      BY <1>4, <3>1, <3>2 DEF GuestToHost
  <2>2. CASE ~ IsAbs(path)
    <3>1. Normalize(path) = Q
      BY <2>2, NormalizeIs DEF Q
    <3> QED
      BY <1>1, <1>4, <3>1 DEF GuestToHost
  <2> QED
    BY <2>1, <2>2
<1> QED
  BY <1>4, <1>6, <1>7, <1>8 DEF Q

(* Names that were normalized are normal. *)
LEMMA BelowIsNormal ==
  ASSUME NEW S, NEW path \in Seq(S), NoName \in S
  PROVE  /\ Parts(Below(path)) = Parts(path)
         /\ Parts(<<NoName>> \o Below(path)) = Parts(path)
<1> DEFINE P == Parts(path)
<1>1. P \in Seq(S \ Dots) /\ Len(P) <= MaxParts
  BY PartsAreNames
<1>2. Parts(P) = P
  BY <1>1, NamesStay
<1>3. NoName \in Nowhere
  BY NoNameIs
<1>4. Parts(<<NoName>>) = <<>>
  <2>1. <<NoName>> \o <<>> = <<NoName>> /\ <<>> \in Seq(S)
    OBVIOUS
  <2>2. Parts(<<NoName>> \o <<>>) = Parts(<<>>)
    BY <1>3, <2>1, SkippedInFront
  <2> QED
    BY <2>1, <2>2, EmptyPath
<1>5. Parts(Below(path)) = P
  BY <1>2, <1>4 DEF Below
<1>6. Below(path) \in Seq(S)
  BY BelowIs
<1> QED
  BY <1>3, <1>5, <1>6, SkippedInFront

LEMMA NormalizeOnce ==
  ASSUME NEW S, NEW path \in Seq(S), NoName \in S
  PROVE  Normalize(Normalize(path)) = Normalize(path)
<1>1. /\ Below(path) \in Seq(S) /\ Below(path) # <<>> /\ ~ IsAbs(Below(path))
      /\ Parts(Below(path)) = Parts(path) /\ Parts(<<NoName>> \o Below(path)) = Parts(path)
  BY BelowIs, BelowIsNormal
<1>2. Below(Below(path)) = Below(path) /\ Below(<<NoName>> \o Below(path)) = Below(path)
  BY <1>1 DEF Below
<1>3. IsAbs(<<NoName>> \o Below(path))
  BY <1>1, SlashInFront
<1>4. CASE IsAbs(path)
  BY <1>2, <1>3, <1>4, NormalizeIs
<1>5. CASE ~ IsAbs(path)
  BY <1>1, <1>2, <1>5, NormalizeIs
<1> QED
  BY <1>4, <1>5

(* The way back. *)
LEMMA BackIs ==
  ASSUME NEW host, IsStrictPrefix(Rootfs, host)
  PROVE  HostToGuest(host) = <<NoName>> \o From(host, Len(Rootfs) + 1)
<1>1. host # Rootfs /\ IsPrefix(Rootfs, host)
  BY DEF IsStrictPrefix
<1> QED
  BY <1>1 DEF HostToGuest, NoName

LEMMA GuestIs ==
  ASSUME NEW S, NEW path \in Seq(S), NoName \in S, Rootfs \in Seq(S), path # <<>>
  PROVE  HostToGuest(GuestToHost(path)) = Normalize(<<NoName>> \o path)
<1> DEFINE host == GuestToHost(path)
<1>1. /\ IsPrefix(Rootfs, host) /\ host # Rootfs
      /\ From(host, Len(Rootfs) + 1) = Below(path)
  BY HostIs
<1> HIDE DEF host
<1>2. IsStrictPrefix(Rootfs, host)
  BY <1>1 DEF IsStrictPrefix
<1>3. HostToGuest(host) = <<NoName>> \o Below(path)
  BY <1>1, <1>2, BackIs
<1>4. IsAbs(<<NoName>> \o path)
  BY SlashInFront
<1>5. Below(<<NoName>> \o path) = Below(path)
  <2>1. NoName \in Nowhere
    BY NoNameIs
  <2> QED
    BY <2>1, SkippedInFront DEF Below
<1> QED
  BY <1>3, <1>4, <1>5, NormalizeIs DEF host

LEMMA RootIs == Len(Root) = 2 /\ Last(Root) = NoName /\ Front(Root) = <<NoName>>
<1>1. Root = <<NoName, NoName>>
  BY NoNameIs
<1>2. /\ <<NoName, NoName>> = Append(<<NoName>>, NoName) /\ <<NoName>> \in Seq({NoName})
      /\ Len(<<NoName, NoName>>) = 2
  OBVIOUS
<1>3. /\ Front(Append(<<NoName>>, NoName)) = <<NoName>>
      /\ Last(Append(<<NoName>>, NoName)) = NoName
  <2>1. NoName \in {NoName}
    OBVIOUS
  <2> QED
    BY <1>2, <2>1, FrontOfAppend
<1> QED
  BY <1>1, <1>2, <1>3, Zenon

(* A path is its directory joined with its name. *)
LEMMA DirectoryAndName ==
  ASSUME NEW S, NEW path \in Seq(S), NoName \in S, "." \in S,
         path # <<>>, Last(path) # NoName
  PROVE  Join(Dirname(path), Basename(path)) = Normalize(path)
<1> DEFINE x == Last(path)
           d == Front(path)
           n == Len(path)
<1>0. /\ d \in Seq(S) /\ Len(d) = n - 1 /\ path = Append(d, x) /\ x \in S
      /\ n \in Nat /\ n > 0 /\ Len(d) \in Nat
  <2>1. d \in Seq(S) /\ Len(d) = n - 1 /\ path = Append(d, x) /\ x \in S
    BY FrontIs
  <2>2. n \in Nat /\ n # 0 /\ Len(d) \in Nat
    BY <2>1, LenProperties, EmptySeq
  <2>3. \A k \in Nat : k # 0 => k > 0
    OBVIOUS
  <2> QED
    BY <2>1, <2>2, <2>3, Zenon
<1>1. /\ <<x>> \in Seq(S) /\ Len(<<x>>) = 1 /\ path = d \o <<x>>
      /\ ~ IsAbs(<<x>>)
  <2>1. <<x>> \in Seq(S) /\ Len(<<x>>) = 1
    BY <1>0
  <2>2. path = d \o <<x>>
    BY <1>0, AppendIsConcat
  <2> QED
    BY <2>1, <2>2, NoNameIs
<1> HIDE DEF x, d, n
<1>2. CASE n = 1
  <2>1. d = <<>>
    <3>1. Len(d) = 0
      BY <1>0, <1>2
    <3> QED
      BY <1>0, <3>1, EmptySeq
  <2>2. path = <<x>>
    BY <1>0, <2>1
  <2>3. Dirname(path) = <<".">> /\ Basename(path) = <<x>>
    BY <1>2, <2>2 DEF Dirname, Basename, n
  <2>4. Join(<<".">>, <<x>>) = Normalize(<<".">> \o <<x>>)
    BY <1>1 DEF Join
  <2>5. Below(<<".">> \o <<x>>) = Below(<<x>>)
    <3>1. "." \in Nowhere
      BY DEF Nowhere
    <3> QED
      BY <1>1, <3>1, SkippedInFront DEF Below
  <2>6. ~ IsAbs(<<".">> \o <<x>>)
    BY DEF IsAbs
  <2> QED
    BY <1>1, <2>2, <2>3, <2>4, <2>5, <2>6, NormalizeIs
<1>3. CASE n = 2 /\ IsAbs(path)
  <2>1. Dirname(path) = Root /\ Basename(path) = <<x>>
    <3>1. Len(path) # 1 /\ Len(path) = 2 /\ IsAbs(path)
      BY <1>3 DEF n
    <3>2. Last(path) # ""
      BY DEF NoName
    <3>3. Dirname(path) = Root
      BY <3>1 DEF Dirname
    <3>4. Basename(path) = <<x>>
      BY <3>1, <3>2 DEF Basename, x
    <3> QED
      BY <3>3, <3>4
  <2>3. Join(Root, <<x>>) = Normalize(<<NoName>> \o <<x>>)
    <3>1. Len(Root) > 1 /\ Last(Root) = ""
      <4>1. 2 > 1
        OBVIOUS
      <4> QED
        BY <4>1, RootIs, Zenon DEF NoName
    <3>2. Join(Root, <<x>>) = Normalize(Front(Root) \o <<x>>)
      BY <1>1, <3>1 DEF Join
    <3> QED
      BY <3>2, RootIs
  <2>4. d = <<NoName>>
    <3>1. Head(path) = NoName
      BY <1>3, NoNameIs
    <3>2. Len(d) = 1 /\ d[1] = NoName
      BY <1>0, <1>3, <3>1
    <3> QED
      BY <1>0, <3>2
  <2> QED
    BY <1>1, <2>1, <2>3, <2>4
<1>4. CASE n > 1 /\ ~ (n = 2 /\ IsAbs(path))
  <2>1. Dirname(path) = d /\ Basename(path) = <<x>>
    <3>1. n # 1
      BY <1>0, <1>4
    <3> QED
      BY <1>4, <3>1 DEF Dirname, Basename, n, x, d, NoName
  <2>2. CASE ~ (Len(d) > 1 /\ Last(d) = NoName)
    BY <1>1, <2>1, <2>2 DEF Join, NoName
  <2>3. CASE Len(d) > 1 /\ Last(d) = NoName
    <3> DEFINE c == Front(d)
    <3>1. d # <<>>
      BY <2>3
    <3>2. /\ c \in Seq(S) /\ Len(c) = Len(d) - 1 /\ d = Append(c, NoName)
      BY <1>0, <2>3, <3>1, FrontIs
    <3> HIDE DEF c
    <3>3. Join(d, <<x>>) = Normalize(c \o <<x>>)
      BY <1>1, <2>3 DEF Join, NoName, c
    <3>4. Parts(c \o <<x>>) = Parts(path)
      <4>1. Parts(d) = Parts(c)
        <5>1. Parts(d) = CollapseNext(Parts(c), NoName)
          BY <3>2, OneMoreName
        <5> QED
          BY <5>1 DEF CollapseNext, Collapse, NoName
      <4>2. c \o <<x>> = Append(c, x)
        BY <1>0, <3>2, AppendIsConcat
      <4> QED
        BY <1>0, <3>2, <4>1, <4>2, OneMoreName
    <3>5. IsAbs(c \o <<x>>) <=> IsAbs(path)
      <4>1. Len(c) \in Nat /\ Len(c) > 0 /\ Len(c) = n - 2
        BY <1>0, <2>3, <3>2, LenProperties
      <4>2. Len(c \o <<x>>) > 1 /\ n > 1
        BY <1>0, <1>1, <1>4, <3>2, <4>1
      <4>3. Head(c \o <<x>>) = c[1]
        BY <1>1, <3>2, <4>1
      <4>4. Head(path) = c[1]
        BY <1>0, <1>1, <3>2, <4>1
      <4> QED
        BY <4>2, <4>3, <4>4, NoNameIs DEF n
    <3> QED
      BY <2>1, <3>3, <3>4, <3>5, NormalizeIs DEF Below
  <2> QED
    BY <2>2, <2>3
<1>5. n = 1 \/ n > 1
  BY <1>0
<1> QED
  BY <1>2, <1>3, <1>4, <1>5

LEMMA PathsAreSequences ==
  ASSUME NEW path \in Path(MaxDepth), NEW S, Part \subseteq S
  PROVE  path \in Seq(S) /\ path # <<>>
<1>0. MaxDepth \in Nat
  BY LibraryAssumption
<1>1. PICK k \in 1 .. MaxDepth : path \in [1 .. k -> Part]
  BY DEF Path
<1>2. k \in Nat /\ k # 0
  BY <1>0, <1>1
<1>3. path = [i \in 1 .. k |-> path[i]] /\ \A i \in 1 .. k : path[i] \in S
  BY <1>1
<1>4. path \in Seq(S) /\ Len(path) = k
  BY <1>2, <1>3
<1> QED
  BY <1>2, <1>4, EmptySeq

(* A path stays absolute when names are put behind it, but for the empty   *)
(* path, which becomes absolute.                                           *)
LEMMA AbsoluteBegins ==
  ASSUME NEW S, NEW path \in Seq(S), path # <<>>, path # <<NoName>>, NEW a \in S, NEW b \in S
  PROVE  IsAbs(path \o <<a, b>>) <=> IsAbs(path)
<1>1. Len(path) \in Nat /\ Len(path) # 0
  BY LenProperties, EmptySeq
<1>2. Len(path \o <<a, b>>) = Len(path) + 2 /\ Head(path \o <<a, b>>) = path[1]
      /\ Head(path) = path[1]
  BY <1>1
<1>3. Len(path \o <<a, b>>) > 1
  BY <1>1, <1>2
<1>4. CASE Len(path) = 1
  <2>1. path = <<path[1]>>
    BY <1>4
  <2>2. path[1] # NoName /\ ~ (Len(path) > 1)
    BY <1>4, <2>1
  <2> QED
    BY <1>2, <2>2, NoNameIs
<1>5. CASE Len(path) > 1
  BY <1>2, <1>3, <1>5, NoNameIs
<1>6. Len(path) = 1 \/ Len(path) > 1
  <2>1. \A n \in Nat : n # 0 => n = 1 \/ n > 1
    OBVIOUS
  <2> QED
    BY <1>1, <2>1, Zenon
<1> QED
  BY <1>4, <1>5, <1>6

(* path_guest_to_host leads no path out of the rootfs, whatever dots it    *)
(* has and however long it is, path_host_to_guest leads back to its normal *)
(* form, and path_normalize, path_join, path_dirname and path_basename fit *)
(* together; for any rootfs and any names.                                 *)
THEOREM PathsHold == Spec => []PathsStayInRoot
<1>1. PathsStayInRoot
  <2> DEFINE S == Part \cup Range(Rootfs) \cup {NoName, ".", "..", "a"}
             host(path) == GuestToHost(path)
  <2>1. ASSUME NEW path \in Path(MaxDepth)
        PROVE  /\ IsPrefix(Rootfs, host(path))
               /\ Range(From(host(path), Len(Rootfs) + 1)) \cap {".", ".."} = {}
               /\ HostToGuest(host(path)) = Normalize(<<NoName>> \o path)
               /\ Normalize(Normalize(path)) = Normalize(path)
               /\ path # <<NoName>> /\ Len(path) + 1 < MaxParts =>
                    Normalize(path \o <<"a", "..">>) = Normalize(path)
               /\ Last(path) # NoName =>
                    Join(Dirname(path), Basename(path)) = Normalize(path)
    <3>1. path \in Seq(S) /\ path # <<>>
      BY PathsAreSequences
    <3>2. NoName \in S /\ "." \in S /\ ".." \in S /\ "a" \in S /\ Rootfs \in Seq(S)
      <4>1. Rootfs \in Seq(Range(Rootfs))
        BY PathAssumption
      <4> DEFINE R == Range(Rootfs)
      <4> HIDE DEF R
      <4>2. Rootfs \in Seq(R) /\ R \subseteq S
        BY <4>1 DEF R
      <4> HIDE DEF S
      <4>3. Rootfs \in Seq(S)
        BY <4>2
      <4> QED
        BY <4>3 DEF S
    <3> HIDE DEF S
    <3>3. /\ IsPrefix(Rootfs, host(path))
          /\ From(host(path), Len(Rootfs) + 1) = Below(path)
      BY <3>1, <3>2, HostIs
    <3>4. Range(Below(path)) \cap {".", ".."} = {}
      BY <3>1, <3>2, BelowIs
    <3>5. HostToGuest(host(path)) = Normalize(<<NoName>> \o path)
      BY <3>1, <3>2, GuestIs
    <3>6. Normalize(Normalize(path)) = Normalize(path)
      BY <3>1, <3>2, NormalizeOnce
    <3>7. path # <<NoName>> /\ Len(path) + 1 < MaxParts =>
             Normalize(path \o <<"a", "..">>) = Normalize(path)
      <4> SUFFICES ASSUME path # <<NoName>>, Len(path) + 1 < MaxParts
                   PROVE  Normalize(path \o <<"a", "..">>) = Normalize(path)
        OBVIOUS
      <4>1. "a" \in S \ Dots
        <5>1. "a" \notin Dots
          BY DEF Dots, Nowhere
        <5> QED
          BY <3>2, <5>1
      <4>2. Parts(path \o <<"a", "..">>) = Parts(path)
        BY <3>1, <3>2, <4>1, NameAndBack
      <4>3. IsAbs(path \o <<"a", "..">>) <=> IsAbs(path)
        BY <3>1, <3>2, AbsoluteBegins
      <4> QED
        BY <4>2, <4>3, NormalizeIs DEF Below
    <3>8. Last(path) # NoName => Join(Dirname(path), Basename(path)) = Normalize(path)
      BY <3>1, <3>2, DirectoryAndName
    <3> QED
      BY <3>3, <3>4, <3>5, <3>6, <3>7, <3>8
  <2> HIDE DEF S
  <2> QED
    BY <2>1 DEF PathsStayInRoot, NoName
<1> QED
  BY <1>1, PTL

-----------------------------------------------------------------------------
(* Words.  A text and the character behind it are what the tokenizer's     *)
(* turns see of it, so a line can be read piece by piece.                  *)
Cat(s, t) == s \o t    \* by a name that the provers leave alone
End   == ""
Space == " "
Behind(text, next)  == IF text = <<>> THEN next ELSE text[1]
AheadTo(text, next) ==
    [i \in 1 .. Len(text) |-> <<text[i], IF i < Len(text) THEN text[i + 1] ELSE next>>]

Turning == INSTANCE FoldFacts WITH Step <- Turn, Good <- Whole

(* The tokenizer's state behind a text that it begins in state t. *)
Read(t, text, next) == Turning!Folded(t, AheadTo(text, next))

LEMMA AheadIsASequence ==
  ASSUME NEW C, NEW text \in Seq(C), NEW next \in C
  PROVE  /\ AheadTo(text, next) \in Seq(C \X C) /\ Len(AheadTo(text, next)) = Len(text)
         /\ \A i \in 1 .. Len(text) : AheadTo(text, next)[i]
              = <<text[i], IF i < Len(text) THEN text[i + 1] ELSE next>>
<1>1. Len(text) \in Nat
  BY LenProperties
<1>2. \A i \in 1 .. Len(text) : <<text[i], IF i < Len(text) THEN text[i + 1] ELSE next>> \in C \X C
  <2> SUFFICES ASSUME NEW i \in 1 .. Len(text)
               PROVE  <<text[i], IF i < Len(text) THEN text[i + 1] ELSE next>> \in C \X C
    OBVIOUS
  <2>1. text[i] \in C
    BY ElementOfSeq
  <2>2. CASE i < Len(text)
    <3>1. i + 1 \in 1 .. Len(text)
      BY <1>1, <2>2
    <3> QED
      BY <2>1, <2>2, <3>1, ElementOfSeq
  <2>3. CASE ~ (i < Len(text))
    BY <2>1, <2>3
  <2> QED
    BY <2>2, <2>3
<1> QED
  BY <1>1, <1>2, IsASeq DEF AheadTo

LEMMA BehindIs ==
  ASSUME NEW C, NEW t \in Seq(C), NEW next \in C
  PROVE  Behind(t, next) \in C
<1>1. CASE t = <<>>
  BY <1>1 DEF Behind
<1>2. CASE t # <<>>
  <2>1. Len(t) \in Nat /\ Len(t) # 0
    BY <1>2, LenProperties, EmptySeq
  <2>2. 1 \in 1 .. Len(t)
    BY <2>1
  <2> QED
    BY <1>2, <2>2, ElementOfSeq DEF Behind
<1> QED
  BY <1>1, <1>2

LEMMA AheadOfConcat ==
  ASSUME NEW C, NEW s \in Seq(C), NEW t \in Seq(C), NEW next \in C
  PROVE  AheadTo(Cat(s, t), next) = Cat(AheadTo(s, Behind(t, next)), AheadTo(t, next))
<1>0. Len(s) \in Nat /\ Len(t) \in Nat /\ (t = <<>> <=> Len(t) = 0)
  BY LenProperties, EmptySeq
<1> DEFINE b == Behind(t, next)
           m == Len(s)
           n == Len(t)
           L == AheadTo(s \o t, next)
           A == AheadTo(s, b)
           B == AheadTo(t, next)
<1>1. b \in C /\ (n = 0 => b = next) /\ (n > 0 => b = t[1])
  <2>1. b \in C
    BY BehindIs
  <2> QED
    BY <1>0, <2>1 DEF Behind
<1>2. /\ s \o t \in Seq(C) /\ Len(s \o t) = m + n
      /\ \A i \in 1 .. m : (s \o t)[i] = s[i]
      /\ \A i \in 1 .. n : (s \o t)[m + i] = t[i]
  BY <1>0
<1> HIDE DEF b
<1>3. /\ A \in Seq(C \X C) /\ Len(A) = m
      /\ \A i \in 1 .. m : A[i] = <<s[i], IF i < m THEN s[i + 1] ELSE b>>
  BY <1>1, AheadIsASequence
<1>4. /\ B \in Seq(C \X C) /\ Len(B) = n
      /\ \A i \in 1 .. n : B[i] = <<t[i], IF i < n THEN t[i + 1] ELSE next>>
  BY AheadIsASequence
<1>5. /\ L \in Seq(C \X C) /\ Len(L) = m + n
      /\ \A i \in 1 .. m + n :
            L[i] = <<(s \o t)[i], IF i < m + n THEN (s \o t)[i + 1] ELSE next>>
  <2> DEFINE u == s \o t
  <2>1. u \in Seq(C) /\ Len(u) = m + n
    BY <1>2
  <2> HIDE DEF u, m, n
  <2>2. /\ AheadTo(u, next) \in Seq(C \X C) /\ Len(AheadTo(u, next)) = Len(u)
        /\ \A i \in 1 .. Len(u) : AheadTo(u, next)[i]
              = <<u[i], IF i < Len(u) THEN u[i + 1] ELSE next>>
    BY <2>1, AheadIsASequence
  <2> QED
    BY <2>1, <2>2, Zenon DEF u
<1> DEFINE D == C \X C
<1> HIDE DEF L, A, B, m, n, D
<1>6. /\ A \o B \in Seq(D) /\ Len(A \o B) = m + n
      /\ \A i \in 1 .. m : (A \o B)[i] = A[i]
      /\ \A i \in 1 .. n : (A \o B)[m + i] = B[i]
  <2>1. A \in Seq(D) /\ B \in Seq(D) /\ Len(A) = m /\ Len(B) = n /\ m \in Nat /\ n \in Nat
    BY <1>0, <1>3, <1>4 DEF D, m, n
  <2>2. /\ A \o B \in Seq(D) /\ Len(A \o B) = m + n
        /\ \A i \in 1 .. m + n : (A \o B)[i] = IF i <= m THEN A[i] ELSE B[i - m]
    BY <2>1, ConcatProperties
  <2>3. \A i \in 1 .. m : i \in 1 .. m + n /\ i <= m
    BY <2>1
  <2>4. \A i \in 1 .. n : m + i \in 1 .. m + n /\ ~ (m + i <= m) /\ (m + i) - m = i
    BY <2>1
  <2> QED
    BY <2>2, <2>3, <2>4
<1>7. m \in Nat /\ n \in Nat
  BY <1>0 DEF m, n
<1>8. ASSUME NEW i \in 1 .. m + n PROVE L[i] = (A \o B)[i]
  <2>1. CASE i < m
    <3>1. i \in 1 .. m /\ i + 1 \in 1 .. m /\ i < m + n
      BY <1>7, <2>1
    <3>2. L[i] = <<s[i], s[i + 1]>>
      BY <1>2, <1>5, <3>1 DEF m, n
    <3>3. A[i] = <<s[i], s[i + 1]>>
      BY <1>3, <2>1, <3>1
    <3> QED
      BY <1>6, <3>1, <3>2, <3>3
  <2>2. CASE i = m
    <3>1. i \in 1 .. m /\ ~ (i < m)
      BY <1>7, <2>2
    <3>2. A[i] = <<s[i], b>>
      BY <1>3, <3>1
    <3>3. L[i] = <<s[i], b>>
      <4>1. CASE n = 0
        <5>1. ~ (i < m + n)
          BY <1>7, <2>2, <4>1
        <5>2. L[i] = <<(s \o t)[i], next>>
          BY <1>5, <5>1
        <5> QED
          BY <1>1, <1>2, <3>1, <4>1, <5>2 DEF m, n
      <4>2. CASE n > 0
        <5>1. i < m + n /\ i + 1 = m + 1 /\ 1 \in 1 .. n
          BY <1>7, <2>2, <4>2
        <5>2. L[i] = <<(s \o t)[i], (s \o t)[m + 1]>>
          BY <1>5, <5>1
        <5> QED
          BY <1>1, <1>2, <3>1, <4>2, <5>1, <5>2 DEF m, n
      <4> QED
        BY <1>7, <4>1, <4>2
    <3> QED
      BY <1>6, <3>1, <3>2, <3>3
  <2>3. CASE i > m
    <3> DEFINE j == i - m
    <3>1. j \in 1 .. n /\ i = m + j
      BY <1>7, <2>3
    <3> HIDE DEF j
    <3>2. CASE j < n
      <4>1. i < m + n /\ i + 1 = m + (j + 1) /\ j + 1 \in 1 .. n
        BY <1>7, <3>1, <3>2
      <4>2. L[i] = <<(s \o t)[m + j], (s \o t)[m + (j + 1)]>>
        BY <1>5, <3>1, <4>1
      <4>3. L[i] = <<t[j], t[j + 1]>>
        BY <1>2, <3>1, <4>1, <4>2 DEF m, n
      <4>4. B[j] = <<t[j], t[j + 1]>>
        BY <1>4, <3>1, <3>2
      <4> QED
        BY <1>6, <3>1, <4>3, <4>4
    <3>3. CASE ~ (j < n)
      <4>1. ~ (i < m + n)
        BY <1>7, <3>1, <3>3
      <4>2. L[i] = <<(s \o t)[m + j], next>>
        BY <1>5, <3>1, <4>1
      <4>3. L[i] = <<t[j], next>>
        BY <1>2, <3>1, <4>2 DEF m, n
      <4>4. B[j] = <<t[j], next>>
        BY <1>4, <3>1, <3>3
      <4> QED
        BY <1>6, <3>1, <4>3, <4>4
    <3> QED
      BY <3>2, <3>3
  <2>4. i < m \/ i = m \/ i > m
    BY <1>7
  <2> QED
    BY <2>1, <2>2, <2>3, <2>4
<1>9. L = A \o B
  <2>1. L \in Seq(D)
    BY <1>5 DEF D
  <2> QED
    BY <1>5, <1>6, <1>8, <2>1, SeqEqual
<1> QED
  BY <1>9 DEF L, A, B, b, Cat

LEMMA ReadIsAFold ==
  /\ \A line : Scan(line) = Turning!Folded(Start, Ahead(line))
  /\ \A C : \A line \in Seq(C) : Scan(line) = Read(Start, line, End)
<1>1. \A line : Scan(line) = Turning!Folded(Start, Ahead(line))
  BY DEF Scan, Turning!Folded, FoldLeft, Turning!FoldLeft,
         MapThenFoldSet, Turning!MapThenFoldSet, Max, Turning!Max
<1>2. ASSUME NEW C, NEW line \in Seq(C) PROVE Ahead(line) = AheadTo(line, End)
  <2>1. DOMAIN line = 1 .. Len(line)
    OBVIOUS
  <2> QED
    BY <2>1, Zenon DEF Ahead, AheadTo, End
<1> QED
  BY <1>1, <1>2 DEF Read

(* A line read in two pieces. *)
LEMMA ReadOn ==
  ASSUME NEW C, NEW s \in Seq(C), NEW text \in Seq(C), NEW next \in C, NEW t
  PROVE  Read(t, Cat(s, text), next) = Read(Read(t, s, Behind(text, next)), text, next)
<1> DEFINE A == AheadTo(s, Behind(text, next))
           B == AheadTo(text, next)
           D == C \X C
<1>1. AheadTo(Cat(s, text), next) = Cat(A, B)
  BY AheadOfConcat
<1>2. A \in Seq(D) /\ B \in Seq(D)
  BY BehindIs, AheadIsASequence
<1> HIDE DEF A, B, D
<1>3. Turning!Folded(t, A \o B) = Turning!Folded(Turning!Folded(t, A), B)
  BY <1>2, Turning!FoldedConcat
<1>4. Turning!Folded(t, Cat(A, B)) = Turning!Folded(Turning!Folded(t, A), B)
  BY <1>3, Zenon DEF Cat
<1> QED
  BY <1>1, <1>4 DEF Read, A, B

LEMMA ReadEmpty == \A t, next : Read(t, <<>>, next) = t
<1>1. \A next : AheadTo(<<>>, next) = <<>>
  BY DEF AheadTo
<1>2. \A t : Turning!Folded(t, <<>>) = t
  BY Turning!FoldedEmpty
<1> QED
  BY <1>1, <1>2 DEF Read

LEMMA ReadOne ==
  ASSUME NEW C, NEW c \in C, NEW next \in C, NEW t
  PROVE  Read(t, <<c>>, next) = Turn(t, <<c, next>>)
<1>2. AheadTo(<<c>>, next) = Append(<<>>, <<c, next>>)
  <2>1. Len(<<c>>) = 1 /\ <<c>>[1] = c /\ <<c>> \in Seq(C)
    OBVIOUS
  <2>2. /\ AheadTo(<<c>>, next) \in Seq(C \X C) /\ Len(AheadTo(<<c>>, next)) = Len(<<c>>)
        /\ \A i \in 1 .. Len(<<c>>) : AheadTo(<<c>>, next)[i]
              = <<<<c>>[i], IF i < Len(<<c>>) THEN <<c>>[i + 1] ELSE next>>
    BY <2>1, AheadIsASequence
  <2>3. AheadTo(<<c>>, next)[1] = <<c, next>>
    <3>1. 1 \in 1 .. 1 /\ ~ (1 < 1)
      OBVIOUS
    <3> QED
      BY <2>1, <2>2, <3>1
  <2> DEFINE L == AheadTo(<<c>>, next)
             D == C \X C
  <2>4. L \in Seq(D) /\ Len(L) = 1 /\ L[1] = <<c, next>>
    BY <2>1, <2>2, <2>3
  <2> HIDE DEF L, D
  <2>5. L = Append(<<>>, L[1])
    <3>1. Append(<<>>, L[1]) \in Seq(D) /\ Len(Append(<<>>, L[1])) = 1
          /\ Append(<<>>, L[1])[1] = L[1]
      BY <2>4
    <3>2. \A i \in 1 .. Len(L) : L[i] = Append(<<>>, L[1])[i]
      BY <2>4, <3>1
    <3> QED
      BY <2>4, <3>1, <3>2, SeqEqual
  <2> QED
    BY <2>4, <2>5, Zenon DEF L
<1>3. Turning!Folded(t, <<>>) = t
  BY Turning!FoldedEmpty
<1>4. Turning!Folded(t, Append(<<>>, <<c, next>>)) = Turn(Turning!Folded(t, <<>>), <<c, next>>)
  <2>1. <<>> \in Seq({<<c, next>>}) /\ <<c, next>> \in {<<c, next>>}
    OBVIOUS
  <2> QED
    BY <2>1, Turning!FoldedAppend
<1> QED
  BY <1>2, <1>3, <1>4 DEF Read

LEMMA ReadAppend ==
  ASSUME NEW C, NEW s \in Seq(C), NEW c \in C, NEW next \in C, NEW t
  PROVE  Read(t, Append(s, c), next) = Turn(Read(t, s, c), <<c, next>>)
<1>1. <<c>> \in Seq(C) /\ Append(s, c) = Cat(s, <<c>>) /\ Behind(<<c>>, next) = c
  <2>1. Append(s, c) = s \o <<c>>
    BY AppendIsConcat
  <2>2. <<c>> # <<>> /\ <<c>>[1] = c
    OBVIOUS
  <2>3. Append(s, c) = Cat(s, <<c>>)
    BY <2>1, Zenon DEF Cat
  <2> QED
    BY <2>2, <2>3 DEF Behind
<1>2. Read(t, Cat(s, <<c>>), next) = Read(Read(t, s, Behind(<<c>>, next)), <<c>>, next)
  <2> DEFINE u == <<c>>
  <2>1. u \in Seq(C)
    BY <1>1
  <2> HIDE DEF u
  <2>2. Read(t, Cat(s, u), next) = Read(Read(t, s, Behind(u, next)), u, next)
    BY <2>1, ReadOn
  <2> QED
    BY <2>2, Zenon DEF u
<1> QED
  BY <1>1, <1>2, ReadOne

-----------------------------------------------------------------------------
(* What a turn does, by the quote that is open; for a character alone and   *)
(* for one that takes the next along.                                      *)
LEMMA QuotesDiffer ==
  /\ SingleQuote # DoubleQuote /\ SingleQuote # Escape /\ DoubleQuote # Escape
  /\ SingleQuote # End /\ DoubleQuote # End /\ Escape # End /\ Space # End
  /\ Space \in SpaceChar
BY DEF SingleQuote, DoubleQuote, Escape, End, Space, SpaceChar

LEMMA KindsDiffer ==
  /\ \A d \in SpaceChar : /\ d \notin Operator1 /\ d # SingleQuote /\ d # DoubleQuote
                          /\ d # Escape
  /\ \A d \in Operator1 : d # SingleQuote /\ d # DoubleQuote /\ d # Escape
  /\ \A d \in SafeChar : /\ d \notin Operator1 /\ d \notin SpaceChar
                         /\ d # SingleQuote /\ d # DoubleQuote /\ d # Escape
  /\ \A c, next : <<c, next>> \in Operator2 =>
                     c \in Operator1 /\ next # End /\ next # Space
<1>1. \A d \in SpaceChar : /\ d \notin Operator1 /\ d # SingleQuote /\ d # DoubleQuote
                           /\ d # Escape
  BY DEF SpaceChar, Operator1, SingleQuote, DoubleQuote, Escape
<1>2. \A d \in Operator1 : d # SingleQuote /\ d # DoubleQuote /\ d # Escape
  BY DEF Operator1, SingleQuote, DoubleQuote, Escape
<1>3. \A d \in SafeChar : /\ d \notin Operator1 /\ d \notin SpaceChar
                          /\ d # SingleQuote /\ d # DoubleQuote /\ d # Escape
  BY DEF SafeChar, Operator1, SpaceChar, SingleQuote, DoubleQuote, Escape
<1>4. \A c, next : <<c, next>> \in Operator2 =>
                      c \in Operator1 /\ next # End /\ next # Space
  BY DEF Operator1, Operator2, End, Space
<1> QED
  BY <1>1, <1>2, <1>3, <1>4

LEMMA InsideSingle ==
  ASSUME NEW t, NEW c, NEW next, t.quote = SingleQuote
  PROVE  /\ c = SingleQuote => Take(t, c, next) = Quote(t, End)
         /\ c # SingleQuote => Take(t, c, next) = Put(t, c)
<1>1. SingleQuote # "" /\ SingleQuote # DoubleQuote
  BY DEF SingleQuote, DoubleQuote
<1> QED
  BY <1>1 DEF Take, End

LEMMA InsideDouble ==
  ASSUME NEW t, NEW c, NEW next, t.quote = DoubleQuote
  PROVE  /\ c = DoubleQuote => Take(t, c, next) = Quote(t, End)
         /\ c = Escape /\ next # End => Take(t, c, next) = Skip(Put(t, next))
         /\ c # DoubleQuote /\ ~ (c = Escape /\ next # End) => Take(t, c, next) = Put(t, c)
<1>1. DoubleQuote # "" /\ SingleQuote # DoubleQuote /\ DoubleQuote # Escape
  BY DEF SingleQuote, DoubleQuote, Escape
<1>2. c = DoubleQuote => Take(t, c, next) = Quote(t, End)
  BY <1>1 DEF Take, End
<1>3. c = Escape /\ next # End => Take(t, c, next) = Skip(Put(t, next))
  BY <1>1 DEF Take, End
<1>4. c # DoubleQuote /\ ~ (c = Escape /\ next # End) => Take(t, c, next) = Put(t, c)
  BY <1>1 DEF Take, End
<1> QED
  BY <1>2, <1>3, <1>4

(* Outside of quotes: the kinds of characters, alone or with the next. *)
Special == {SingleQuote, DoubleQuote, Escape} \cup SpaceChar \cup Operator1
Doubled(c, next)  == <<c, next>> \in Operator2
DoubleOp(c, next) == Op(<<c, next>>)
SingleOp(c)       == Op(<<c>>)

LEMMA Outside ==
  ASSUME NEW t, NEW c, NEW next, t.quote = End
  PROVE  /\ c = Escape /\ next # End => Take(t, c, next) = Skip(Put(t, next))
         /\ c = Escape /\ next = End => Take(t, c, next) = Put(t, c)
         /\ c = SingleQuote \/ c = DoubleQuote => Take(t, c, next) = Quote(t, c)
         /\ c \in SpaceChar => Take(t, c, next) = Flush(t)
         /\ Doubled(c, next) => Take(t, c, next) = Skip(AddToken(Flush(t), DoubleOp(c, next)))
         /\ c \in Operator1 /\ ~ Doubled(c, next) => Take(t, c, next) = AddToken(Flush(t), SingleOp(c))
         /\ c \notin Special => Take(t, c, next) = Put(t, c)
<1>1. "" # SingleQuote /\ "" # DoubleQuote /\ t.quote = ""
  BY DEF SingleQuote, DoubleQuote, End
<1>2. SingleQuote # Escape /\ DoubleQuote # Escape
  BY QuotesDiffer
<1> DEFINE two == <<c, next>> \in Operator2
<1>3. two => c \in Operator1
  BY KindsDiffer
<1>4. c = Escape /\ next # End => Take(t, c, next) = Skip(Put(t, next))
  BY <1>1, <1>2, <1>3, KindsDiffer DEF Take, End
<1>5. c = Escape /\ next = End => Take(t, c, next) = Put(t, c)
  BY <1>1, <1>2, <1>3, KindsDiffer DEF Take, End
<1>6. c = SingleQuote \/ c = DoubleQuote => Take(t, c, next) = Quote(t, c)
  BY <1>1, <1>2, <1>3, KindsDiffer DEF Take, End
<1>7. c \in SpaceChar => Take(t, c, next) = Flush(t)
  BY <1>1, <1>2, <1>3, KindsDiffer DEF Take, End
<1>8. two => Take(t, c, next) = Skip(AddToken(Flush(t), Op(<<c, next>>)))
  BY <1>1, <1>2, <1>3, KindsDiffer DEF Take, End
<1>9. c \in Operator1 /\ ~ two => Take(t, c, next) = AddToken(Flush(t), Op(<<c>>))
  BY <1>1, <1>2, <1>3, KindsDiffer DEF Take, End
<1>10. c \notin Special => Take(t, c, next) = Put(t, c)
  BY <1>1, <1>2, <1>3, KindsDiffer DEF Take, End, Special
<1>11. /\ Doubled(c, next) => Take(t, c, next) = Skip(AddToken(Flush(t), DoubleOp(c, next)))
       /\ c \in Operator1 /\ ~ Doubled(c, next) => Take(t, c, next) = AddToken(Flush(t), SingleOp(c))
  BY <1>8, <1>9, Zenon DEF Doubled, DoubleOp, SingleOp
<1> QED
  BY <1>4, <1>5, <1>6, <1>7, <1>10, <1>11, Zenon

-----------------------------------------------------------------------------
(* The tokenizer's states, and the tokens there is room for. *)
Kinds     == {"WORD", "OPERATOR"}
Quotes    == {End, SingleQuote, DoubleQuote}
Tokens(C) == Seq([type : Kinds, value : Seq(C)])
States(C) == [tokens : Tokens(C), buf : Seq(C), quote : Quotes, skip : BOOLEAN]
State(T, b, q, k) == [tokens |-> T, buf |-> b, quote |-> q, skip |-> k]
Added(T, token)   == IF Len(T) < MaxTokens THEN Append(T, token) ELSE T
Longer(b, c)      == IF Len(b) < TokenMaxLen - 1 THEN Append(b, c) ELSE b

LEMMA RoomForTokens == MaxTokens \in Nat /\ MaxTokens >= 1 /\ TokenMaxLen \in Nat /\ TokenMaxLen >= 2
BY TokenAssumption

LEMMA StateHas ==
  ASSUME NEW T, NEW b, NEW q, NEW k
  PROVE  /\ State(T, b, q, k).tokens = T /\ State(T, b, q, k).buf = b
         /\ State(T, b, q, k).quote = q /\ (State(T, b, q, k).skip <=> k)
BY DEF State

LEMMA StateIs ==
  ASSUME NEW C
  PROVE  /\ \A t \in States(C) :
               /\ t = State(t.tokens, t.buf, t.quote, t.skip)
               /\ t.tokens \in Tokens(C) /\ t.buf \in Seq(C) /\ t.quote \in Quotes
               /\ t.skip \in BOOLEAN
         /\ \A T \in Tokens(C), b \in Seq(C), q \in Quotes, k \in BOOLEAN :
               State(T, b, q, k) \in States(C)
<1> DEFINE X == Tokens(C)
           Y == Seq(C)
<1> HIDE DEF X, Y
<1>1. States(C) = [tokens : X, buf : Y, quote : Quotes, skip : BOOLEAN]
  BY DEF States, X, Y
<1> HIDE DEF States
<1>2. \A t \in States(C) :
               /\ t = State(t.tokens, t.buf, t.quote, t.skip)
               /\ t.tokens \in X /\ t.buf \in Y /\ t.quote \in Quotes
               /\ t.skip \in BOOLEAN
  BY <1>1 DEF State
<1>3. \A T \in X, b \in Y, q \in Quotes, k \in BOOLEAN : State(T, b, q, k) \in States(C)
  BY <1>1 DEF State
<1> QED
  BY <1>2, <1>3 DEF X, Y

LEMMA Primitives ==
  ASSUME NEW T, NEW b, NEW q, NEW k
  PROVE  /\ \A c : Put(State(T, b, q, k), c) = State(T, Longer(b, c), q, k)
         /\ \A r : Quote(State(T, b, q, k), r) = State(T, b, r, k)
         /\ \A token : AddToken(State(T, b, q, k), token) = State(Added(T, token), b, q, k)
<1>1. \A c : Put(State(T, b, q, k), c) = State(T, Longer(b, c), q, k)
  BY DEF Put, State, Longer
<1>2. \A r : Quote(State(T, b, q, k), r) = State(T, b, r, k)
  BY DEF Quote, State
<1>3. \A token : AddToken(State(T, b, q, k), token) = State(Added(T, token), b, q, k)
  BY DEF AddToken, State, Added
<1> QED
  BY <1>1, <1>2, <1>3

LEMMA SkipIs ==
  ASSUME NEW T, NEW b, NEW q, NEW k
  PROVE  Skip(State(T, b, q, k)) = State(T, b, q, TRUE)
<1>1. \A j : [State(T, b, q, k) EXCEPT !.skip = j] = State(T, b, q, j)
  BY DEF State
<1> QED
  BY <1>1, Zenon DEF Skip

LEMMA FlushIs ==
  ASSUME NEW T, NEW b, NEW q, NEW k
  PROVE  /\ b = <<>> => Flush(State(T, b, q, k)) = State(T, b, q, k)
         /\ b # <<>> => Flush(State(T, b, q, k)) = State(Added(T, Word(b)), <<>>, q, k)
<1>1. State(T, b, q, k).buf = b
  BY DEF State
<1>2. b = <<>> => Flush(State(T, b, q, k)) = State(T, b, q, k)
  BY <1>1 DEF Flush
<1>3. ASSUME b # <<>> PROVE Flush(State(T, b, q, k)) = State(Added(T, Word(b)), <<>>, q, k)
  <2>1. Flush(State(T, b, q, k)) = [AddToken(State(T, b, q, k), Word(b)) EXCEPT !.buf = <<>>]
    BY <1>1, <1>3 DEF Flush
  <2>2. AddToken(State(T, b, q, k), Word(b)) = State(Added(T, Word(b)), b, q, k)
    BY Primitives
  <2> DEFINE U == Added(T, Word(b))
  <2> HIDE DEF U
  <2>3. [State(U, b, q, k) EXCEPT !.buf = <<>>] = State(U, <<>>, q, k)
    BY DEF State
  <2> QED
    BY <2>1, <2>2, <2>3, Zenon DEF U
<1> QED
  BY <1>2, <1>3

LEMMA TurnIs ==
  ASSUME NEW T, NEW b, NEW q, NEW c, NEW next
  PROVE  /\ Turn(State(T, b, q, TRUE), <<c, next>>) = State(T, b, q, FALSE)
         /\ Turn(State(T, b, q, FALSE), <<c, next>>) = Take(State(T, b, q, FALSE), c, next)
<1>1. Turn(State(T, b, q, TRUE), <<c, next>>) = State(T, b, q, FALSE)
  BY DEF Turn, State
<1>2. ~ State(T, b, q, FALSE).skip
  BY DEF State
<1>3. Turn(State(T, b, q, FALSE), <<c, next>>) = Take(State(T, b, q, FALSE), c, next)
  BY <1>2 DEF Turn
<1> QED
  BY <1>1, <1>3

(* Added is what Append is, as far as there is room. *)
LEMMA KeptHas ==
  ASSUME NEW X, NEW y \in Seq(X)
  PROVE  /\ Kept(y) \in Seq(X)
         /\ Len(Kept(y)) = IF Len(y) < MaxTokens THEN Len(y) ELSE MaxTokens
         /\ \A i \in 1 .. Len(Kept(y)) : Kept(y)[i] = y[i]
         /\ Len(y) <= MaxTokens => Kept(y) = y
<1> DEFINE n == IF Len(y) < MaxTokens THEN Len(y) ELSE MaxTokens
<1>1. Len(y) \in Nat /\ MaxTokens \in Nat /\ n \in Nat /\ n <= Len(y)
  BY LenProperties, RoomForTokens
<1>2. \A i \in 1 .. n : y[i] \in X
  BY <1>1
<1>3. Kept(y) = SubSeq(y, 1, n)
  BY DEF Kept
<1>4. Len(y) <= MaxTokens => n = Len(y)
  BY <1>1
<1> HIDE DEF n
<1>5. /\ SubSeq(y, 1, n) \in Seq(X) /\ Len(SubSeq(y, 1, n)) = n
      /\ \A i \in 1 .. n : SubSeq(y, 1, n)[i] = y[i]
  <2>1. /\ SubSeq(y, 1, n) \in Seq(X)
        /\ Len(SubSeq(y, 1, n)) = IF 1 <= n THEN n - 1 + 1 ELSE 0
        /\ \A i \in 1 .. n - 1 + 1 : SubSeq(y, 1, n)[i] = y[1 + i - 1]
    BY <1>1, <1>2, SubSeqProperties
  <2>2. (IF 1 <= n THEN n - 1 + 1 ELSE 0) = n /\ n - 1 + 1 = n
    BY <1>1
  <2>3. \A i \in 1 .. n : 1 + i - 1 = i
    BY <1>1
  <2> QED
    BY <2>1, <2>2, <2>3
<1>6. Len(y) <= MaxTokens => SubSeq(y, 1, n) = y
  BY <1>4, SubSeqFull
<1> QED
  BY <1>3, <1>5, <1>6 DEF n

LEMMA KeptOfAppend ==
  ASSUME NEW X, NEW y \in Seq(X), NEW token \in X
  PROVE  Kept(Append(y, token)) = Added(Kept(y), token)
<1> DEFINE z == Append(y, token)
           n == Len(y)
<1>1. n \in Nat /\ MaxTokens \in Nat
  BY LenProperties, RoomForTokens
<1>2. z \in Seq(X) /\ Len(z) = n + 1 /\ \A i \in 1 .. n : z[i] = y[i]
  BY AppendProperties
<1>3. CASE n < MaxTokens
  <2>1. Len(z) <= MaxTokens /\ n <= MaxTokens
    BY <1>1, <1>2, <1>3
  <2>2. Kept(z) = z /\ Kept(y) = y
    BY <1>2, <2>1, KeptHas
  <2> QED
    BY <1>3, <2>2 DEF Added
<1>4. CASE ~ (n < MaxTokens)
  <2>1. ~ (Len(z) < MaxTokens) /\ MaxTokens <= n
    BY <1>1, <1>2, <1>4
  <2> HIDE DEF z
  <2>2. /\ Kept(z) \in Seq(X) /\ Len(Kept(z)) = MaxTokens
        /\ \A i \in 1 .. MaxTokens : Kept(z)[i] = z[i]
    BY <1>2, <2>1, KeptHas
  <2>3. /\ Kept(y) \in Seq(X) /\ Len(Kept(y)) = MaxTokens
        /\ \A i \in 1 .. MaxTokens : Kept(y)[i] = y[i]
    BY <1>4, KeptHas
  <2>4. \A i \in 1 .. MaxTokens : i \in 1 .. n
    BY <1>1, <2>1
  <2> HIDE DEF n
  <2>5. \A i \in 1 .. Len(Kept(z)) : Kept(z)[i] = Kept(y)[i]
    BY <1>2, <2>2, <2>3, <2>4
  <2>6. Kept(z) = Kept(y)
    BY <2>2, <2>3, <2>5, SeqEqual
  <2>7. Added(Kept(y), token) = Kept(y)
    BY <1>1, <2>3 DEF Added
  <2> QED
    BY <2>6, <2>7 DEF z
<1> QED
  BY <1>3, <1>4

LEMMA KeptBehind ==
  ASSUME NEW X, NEW p \in Seq(X), NEW y \in Seq(X), NEW token \in X
  PROVE  Kept(Cat(p, Added(y, token))) = Added(Kept(Cat(p, y)), token)
<1>1. Len(y) \in Nat /\ Len(p) \in Nat /\ MaxTokens \in Nat
  BY LenProperties, RoomForTokens
<1>2. p \o y \in Seq(X) /\ Len(p \o y) = Len(p) + Len(y)
  BY ConcatProperties
<1>3. CASE Len(y) < MaxTokens
  <2>1. p \o Append(y, token) = Append(p \o y, token)
    <3>1. <<token>> \in Seq(X)
      OBVIOUS
    <3>2. Append(y, token) = y \o <<token>> /\ Append(p \o y, token) = (p \o y) \o <<token>>
      BY <1>2, AppendIsConcat
    <3> QED
      BY <3>1, <3>2, ConcatAssociative
  <2>2. Added(y, token) = Append(y, token)
    BY <1>3 DEF Added
  <2>3. Cat(p, Added(y, token)) = Append(Cat(p, y), token)
    BY <2>1, <2>2, Zenon DEF Cat
  <2>4. Cat(p, y) \in Seq(X)
    BY <1>2 DEF Cat
  <2> QED
    BY <2>3, <2>4, KeptOfAppend
<1>4. CASE ~ (Len(y) < MaxTokens)
  <2>1. Added(y, token) = y
    BY <1>4 DEF Added
  <2>2. Cat(p, y) \in Seq(X) /\ ~ (Len(Cat(p, y)) < MaxTokens)
    BY <1>1, <1>2, <1>4 DEF Cat
  <2>3. Len(Kept(Cat(p, y))) = MaxTokens
    BY <2>2, KeptHas
  <2>4. Added(Kept(Cat(p, y)), token) = Kept(Cat(p, y))
    BY <1>1, <2>3 DEF Added
  <2> QED
    BY <2>1, <2>4
<1> QED
  BY <1>3, <1>4

-----------------------------------------------------------------------------
(* The same state with tokens p before its own: the tokens of a line do not *)
(* depend on those that were there, but for the room that is left.         *)
With(p, t) == State(Kept(Cat(p, t.tokens)), t.buf, t.quote, t.skip)

LEMMA WithIs ==
  ASSUME NEW p, NEW T, NEW b, NEW q, NEW k \in BOOLEAN
  PROVE  With(p, State(T, b, q, k)) = State(Kept(Cat(p, T)), b, q, k)
<1>1. /\ State(T, b, q, k).tokens = T /\ State(T, b, q, k).buf = b
      /\ State(T, b, q, k).quote = q /\ State(T, b, q, k).skip = k
  BY DEF State
<1> QED
  BY <1>1 DEF With

LEMMA LongerIsText ==
  ASSUME NEW C, NEW b \in Seq(C), NEW c \in C
  PROVE  Longer(b, c) \in Seq(C) /\ Longer(b, c) # <<>>
<1>1. Append(b, c) \in Seq(C) /\ Append(b, c) # <<>>
  BY AppendProperties
<1>2. ASSUME ~ (Len(b) < TokenMaxLen - 1) PROVE b # <<>>
  BY <1>2, RoomForTokens
<1> QED
  BY <1>1, <1>2 DEF Longer

LEMMA AddedIsTokens ==
  ASSUME NEW C, NEW T \in Tokens(C), NEW token \in [type : Kinds, value : Seq(C)]
  PROVE  Added(T, token) \in Tokens(C)
BY AppendProperties DEF Added, Tokens

LEMMA WordIsToken ==
  ASSUME NEW C, NEW text \in Seq(C)
  PROVE  Word(text) \in [type : Kinds, value : Seq(C)] /\ Op(text) \in [type : Kinds, value : Seq(C)]
BY DEF Word, Op, Kinds

LEMMA OpIsToken ==
  ASSUME NEW C, NEW c \in C, NEW next \in C
  PROVE  /\ SingleOp(c) \in [type : Kinds, value : Seq(C)]
         /\ DoubleOp(c, next) \in [type : Kinds, value : Seq(C)]
<1>1. <<c>> \in Seq(C) /\ <<c, next>> \in Seq(C)
  OBVIOUS
<1> QED
  BY <1>1, WordIsToken, Zenon DEF SingleOp, DoubleOp

LEMMA TokensBehind ==
  ASSUME NEW C, NEW p \in Tokens(C), NEW T \in Tokens(C),
         NEW token \in [type : Kinds, value : Seq(C)]
  PROVE  Kept(Cat(p, Added(T, token))) = Added(Kept(Cat(p, T)), token)
<1> DEFINE X == [type : Kinds, value : Seq(C)]
<1>1. p \in Seq(X) /\ T \in Seq(X) /\ token \in X
  BY DEF Tokens
<1> HIDE DEF X
<1> QED
  BY <1>1, KeptBehind

LEMMA PutKeeps ==
  ASSUME NEW C, NEW p \in Tokens(C), NEW t \in States(C), NEW c \in C
  PROVE  Put(t, c) \in States(C) /\ With(p, Put(t, c)) = Put(With(p, t), c)
<1> DEFINE T == t.tokens
           b == t.buf
           q == t.quote
           k == t.skip
<1>1. t = State(T, b, q, k) /\ T \in Tokens(C) /\ b \in Seq(C) /\ q \in Quotes /\ k \in BOOLEAN
  BY StateIs
<1> HIDE DEF T, b, q, k
<1>2. Put(t, c) = State(T, Longer(b, c), q, k)
  BY <1>1, Primitives
<1>3. With(p, t) = State(Kept(Cat(p, T)), b, q, k)
  BY <1>1, WithIs
<1>4. Put(With(p, t), c) = State(Kept(Cat(p, T)), Longer(b, c), q, k)
  BY <1>3, Primitives
<1>5. With(p, Put(t, c)) = State(Kept(Cat(p, T)), Longer(b, c), q, k)
  BY <1>1, <1>2, WithIs
<1>6. Put(t, c) \in States(C)
  BY <1>1, <1>2, LongerIsText, StateIs
<1> QED
  BY <1>4, <1>5, <1>6

LEMMA QuoteKeeps ==
  ASSUME NEW C, NEW p \in Tokens(C), NEW t \in States(C), NEW r \in Quotes
  PROVE  Quote(t, r) \in States(C) /\ With(p, Quote(t, r)) = Quote(With(p, t), r)
<1> DEFINE T == t.tokens
           b == t.buf
           q == t.quote
           k == t.skip
<1>1. t = State(T, b, q, k) /\ T \in Tokens(C) /\ b \in Seq(C) /\ q \in Quotes /\ k \in BOOLEAN
  BY StateIs
<1> HIDE DEF T, b, q, k
<1>2. Quote(t, r) = State(T, b, r, k)
  BY <1>1, Primitives
<1>3. With(p, t) = State(Kept(Cat(p, T)), b, q, k)
  BY <1>1, WithIs
<1>4. Quote(With(p, t), r) = State(Kept(Cat(p, T)), b, r, k)
  BY <1>3, Primitives
<1>5. With(p, Quote(t, r)) = State(Kept(Cat(p, T)), b, r, k)
  BY <1>1, <1>2, WithIs
<1>6. Quote(t, r) \in States(C)
  BY <1>1, <1>2, StateIs
<1> QED
  BY <1>4, <1>5, <1>6

LEMMA SkipKeeps ==
  ASSUME NEW C, NEW p \in Tokens(C), NEW t \in States(C)
  PROVE  Skip(t) \in States(C) /\ With(p, Skip(t)) = Skip(With(p, t))
<1> DEFINE T == t.tokens
           b == t.buf
           q == t.quote
           k == t.skip
<1>1. t = State(T, b, q, k) /\ T \in Tokens(C) /\ b \in Seq(C) /\ q \in Quotes /\ k \in BOOLEAN
  BY StateIs
<1> HIDE DEF T, b, q, k
<1>2. Skip(t) = State(T, b, q, TRUE)
  BY <1>1, SkipIs
<1>3. With(p, t) = State(Kept(Cat(p, T)), b, q, k)
  BY <1>1, WithIs
<1>4. Skip(With(p, t)) = State(Kept(Cat(p, T)), b, q, TRUE)
  BY <1>3, SkipIs
<1>5. TRUE \in BOOLEAN
  OBVIOUS
<1>6. With(p, Skip(t)) = State(Kept(Cat(p, T)), b, q, TRUE)
  BY <1>1, <1>2, <1>5, WithIs
<1>7. Skip(t) \in States(C)
  <2> DEFINE j == TRUE
  <2>1. j \in BOOLEAN
    OBVIOUS
  <2>2. Skip(t) = State(T, b, q, j)
    BY <1>2
  <2> HIDE DEF j
  <2> QED
    BY <1>1, <2>1, <2>2, StateIs
<1> QED
  BY <1>4, <1>6, <1>7

LEMMA AddTokenKeeps ==
  ASSUME NEW C, NEW p \in Tokens(C), NEW t \in States(C),
         NEW token \in [type : Kinds, value : Seq(C)]
  PROVE  AddToken(t, token) \in States(C) /\ With(p, AddToken(t, token)) = AddToken(With(p, t), token)
<1> DEFINE T == t.tokens
           b == t.buf
           q == t.quote
           k == t.skip
<1>1. t = State(T, b, q, k) /\ T \in Tokens(C) /\ b \in Seq(C) /\ q \in Quotes /\ k \in BOOLEAN
  BY StateIs
<1> HIDE DEF T, b, q, k
<1>2. AddToken(t, token) = State(Added(T, token), b, q, k)
  BY <1>1, Primitives
<1>3. With(p, t) = State(Kept(Cat(p, T)), b, q, k)
  BY <1>1, WithIs
<1>4. AddToken(With(p, t), token) = State(Added(Kept(Cat(p, T)), token), b, q, k)
  BY <1>3, Primitives
<1>5. With(p, AddToken(t, token)) = State(Kept(Cat(p, Added(T, token))), b, q, k)
  BY <1>1, <1>2, WithIs
<1>6. Kept(Cat(p, Added(T, token))) = Added(Kept(Cat(p, T)), token)
  BY <1>1, TokensBehind
<1>7. AddToken(t, token) \in States(C)
  BY <1>1, <1>2, AddedIsTokens, StateIs
<1> QED
  BY <1>4, <1>5, <1>6, <1>7

LEMMA FlushKeeps ==
  ASSUME NEW C, NEW p \in Tokens(C), NEW t \in States(C)
  PROVE  Flush(t) \in States(C) /\ With(p, Flush(t)) = Flush(With(p, t))
<1> DEFINE T == t.tokens
           b == t.buf
           q == t.quote
           k == t.skip
<1>1. t = State(T, b, q, k) /\ T \in Tokens(C) /\ b \in Seq(C) /\ q \in Quotes /\ k \in BOOLEAN
  BY StateIs
<1> HIDE DEF T, b, q, k
<1>2. With(p, t) = State(Kept(Cat(p, T)), b, q, k)
  BY <1>1, WithIs
<1>3. CASE b = <<>>
  BY <1>1, <1>2, <1>3, FlushIs
<1>4. CASE b # <<>>
  <2> DEFINE w == Word(b)
             none == <<>>
  <2>1. w \in [type : Kinds, value : Seq(C)] /\ none \in Seq(C)
    BY <1>1, WordIsToken
  <2>2. /\ Flush(t) = State(Added(T, w), none, q, k)
        /\ Flush(With(p, t)) = State(Added(Kept(Cat(p, T)), w), none, q, k)
    BY <1>1, <1>2, <1>4, FlushIs
  <2> HIDE DEF w, none
  <2>3. With(p, Flush(t)) = State(Kept(Cat(p, Added(T, w))), none, q, k)
    BY <1>1, <2>2, WithIs
  <2>4. Kept(Cat(p, Added(T, w))) = Added(Kept(Cat(p, T)), w)
    BY <1>1, <2>1, TokensBehind
  <2>5. Flush(t) \in States(C)
    BY <1>1, <2>1, <2>2, AddedIsTokens, StateIs
  <2> QED
    BY <2>2, <2>3, <2>4, <2>5
<1> QED
  BY <1>3, <1>4

LEMMA TakeKeeps ==
  ASSUME NEW C, NEW p \in Tokens(C), NEW t \in States(C), NEW c \in C, NEW next \in C
  PROVE  Take(t, c, next) \in States(C) /\ With(p, Take(t, c, next)) = Take(With(p, t), c, next)
<1> DEFINE u == With(p, t)
<1>1. u.quote = t.quote /\ t.quote \in Quotes
  BY StateIs, StateHas DEF With
<1> HIDE DEF u
<1>2. /\ Put(t, c) \in States(C) /\ With(p, Put(t, c)) = Put(u, c)
      /\ Put(t, next) \in States(C) /\ With(p, Put(t, next)) = Put(u, next)
      /\ Flush(t) \in States(C) /\ With(p, Flush(t)) = Flush(u)
      /\ \A r \in Quotes : Quote(t, r) \in States(C) /\ With(p, Quote(t, r)) = Quote(u, r)
  BY PutKeeps, FlushKeeps, QuoteKeeps DEF u
<1>3. End \in Quotes /\ SingleQuote \in Quotes /\ DoubleQuote \in Quotes
  BY DEF Quotes
<1>4. Skip(Put(t, next)) \in States(C) /\ With(p, Skip(Put(t, next))) = Skip(Put(u, next))
  BY <1>2, SkipKeeps
<1>5. CASE t.quote = SingleQuote
  <2>1. CASE c = SingleQuote
    BY <1>1, <1>2, <1>3, <1>5, <2>1, InsideSingle DEF u
  <2>2. CASE c # SingleQuote
    BY <1>1, <1>2, <1>3, <1>5, <2>2, InsideSingle DEF u
  <2> QED
    BY <2>1, <2>2
<1>6. CASE t.quote = DoubleQuote
  <2>1. CASE c = DoubleQuote
    BY <1>1, <1>2, <1>3, <1>6, <2>1, InsideDouble DEF u
  <2>2. CASE c = Escape /\ next # End
    BY <1>1, <1>4, <1>6, <2>2, InsideDouble DEF u
  <2>3. CASE c # DoubleQuote /\ ~ (c = Escape /\ next # End)
    BY <1>1, <1>2, <1>6, <2>3, InsideDouble DEF u
  <2> QED
    BY <2>1, <2>2, <2>3
<1>7. CASE t.quote = End
  <2>1. CASE c = Escape /\ next # End
    BY <1>1, <1>4, <1>7, <2>1, Outside DEF u
  <2>2. CASE c = Escape /\ next = End
    BY <1>1, <1>2, <1>7, <2>2, Outside DEF u
  <2>3. CASE c = SingleQuote \/ c = DoubleQuote
    BY <1>1, <1>2, <1>3, <1>7, <2>3, Outside DEF u
  <2>4. CASE c \in SpaceChar
    BY <1>1, <1>2, <1>7, <2>4, Outside DEF u
  <2>5. CASE Doubled(c, next)
    <3> DEFINE token == DoubleOp(c, next)
    <3>1. token \in [type : Kinds, value : Seq(C)]
      BY OpIsToken
    <3>2. Take(t, c, next) = Skip(AddToken(Flush(t), token))
      BY <1>7, <2>5, Outside
    <3>3. Take(u, c, next) = Skip(AddToken(Flush(u), token))
      BY <1>1, <1>7, <2>5, Outside
    <3> HIDE DEF token
    <3>4. AddToken(Flush(t), token) \in States(C)
          /\ With(p, AddToken(Flush(t), token)) = AddToken(Flush(u), token)
      BY <1>2, <3>1, AddTokenKeeps
    <3>5. Take(t, c, next) \in States(C) /\ With(p, Take(t, c, next)) = Take(u, c, next)
      BY <3>2, <3>3, <3>4, SkipKeeps
    <3> QED
      BY <3>5 DEF u
  <2>6. CASE c \in Operator1 /\ ~ Doubled(c, next)
    <3> DEFINE token == SingleOp(c)
    <3>1. token \in [type : Kinds, value : Seq(C)]
      BY OpIsToken
    <3>2. Take(t, c, next) = AddToken(Flush(t), token)
      BY <1>7, <2>6, Outside
    <3>3. Take(u, c, next) = AddToken(Flush(u), token)
      BY <1>1, <1>7, <2>6, Outside
    <3> HIDE DEF token
    <3>4. AddToken(Flush(t), token) \in States(C)
          /\ With(p, AddToken(Flush(t), token)) = AddToken(Flush(u), token)
      BY <1>2, <3>1, AddTokenKeeps
    <3> QED
      BY <3>2, <3>3, <3>4 DEF u
  <2>7. CASE c \notin Special
    BY <1>1, <1>2, <1>7, <2>7, Outside DEF u
  <2>8. c \in Special => \/ c = Escape \/ c = SingleQuote \/ c = DoubleQuote
                         \/ c \in SpaceChar \/ c \in Operator1
    BY DEF Special
  <2> QED
    BY <2>1, <2>2, <2>3, <2>4, <2>5, <2>6, <2>7, <2>8
<1>8. t.quote = SingleQuote \/ t.quote = DoubleQuote \/ t.quote = End
  BY <1>1 DEF Quotes
<1> QED
  BY <1>5, <1>6, <1>7, <1>8

LEMMA TurnKeeps ==
  ASSUME NEW C, NEW p \in Tokens(C), NEW t \in States(C), NEW c \in C, NEW next \in C
  PROVE  /\ Turn(t, <<c, next>>) \in States(C)
         /\ With(p, Turn(t, <<c, next>>)) = Turn(With(p, t), <<c, next>>)
<1> DEFINE T == t.tokens
           b == t.buf
           q == t.quote
           k == t.skip
           V == Kept(Cat(p, T))
<1>1. t = State(T, b, q, k) /\ T \in Tokens(C) /\ b \in Seq(C) /\ q \in Quotes /\ k \in BOOLEAN
  BY StateIs
<1> HIDE DEF T, b, q, k, V
<1>2. With(p, State(T, b, q, TRUE)) = State(V, b, q, TRUE)
  <2>1. TRUE \in BOOLEAN
    OBVIOUS
  <2> QED
    BY <2>1, WithIs DEF V
<1>3. With(p, State(T, b, q, FALSE)) = State(V, b, q, FALSE)
  <2>1. FALSE \in BOOLEAN
    OBVIOUS
  <2> QED
    BY <2>1, WithIs DEF V
<1>4. State(T, b, q, FALSE) \in States(C)
  <2> DEFINE j == FALSE
  <2>1. j \in BOOLEAN
    OBVIOUS
  <2> HIDE DEF j
  <2>2. State(T, b, q, j) \in States(C)
    BY <1>1, <2>1, StateIs
  <2> QED
    BY <2>2 DEF j
<1>5. CASE k = TRUE
  <2>1. t = State(T, b, q, TRUE)
    BY <1>1, <1>5
  <2>2. Turn(t, <<c, next>>) = State(T, b, q, FALSE)
    BY <2>1, TurnIs
  <2>3. Turn(With(p, t), <<c, next>>) = State(V, b, q, FALSE)
    <3> DEFINE u == With(p, t)
    <3>1. u = State(V, b, q, TRUE)
      BY <1>2, <2>1
    <3> HIDE DEF u
    <3>2. Turn(u, <<c, next>>) = State(V, b, q, FALSE)
      BY <3>1, TurnIs
    <3> QED
      BY <3>2 DEF u
  <2> QED
    BY <1>3, <1>4, <2>2, <2>3
<1>6. CASE k = FALSE
  <2>1. t = State(T, b, q, FALSE)
    BY <1>1, <1>6
  <2>2. Turn(t, <<c, next>>) = Take(t, c, next)
    BY <2>1, TurnIs
  <2>3. Turn(With(p, t), <<c, next>>) = Take(With(p, t), c, next)
    <3> DEFINE u == With(p, t)
    <3>1. u = State(V, b, q, FALSE)
      BY <1>3, <2>1
    <3> HIDE DEF u
    <3>2. Turn(u, <<c, next>>) = Take(u, c, next)
      BY <3>1, TurnIs
    <3> QED
      BY <3>2 DEF u
  <2> QED
    BY <2>2, <2>3, TakeKeeps
<1> QED
  BY <1>1, <1>5, <1>6

(* A whole text, whatever is behind it. *)
LEMMA ReadKeeps ==
  ASSUME NEW C, NEW p \in Tokens(C), NEW t \in States(C)
  PROVE  \A s \in Seq(C) : \A next \in C :
            /\ Read(t, s, next) \in States(C)
            /\ Read(With(p, t), s, next) = With(p, Read(t, s, next))
<1> DEFINE T == {s \in Seq(C) : \A next \in C :
                    /\ Read(t, s, next) \in States(C)
                    /\ Read(With(p, t), s, next) = With(p, Read(t, s, next))}
<1>1. <<>> \in T
  <2>1. <<>> \in Seq(C)
    OBVIOUS
  <2> QED
    BY <2>1, ReadEmpty
<1>2. ASSUME NEW s \in Seq(C), NEW c \in C, s \in T
      PROVE  Append(s, c) \in T
  <2> SUFFICES ASSUME NEW next \in C
               PROVE  /\ Read(t, Append(s, c), next) \in States(C)
                      /\ Read(With(p, t), Append(s, c), next) = With(p, Read(t, Append(s, c), next))
    BY AppendProperties
  <2>1. Read(t, s, c) \in States(C) /\ Read(With(p, t), s, c) = With(p, Read(t, s, c))
    BY <1>2
  <2>2. /\ Read(t, Append(s, c), next) = Turn(Read(t, s, c), <<c, next>>)
        /\ Read(With(p, t), Append(s, c), next) = Turn(Read(With(p, t), s, c), <<c, next>>)
    BY ReadAppend
  <2> QED
    BY <2>1, <2>2, TurnKeeps
<1> HIDE DEF T
<1>3. \A s \in Seq(C) : s \in T
  BY <1>1, <1>2, Turning!SequenceInduction
<1> QED
  BY <1>3 DEF T

-----------------------------------------------------------------------------
(* The tokenizer between two words, and behind a part of one. *)
Within(p, word) == State(p, word, End, FALSE)
Between(p)      == Within(p, <<>>)
Alphabet(C)     == {End, Space, SingleQuote, Escape} \cup SafeChar \subseteq C

LEMMA StartIs == Start = Between(<<>>)
BY DEF Start, Between, Within, State, End

LEMMA WithinHas ==
  ASSUME NEW p, NEW word
  PROVE  /\ Within(p, word).tokens = p /\ Within(p, word).buf = word
         /\ Within(p, word).quote = End /\ ~ Within(p, word).skip
         /\ Between(p).tokens = p
BY DEF Within, Between, State

LEMMA WithinIsState ==
  ASSUME NEW C, NEW p \in Tokens(C), NEW word \in Seq(C)
  PROVE  Within(p, word) \in States(C)
<1> DEFINE j == FALSE
<1>1. j \in BOOLEAN /\ End \in Quotes
  BY DEF Quotes
<1> HIDE DEF j
<1>2. State(p, word, End, j) \in States(C)
  BY <1>1, StateIs
<1> QED
  BY <1>2 DEF Within, j

LEMMA FlushWithin ==
  ASSUME NEW p, NEW word
  PROVE  /\ Flush(Between(p)) = Between(p)
         /\ word # <<>> => Flush(Within(p, word)) = Between(Added(p, Word(word)))
<1>1. ASSUME NEW b, NEW k
      PROVE  /\ b = <<>> => Flush(State(p, b, End, k)) = State(p, b, End, k)
             /\ b # <<>> => Flush(State(p, b, End, k)) = State(Added(p, Word(b)), <<>>, End, k)
  BY FlushIs
<1>2. Flush(State(p, <<>>, End, FALSE)) = State(p, <<>>, End, FALSE)
  BY <1>1
<1>3. word # <<>> =>
        Flush(State(p, word, End, FALSE)) = State(Added(p, Word(word)), <<>>, End, FALSE)
  BY <1>1
<1> QED
  BY <1>2, <1>3 DEF Within, Between

LEMMA NoTokens ==
  ASSUME NEW C
  PROVE  <<>> \in Tokens(C) /\ <<>> \in Seq(C) /\ Start \in States(C)
<1>1. <<>> \in Tokens(C) /\ <<>> \in Seq(C)
  BY DEF Tokens
<1>2. Start \in States(C)
  BY <1>1, WithinIsState, StartIs DEF Between
<1> QED
  BY <1>1, <1>2

(* What is read from between two words. *)
LEMMA Resumed ==
  ASSUME NEW C, End \in C, NEW p \in Tokens(C), Len(p) <= MaxTokens, NEW rest \in Seq(C)
  PROVE  /\ Tokenize(rest) \in Tokens(C)
         /\ Flush(Read(Between(p), rest, End)).tokens = Kept(Cat(p, Tokenize(rest)))
<1> DEFINE r == Read(Start, rest, End)
           X == [type : Kinds, value : Seq(C)]
<1>1. Tokenize(rest) = Flush(r).tokens
  BY ReadIsAFold DEF Tokenize
<1>2. r \in States(C) /\ Read(With(p, Start), rest, End) = With(p, r)
  BY NoTokens, ReadKeeps
<1>3. With(p, Start) = Between(p)
  <2> DEFINE none == <<>>
             no   == FALSE
  <2>1. p \in Seq(X)
    BY DEF Tokens
  <2>2. no \in BOOLEAN /\ Start = State(none, none, End, no)
    BY StartIs DEF Between, Within
  <2>3. Cat(p, none) = p
    BY <2>1, ConcatEmptySeq DEF Cat
  <2>4. Between(p) = State(p, none, End, no)
    BY DEF Between, Within
  <2> HIDE DEF none, no, X
  <2>5. With(p, Start) = State(Kept(Cat(p, none)), none, End, no)
    BY <2>2, WithIs
  <2>6. Kept(p) = p
    BY <2>1, KeptHas
  <2> QED
    BY <2>3, <2>4, <2>5, <2>6
<1> HIDE DEF r, X
<1>4. Flush(r) \in States(C) /\ With(p, Flush(r)) = Flush(With(p, r))
  BY <1>2, FlushKeeps
<1>5. Flush(r).tokens \in Tokens(C)
  BY <1>4, StateIs
<1>6. With(p, Flush(r)).tokens = Kept(Cat(p, Flush(r).tokens))
  BY StateHas DEF With
<1> QED
  BY <1>1, <1>2, <1>3, <1>4, <1>5, <1>6

LEMMA TokensFit ==
  ASSUME NEW C, End \in C, NEW line \in Seq(C)
  PROVE  Len(Tokenize(line)) <= MaxTokens /\ Kept(Tokenize(line)) = Tokenize(line)
<1> DEFINE X == [type : Kinds, value : Seq(C)]
           words == Tokenize(line)
           none  == <<>>
<1>1. none \in Tokens(C) /\ Len(none) <= MaxTokens
  BY RoomForTokens, NoTokens
<1>2. words \in Tokens(C) /\ Flush(Read(Between(none), line, End)).tokens = Kept(Cat(none, words))
  <2> HIDE DEF none
  <2> QED
    BY <1>1, Resumed
<1>3. words = Flush(Read(Between(none), line, End)).tokens
  BY ReadIsAFold, StartIs DEF Tokenize
<1>4. words \in Seq(X)
  BY <1>2 DEF Tokens
<1>5. Cat(none, words) = words
  BY <1>4, ConcatEmptySeq DEF Cat
<1>6. words = Kept(words)
  BY <1>2, <1>3, <1>5
<1> HIDE DEF words, X
<1>7. Len(Kept(words)) <= MaxTokens
  BY <1>4, KeptHas, RoomForTokens
<1> QED
  BY <1>6, <1>7 DEF words

(* Spaces end a word, and are nothing between words. *)
AfterSpaces(t, spaces) == IF spaces = <<>> THEN t ELSE Flush(t)

LEMMA SpacesEndAWord ==
  ASSUME NEW C, Space \in C, NEW p, NEW word
  PROVE  \A spaces \in Seq({Space}) : \A next \in C :
            Read(Within(p, word), spaces, next) = AfterSpaces(Within(p, word), spaces)
<1> DEFINE t == Within(p, word)
           T == {s \in Seq({Space}) : \A next \in C :
                    Read(t, s, next) = IF s = <<>> THEN t ELSE Flush(t)}
<1>1. <<>> \in T
  BY ReadEmpty
<1>2. \A s \in Seq({Space}) : s \in Seq(C)
  BY SeqMonotonic
<1>3. \A next : /\ Turn(t, <<Space, next>>) = Flush(t)
                /\ Turn(Flush(t), <<Space, next>>) = Flush(t)
  <2>1. \A q, u, next : Turn(Within(q, u), <<Space, next>>) = Flush(Within(q, u))
    <3> SUFFICES ASSUME NEW q, NEW u, NEW next
                 PROVE  Turn(Within(q, u), <<Space, next>>) = Flush(Within(q, u))
      BY Zenon
    <3>1. Turn(Within(q, u), <<Space, next>>) = Take(Within(q, u), Space, next)
      BY TurnIs DEF Within
    <3>2. Space \in SpaceChar /\ Within(q, u).quote = End
      BY QuotesDiffer, WithinHas
    <3> QED
      BY <3>1, <3>2, Outside
  <2>2. \E q : Flush(t) = Between(q) \/ (Flush(t) = t /\ t = Between(q))
    BY FlushWithin DEF Between
  <2>3. PICK q : Flush(t) = Between(q)
    BY <2>2
  <2>4. Flush(Flush(t)) = Flush(t)
    BY <2>3, FlushWithin
  <2> QED
    BY <2>1, <2>3, <2>4 DEF Between
<1> HIDE DEF t
<1>4. ASSUME NEW s \in Seq({Space}), NEW c \in {Space}, s \in T
      PROVE  Append(s, c) \in T
  <2>1. Append(s, c) \in Seq({Space}) /\ Append(s, c) # <<>>
    BY AppendProperties
  <2> SUFFICES ASSUME NEW next \in C
               PROVE  Read(t, Append(s, c), next) = Flush(t)
    BY <2>1
  <2>2. c = Space /\ c \in C /\ s \in Seq(C)
    BY <1>2
  <2>3. Read(t, s, c) = IF s = <<>> THEN t ELSE Flush(t)
    BY <1>4, <2>2
  <2>4. Read(t, Append(s, c), next) = Turn(Read(t, s, c), <<c, next>>)
    BY <2>2, ReadAppend
  <2> QED
    BY <1>3, <2>2, <2>3, <2>4
<1> HIDE DEF T
<1>5. \A s \in Seq({Space}) : s \in T
  BY <1>1, <1>4, Turning!SequenceInduction
<1> QED
  BY <1>5, Zenon DEF T, t, AfterSpaces

LEMMA PutWithin ==
  ASSUME NEW C, NEW p, NEW word \in Seq(C), NEW c \in C, Len(Append(word, c)) < TokenMaxLen
  PROVE  /\ \A q, k : Put(State(p, word, q, k), c) = State(p, Append(word, c), q, k)
         /\ Len(word) < TokenMaxLen
<1>1. Len(Append(word, c)) = Len(word) + 1 /\ Len(word) \in Nat /\ TokenMaxLen \in Nat
  BY AppendProperties, LenProperties, RoomForTokens
<1>2. Len(word) < TokenMaxLen - 1 /\ Len(word) < TokenMaxLen
  BY <1>1
<1>3. Longer(word, c) = Append(word, c)
  BY <1>2 DEF Longer
<1>4. \A q, k : Put(State(p, word, q, k), c) = State(p, Longer(word, c), q, k)
  BY Primitives
<1> QED
  BY <1>2, <1>3, <1>4, Zenon

(* Safe characters are the word they are. *)
LEMMA SafeWordIsRead ==
  ASSUME NEW C, SafeChar \subseteq C, NEW p
  PROVE  \A word \in Seq(SafeChar) : \A next \in C : Len(word) < TokenMaxLen =>
            Read(Between(p), word, next) = Within(p, word)
<1> DEFINE T == {s \in Seq(SafeChar) : \A next \in C : Len(s) < TokenMaxLen =>
                    Read(Between(p), s, next) = Within(p, s)}
<1>1. <<>> \in T
  BY ReadEmpty DEF Between
<1>2. \A s \in Seq(SafeChar) : s \in Seq(C)
  BY SeqMonotonic
<1>3. ASSUME NEW s \in Seq(SafeChar), NEW c \in SafeChar, s \in T
      PROVE  Append(s, c) \in T
  <2>1. Append(s, c) \in Seq(SafeChar)
    BY AppendProperties
  <2> SUFFICES ASSUME NEW next \in C, Len(Append(s, c)) < TokenMaxLen
               PROVE  Read(Between(p), Append(s, c), next) = Within(p, Append(s, c))
    BY <2>1
  <2>2. c \in C /\ s \in Seq(C)
    BY <1>2
  <2>3. /\ \A q, k : Put(State(p, s, q, k), c) = State(p, Append(s, c), q, k)
        /\ Len(s) < TokenMaxLen
    BY <2>2, PutWithin
  <2>4. Read(Between(p), s, c) = Within(p, s)
    BY <1>3, <2>2, <2>3
  <2>5. Read(Between(p), Append(s, c), next) = Turn(Within(p, s), <<c, next>>)
    BY <2>2, <2>4, ReadAppend
  <2>6. Turn(Within(p, s), <<c, next>>) = Take(Within(p, s), c, next)
    BY TurnIs DEF Within
  <2>7. Take(Within(p, s), c, next) = Put(Within(p, s), c)
    <3>1. Within(p, s).quote = End /\ c \notin Special
      BY KindsDiffer, WithinHas DEF Special
    <3> QED
      BY <3>1, Outside
  <2>8. Put(Within(p, s), c) = Within(p, Append(s, c))
    BY <2>3 DEF Within
  <2> QED
    BY <2>5, <2>6, <2>7, <2>8
<1> HIDE DEF T
<1>4. \A s \in Seq(SafeChar) : s \in T
  BY <1>1, <1>3, Turning!SequenceInduction
<1> QED
  BY <1>4 DEF T

-----------------------------------------------------------------------------
(* Quoting. *)
Quoting    == INSTANCE FoldFacts WITH Step <- PutQuoted, Good <- Whole
Opened(s)  == FoldLeft(PutQuoted, <<SingleQuote>>, s)

LEMMA OpenedIsAFold == \A s : Opened(s) = Quoting!Folded(<<SingleQuote>>, s)
BY DEF Opened, Quoting!Folded, FoldLeft, Quoting!FoldLeft,
       MapThenFoldSet, Quoting!MapThenFoldSet, Max, Quoting!Max

LEMMA OpenedStep ==
  /\ Opened(<<>>) = <<SingleQuote>>
  /\ \A C : \A s \in Seq(C), c \in C : Opened(Append(s, c)) = Opened(s) \o QuotedChar(c)
<1>1. Opened(<<>>) = <<SingleQuote>>
  BY OpenedIsAFold, Quoting!FoldedEmpty
<1>2. ASSUME NEW C, NEW s \in Seq(C), NEW c \in C
      PROVE  Opened(Append(s, c)) = Opened(s) \o QuotedChar(c)
  <2> DEFINE base == <<SingleQuote>>
  <2>1. Opened(Append(s, c)) = Quoting!Folded(base, Append(s, c))
        /\ Opened(s) = Quoting!Folded(base, s)
    BY OpenedIsAFold
  <2> HIDE DEF base
  <2>2. Quoting!Folded(base, Append(s, c)) = PutQuoted(Quoting!Folded(base, s), c)
    BY Quoting!FoldedAppend
  <2>3. Opened(Append(s, c)) = PutQuoted(Opened(s), c)
    BY <2>1, <2>2
  <2> QED
    BY <2>3 DEF PutQuoted
<1> QED
  BY <1>1, <1>2

(* The four characters for a quote, one by one. *)
LEMMA OpenedAppends ==
  ASSUME NEW C, SingleQuote \in C, Escape \in C, NEW s \in Seq(C), NEW c \in C, Opened(s) \in Seq(C)
  PROVE  /\ c # SingleQuote => Opened(Append(s, c)) = Append(Opened(s), c)
         /\ c = SingleQuote => Opened(Append(s, c)) =
               Append(Append(Append(Append(Opened(s), SingleQuote), Escape), SingleQuote), SingleQuote)
<1> DEFINE o == Opened(s)
           q == SingleQuote
           e == Escape
<1>1. Opened(Append(s, c)) = o \o QuotedChar(c)
  BY OpenedStep
<1>2. c # q => QuotedChar(c) = <<c>>
  BY DEF QuotedChar
<1>3. c = q => QuotedChar(c) = <<q, e, q, q>>
  BY DEF QuotedChar
<1>4. o \in Seq(C) /\ q \in C /\ e \in C
  OBVIOUS
<1> HIDE DEF o, q, e
<1>5. o \o <<c>> = Append(o, c)
  BY <1>4, AppendIsConcat
<1>6. o \o <<q, e, q, q>> = Append(Append(Append(Append(o, q), e), q), q)
  <2>1. <<q, e, q, q>> = Append(Append(Append(<<q>>, e), q), q)
    BY <1>4
  <2>2. \A u \in Seq(C), d \in C : u \in Seq(C) /\ Append(u, d) \in Seq(C) /\ o \o Append(u, d) = Append(o \o u, d)
    <3> SUFFICES ASSUME NEW u \in Seq(C), NEW d \in C
                 PROVE  Append(u, d) \in Seq(C) /\ o \o Append(u, d) = Append(o \o u, d)
      OBVIOUS
    <3>1. <<d>> \in Seq(C) /\ o \o u \in Seq(C) /\ Append(u, d) \in Seq(C)
      BY <1>4
    <3>2. Append(u, d) = u \o <<d>> /\ Append(o \o u, d) = (o \o u) \o <<d>>
      BY <3>1, AppendIsConcat
    <3> QED
      BY <1>4, <3>1, <3>2, ConcatAssociative
  <2>3. <<q>> \in Seq(C) /\ o \o <<q>> = Append(o, q)
    BY <1>4, AppendIsConcat
  <2> DEFINE u1 == <<q>>
             u2 == Append(u1, e)
             u3 == Append(u2, q)
  <2>4. u1 \in Seq(C) /\ u2 \in Seq(C) /\ u3 \in Seq(C)
    BY <1>4, <2>2, <2>3
  <2>5. o \o Append(u3, q) = Append(Append(Append(o \o u1, e), q), q)
    <3>1. o \o Append(u3, q) = Append(o \o u3, q)
      <4> HIDE DEF u3
      <4> QED
        BY <1>4, <2>2, <2>4
    <3>2. o \o u3 = Append(o \o u2, q)
      <4> HIDE DEF u2
      <4> QED
        BY <1>4, <2>2, <2>4
    <3>3. o \o u2 = Append(o \o u1, e)
      <4> HIDE DEF u1
      <4> QED
        BY <1>4, <2>2, <2>4
    <3> HIDE DEF u1, u2, u3
    <3> QED
      BY <3>1, <3>2, <3>3, Zenon
  <2> QED
    BY <2>1, <2>3, <2>5
<1> QED
  BY <1>1, <1>2, <1>3, <1>5, <1>6 DEF o, q, e

(* The shell reads what shell_quote writes. *)
Shelling == INSTANCE FoldFacts WITH Step <- ShellTurn, Good <- Whole
ShellRead(r, s) == Shelling!Folded(r, s)

LEMMA ShellReadIsAFold == \A r, s : FoldLeft(ShellTurn, r, s) = ShellRead(r, s)
BY DEF ShellRead, Shelling!Folded, FoldLeft, Shelling!FoldLeft,
       MapThenFoldSet, Shelling!MapThenFoldSet, Max, Shelling!Max

LEMMA ShellReadSteps ==
  /\ \A r : ShellRead(r, <<>>) = r
  /\ \A C, r : \A s \in Seq(C), c \in C : ShellRead(r, Append(s, c)) = ShellTurn(ShellRead(r, s), c)
  /\ \A C, r : \A s, t \in Seq(C) : ShellRead(r, Cat(s, t)) = ShellRead(ShellRead(r, s), t)
<1>1. \A r : ShellRead(r, <<>>) = r
  BY Shelling!FoldedEmpty DEF ShellRead
<1>2. ASSUME NEW C, NEW s \in Seq(C), NEW c \in C, NEW r
      PROVE  ShellRead(r, Append(s, c)) = ShellTurn(ShellRead(r, s), c)
  BY Shelling!FoldedAppend DEF ShellRead
<1>3. ASSUME NEW C, NEW s \in Seq(C), NEW t \in Seq(C), NEW r
      PROVE  ShellRead(r, Cat(s, t)) = ShellRead(ShellRead(r, s), t)
  BY Shelling!FoldedConcat DEF ShellRead, Cat
<1> QED
  BY <1>1, <1>2, <1>3, Zenon

LEMMA ReaderHas ==
  \A ws, w, m : Reader(ws, w, m).words = ws /\ Reader(ws, w, m).word = w /\ Reader(ws, w, m).mode = m
BY DEF Reader

(* One turn, in quotes, behind a backslash, and outside of quotes. *)
LEMMA ShellTurns ==
  ASSUME NEW ws, NEW w
  PROVE  /\ \A c : c # SingleQuote =>
               ShellTurn(Reader(ws, w, "quoted"), c) = Reader(ws, Append(w, c), "quoted")
         /\ ShellTurn(Reader(ws, w, "quoted"), SingleQuote) = Reader(ws, w, "word")
         /\ \A c : ShellTurn(Reader(ws, w, "escaped"), c) = Reader(ws, Append(w, c), "word")
         /\ \A m \in {"between", "word"} :
               /\ ShellTurn(Reader(ws, w, m), SingleQuote) = Reader(ws, w, "quoted")
               /\ ShellTurn(Reader(ws, w, m), Escape) = Reader(ws, w, "escaped")
               /\ ShellTurn(Reader(ws, w, m), Space) = EndWord(Reader(ws, w, m))
               /\ \A c \in SafeChar : ShellTurn(Reader(ws, w, m), c) = Reader(ws, Append(w, c), "word")
<1>1. ASSUME NEW c, c # SingleQuote
      PROVE  ShellTurn(Reader(ws, w, "quoted"), c) = Reader(ws, Append(w, c), "quoted")
  BY <1>1, ReaderHas DEF ShellTurn
<1>2. ShellTurn(Reader(ws, w, "quoted"), SingleQuote) = Reader(ws, w, "word")
  BY ReaderHas DEF ShellTurn
<1>3. ASSUME NEW c
      PROVE  ShellTurn(Reader(ws, w, "escaped"), c) = Reader(ws, Append(w, c), "word")
  BY ReaderHas DEF ShellTurn
<1>4. ASSUME NEW m \in {"between", "word"}
      PROVE  /\ ShellTurn(Reader(ws, w, m), SingleQuote) = Reader(ws, w, "quoted")
             /\ ShellTurn(Reader(ws, w, m), Escape) = Reader(ws, w, "escaped")
             /\ ShellTurn(Reader(ws, w, m), Space) = EndWord(Reader(ws, w, m))
             /\ \A c \in SafeChar : ShellTurn(Reader(ws, w, m), c) = Reader(ws, Append(w, c), "word")
  <2>1. /\ Reader(ws, w, m).mode = m /\ Reader(ws, w, m).words = ws /\ Reader(ws, w, m).word = w
        /\ m # "quoted" /\ m # "escaped"
    BY ReaderHas
  <2>2. SingleQuote # Escape /\ Space \in SpaceChar
    BY QuotesDiffer
  <2>3. /\ \A d \in SpaceChar : d # SingleQuote /\ d # Escape
        /\ \A d \in SafeChar : d \notin SpaceChar /\ d # SingleQuote /\ d # Escape
    BY KindsDiffer
  <2>4. ShellTurn(Reader(ws, w, m), SingleQuote) = Reader(ws, w, "quoted")
    BY <2>1, <2>2, <2>3 DEF ShellTurn
  <2>5. ShellTurn(Reader(ws, w, m), Escape) = Reader(ws, w, "escaped")
    BY <2>1, <2>2, <2>3 DEF ShellTurn
  <2>6. ShellTurn(Reader(ws, w, m), Space) = EndWord(Reader(ws, w, m))
    BY <2>1, <2>2, <2>3 DEF ShellTurn
  <2>7. ASSUME NEW c \in SafeChar
        PROVE  ShellTurn(Reader(ws, w, m), c) = Reader(ws, Append(w, c), "word")
    BY <2>1, <2>2, <2>3 DEF ShellTurn
  <2> QED
    BY <2>4, <2>5, <2>6, <2>7
<1> QED
  BY <1>1, <1>2, <1>3, <1>4

(* Up to the closing quote the text was read as it is. *)
LEMMA OpenedIsRead ==
  ASSUME NEW C, SingleQuote \in C, Escape \in C, NEW ws
  PROVE  \A s \in Seq(C) :
            /\ Opened(s) \in Seq(C) /\ Len(Opened(s)) <= 4 * Len(s) + 1
            /\ ShellRead(Reader(ws, <<>>, "between"), Opened(s)) = Reader(ws, s, "quoted")
<1> DEFINE r == Reader(ws, <<>>, "between")
           T == {s \in Seq(C) :
                    /\ Opened(s) \in Seq(C) /\ Len(Opened(s)) <= 4 * Len(s) + 1
                    /\ ShellRead(r, Opened(s)) = Reader(ws, s, "quoted")}
<1>1. <<>> \in T
  <2>1. Opened(<<>>) = Append(<<>>, SingleQuote) /\ Append(<<>>, SingleQuote) \in Seq(C)
        /\ Len(Append(<<>>, SingleQuote)) = 1 /\ <<>> \in Seq(C) /\ Len(<<>>) = 0
    BY OpenedStep
  <2>2. ShellRead(r, Append(<<>>, SingleQuote)) = ShellTurn(ShellRead(r, <<>>), SingleQuote)
    <3> DEFINE none == <<>>
    <3>1. none \in Seq(C)
      OBVIOUS
    <3> HIDE DEF none, r
    <3>2. ShellRead(r, Append(none, SingleQuote)) = ShellTurn(ShellRead(r, none), SingleQuote)
      BY <3>1, ShellReadSteps
    <3> QED
      BY <3>2 DEF none
  <2>3. ShellRead(r, <<>>) = r /\ ShellTurn(r, SingleQuote) = Reader(ws, <<>>, "quoted")
    BY ShellReadSteps, ShellTurns
  <2> DEFINE none == <<>>
             o    == Append(none, SingleQuote)
  <2>4. none \in Seq(C) /\ Opened(none) = o /\ o \in Seq(C) /\ Len(o) = 1 /\ Len(none) = 0
        /\ ShellRead(r, o) = Reader(ws, none, "quoted")
    BY <2>1, <2>2, <2>3
  <2> HIDE DEF none, o, r
  <2>5. Len(Opened(none)) <= 4 * Len(none) + 1
    BY <2>4
  <2>6. none \in T
    BY <2>4, <2>5
  <2> QED
    BY <2>6 DEF none
<1>2. ASSUME NEW s \in Seq(C), NEW c \in C, s \in T
      PROVE  Append(s, c) \in T
  <2> DEFINE o  == Opened(s)
             z  == Append(s, c)
             q  == SingleQuote
             o1 == Append(o, q)
             o2 == Append(o1, Escape)
             o3 == Append(o2, q)
             o4 == Append(o3, q)
  <2>1. z \in Seq(C) /\ Len(z) = Len(s) + 1 /\ Len(s) \in Nat
    BY AppendProperties, LenProperties
  <2>2. o \in Seq(C) /\ Len(o) <= 4 * Len(s) + 1 /\ Len(o) \in Nat
        /\ ShellRead(r, o) = Reader(ws, s, "quoted")
    BY <1>2, LenProperties
  <2>3. /\ c # q => Opened(z) = Append(o, c)
        /\ c = q => Opened(z) = o4
    BY <2>2, OpenedAppends
  <2>4. CASE c # q
    <3>1. Opened(z) \in Seq(C) /\ Len(Opened(z)) = Len(o) + 1
      BY <2>2, <2>3, <2>4, AppendProperties
    <3>2. ShellRead(r, Append(o, c)) = ShellTurn(ShellRead(r, o), c)
      BY <2>2, ShellReadSteps
    <3>3. ShellTurn(Reader(ws, s, "quoted"), c) = Reader(ws, z, "quoted")
      BY <2>4, ShellTurns
    <3>4. ShellRead(r, Opened(z)) = Reader(ws, z, "quoted")
      BY <2>2, <2>3, <2>4, <3>2, <3>3
    <3>5. Len(Opened(z)) <= 4 * Len(z) + 1
      BY <2>1, <2>2, <3>1
    <3> HIDE DEF r
    <3> QED
      BY <2>1, <3>1, <3>4, <3>5
  <2>5. CASE c = q
    <3>1. /\ o1 \in Seq(C) /\ Len(o1) = Len(o) + 1
          /\ o2 \in Seq(C) /\ Len(o2) = Len(o1) + 1
          /\ o3 \in Seq(C) /\ Len(o3) = Len(o2) + 1
          /\ o4 \in Seq(C) /\ Len(o4) = Len(o3) + 1
      <4>1. o1 \in Seq(C) /\ Len(o1) = Len(o) + 1
        BY <2>2, AppendProperties
      <4> HIDE DEF o1
      <4>2. o2 \in Seq(C) /\ Len(o2) = Len(o1) + 1
        BY <4>1, AppendProperties
      <4> HIDE DEF o2
      <4>3. o3 \in Seq(C) /\ Len(o3) = Len(o2) + 1
        BY <4>2, AppendProperties
      <4> HIDE DEF o3
      <4>4. o4 \in Seq(C) /\ Len(o4) = Len(o3) + 1
        BY <4>3, AppendProperties
      <4> QED
        BY <4>1, <4>2, <4>3, <4>4
    <3>2. Opened(z) = o4
      BY <2>3, <2>5
    <3>3. /\ ShellTurn(Reader(ws, s, "quoted"), q) = Reader(ws, s, "word")
          /\ ShellTurn(Reader(ws, s, "word"), Escape) = Reader(ws, s, "escaped")
          /\ ShellTurn(Reader(ws, s, "escaped"), q) = Reader(ws, Append(s, q), "word")
          /\ ShellTurn(Reader(ws, Append(s, q), "word"), q) = Reader(ws, Append(s, q), "quoted")
      BY ShellTurns
    <3>4. ShellRead(r, o4) = Reader(ws, z, "quoted")
      <4>1. q \in C /\ Escape \in C /\ z = Append(s, q)
        BY <2>5
      <4> HIDE DEF q, z, o, r
      <4>2. ShellRead(r, o1) = ShellTurn(ShellRead(r, o), q)
        BY <2>2, <4>1, ShellReadSteps
      <4> HIDE DEF o1
      <4>3. ShellRead(r, o2) = ShellTurn(ShellRead(r, o1), Escape)
        BY <3>1, <4>1, ShellReadSteps
      <4> HIDE DEF o2
      <4>4. ShellRead(r, o3) = ShellTurn(ShellRead(r, o2), q)
        BY <3>1, <4>1, ShellReadSteps
      <4> HIDE DEF o3
      <4>5. ShellRead(r, o4) = ShellTurn(ShellRead(r, o3), q)
        BY <3>1, <4>1, ShellReadSteps
      <4> HIDE DEF o4
      <4> QED
        BY <2>2, <3>3, <4>1, <4>2, <4>3, <4>4, <4>5
    <3>5. Len(o4) <= 4 * Len(z) + 1
      <4> HIDE DEF o1, o2, o3, o4, z, o
      <4> QED
        BY <2>1, <2>2, <3>1, LenProperties
    <3> HIDE DEF o4, r
    <3> QED
      BY <2>1, <3>1, <3>2, <3>4, <3>5
  <2> QED
    BY <2>4, <2>5
<1> HIDE DEF T
<1>3. \A s \in Seq(C) : s \in T
  BY <1>1, <1>2, Shelling!SequenceInduction
<1> QED
  BY <1>3 DEF T, r

(* A quoted text, if there is room for it, is one word more. *)
ClosedQuote(s) == Append(Opened(s), SingleQuote)

LEMMA QuotedIsRead ==
  ASSUME NEW C, SingleQuote \in C, Escape \in C, NEW s \in Seq(C)
  PROVE  /\ ClosedQuote(s) \in Seq(C)
         /\ \A ws : ShellRead(Reader(ws, <<>>, "between"), ClosedQuote(s)) = Reader(ws, s, "word")
         /\ \A size : ShellQuote(s, size) # Failed => ShellQuote(s, size) = ClosedQuote(s)
         /\ Quoted(s) = ClosedQuote(s)
<1> DEFINE o == Opened(s)
           z == ClosedQuote(s)
<1>1. o \in Seq(C) /\ Len(o) <= 4 * Len(s) + 1
  BY OpenedIsRead
<1>2. z \in Seq(C) /\ Len(z) = Len(o) + 1 /\ Len(o) \in Nat /\ Len(s) \in Nat
  BY <1>1, AppendProperties, LenProperties DEF ClosedQuote
<1>3. \A size : ShellQuote(s, size) = IF Len(z) < size THEN z ELSE Failed
  BY DEF ShellQuote, Opened, ClosedQuote
<1>4. Quoted(s) = z
  <2>1. Len(z) < 4 * Len(s) + 3
    <3> HIDE DEF o, z
    <3> QED
      BY <1>1, <1>2
  <2> QED
    BY <1>3, <2>1 DEF Quoted
<1>5. ASSUME NEW ws
      PROVE  ShellRead(Reader(ws, <<>>, "between"), z) = Reader(ws, s, "word")
  <2> DEFINE r == Reader(ws, <<>>, "between")
  <2>1. ShellRead(r, z) = ShellTurn(ShellRead(r, o), SingleQuote)
    BY <1>1, ShellReadSteps DEF ClosedQuote
  <2>2. ShellRead(r, o) = Reader(ws, s, "quoted")
    BY OpenedIsRead
  <2>3. ShellTurn(Reader(ws, s, "quoted"), SingleQuote) = Reader(ws, s, "word")
    BY ShellTurns
  <2> QED
    BY <2>1, <2>2, <2>3
<1> QED
  BY <1>2, <1>3, <1>4, <1>5

LEMMA WordEnds ==
  \A ws, w : EndWord(Reader(ws, w, "word")) = Reader(Append(ws, w), <<>>, "between")
BY ReaderHas DEF EndWord

(* At the end of the command, a word ends. *)
NoWords == Reader(<<>>, <<>>, "between")

LEMMA ShellWordsEnd ==
  ASSUME NEW s, NEW ws, NEW w,
         ShellRead(NoWords, s) = Reader(ws, w, "word")
  PROVE  ShellWords(s) = Append(ws, w)
<1> DEFINE f == FoldLeft(ShellTurn, NoWords, s)
           e == EndWord(f)
<1>1. f = Reader(ws, w, "word")
  BY ShellReadIsAFold
<1>2. ShellWords(s) = IF e.mode = "between" THEN e.words ELSE Unread
  BY DEF ShellWords, NoWords
<1> HIDE DEF f
<1>3. e = Reader(Append(ws, w), <<>>, "between")
  BY <1>1, WordEnds
<1> HIDE DEF e
<1>4. e.mode = "between" /\ e.words = Append(ws, w)
  <2> DEFINE none == <<>>
             more == Append(ws, w)
  <2>1. e = Reader(more, none, "between")
    BY <1>3
  <2>2. e.words = Reader(more, none, "between").words /\ e.mode = Reader(more, none, "between").mode
    BY <2>1
  <2> HIDE DEF none, more
  <2>3. Reader(more, none, "between").words = more
    BY ReaderHas
  <2>4. Reader(more, none, "between").mode = "between"
    BY ReaderHas
  <2> QED
    BY <2>2, <2>3, <2>4 DEF more
<1> QED
  BY <1>2, <1>4

LEMMA OneWordIs == \A w : Append(<<>>, w) = <<w>>
OBVIOUS

LEMMA SecondAppended ==
  ASSUME NEW S, NEW w \in Seq(S), NEW t \in S, Len(w) = 1
  PROVE  /\ Append(w, t) \in Seq(S) /\ Len(Append(w, t)) = 2
         /\ Append(w, t)[1] = w[1] /\ Append(w, t)[2] = t
<1>1. Append(w, t) \in Seq(S) /\ Len(Append(w, t)) = 2
  OBVIOUS
<1>2. Append(w, t)[1] = w[1]
  <2>1. \A i \in 1 .. Len(w) : Append(w, t)[i] = w[i]
    BY AppendProperties
  <2>2. 1 \in 1 .. Len(w)
    OBVIOUS
  <2> QED
    BY <2>1, <2>2, Zenon
<1>3. Append(w, t)[2] = t
  BY AppendProperties
<1> QED
  BY <1>1, <1>2, <1>3

LEMMA TwoWordsAre ==
  ASSUME NEW S, NEW s \in S, NEW t \in S
  PROVE  Append(<<s>>, t) = <<s, t>>
<1> DEFINE w == <<s>>
<1>1. w \in Seq(S) /\ Len(w) = 1 /\ w[1] = s
  OBVIOUS
<1> HIDE DEF w
<1> DEFINE v == Append(w, t)
<1>2. v \in Seq(S) /\ Len(v) = 2 /\ v[1] = s /\ v[2] = t
  BY <1>1, SecondAppended
<1> HIDE DEF v
<1>3. v = <<v[1], v[2]>>
  BY <1>2
<1> QED
  BY <1>2, <1>3 DEF v, w

LEMMA QuotedIsAWord ==
  ASSUME NEW C, SingleQuote \in C, Escape \in C, NEW s \in Seq(C)
  PROVE  /\ ShellWords(Quoted(s)) = <<s>>
         /\ \A size : ShellQuote(s, size) # Failed => ShellWords(ShellQuote(s, size)) = <<s>>
<1>1. ShellRead(NoWords, ClosedQuote(s)) = Reader(<<>>, s, "word")
  BY QuotedIsRead DEF NoWords
<1>2. ShellWords(ClosedQuote(s)) = <<s>>
  BY <1>1, ShellWordsEnd, OneWordIs
<1> QED
  BY <1>2, QuotedIsRead

LEMMA TwoQuotedAreTwoWords ==
  ASSUME NEW C, SingleQuote \in C, Escape \in C, Space \in C, NEW s \in Seq(C), NEW t \in Seq(C)
  PROVE  ShellWords(Quoted(s) \o <<Space>> \o Quoted(t)) = <<s, t>>
<1> DEFINE a  == ClosedQuote(s)
           b  == ClosedQuote(t)
           r  == NoWords
           ws == Append(<<>>, s)
           r1 == Reader(ws, <<>>, "between")
<1>1. a \in Seq(C) /\ b \in Seq(C) /\ Quoted(s) = a /\ Quoted(t) = b
  BY QuotedIsRead
<1>2. ShellRead(r, a) = Reader(<<>>, s, "word") /\ ShellRead(r1, b) = Reader(ws, t, "word")
  BY QuotedIsRead DEF NoWords
<1>3. ShellRead(r, Append(a, Space)) = ShellTurn(ShellRead(r, a), Space)
  BY <1>1, ShellReadSteps
<1>4. ShellTurn(Reader(<<>>, s, "word"), Space) = r1
  <2>1. ShellTurn(Reader(<<>>, s, "word"), Space) = EndWord(Reader(<<>>, s, "word"))
    BY ShellTurns
  <2> QED
    BY <2>1, WordEnds
<1>5. Append(a, Space) \in Seq(C) /\ a \o <<Space>> = Append(a, Space)
  BY <1>1, AppendProperties, AppendIsConcat
<1> HIDE DEF a, b, r, r1
<1>6. ShellRead(r, Cat(Append(a, Space), b)) = ShellRead(r1, b)
  <2> DEFINE c == Append(a, Space)
  <2>1. c \in Seq(C) /\ ShellRead(r, c) = r1
    BY <1>2, <1>3, <1>4, <1>5
  <2> HIDE DEF c
  <2>2. ShellRead(r, Cat(c, b)) = ShellRead(ShellRead(r, c), b)
    BY <1>1, <2>1, ShellReadSteps
  <2> QED
    BY <2>1, <2>2 DEF c
<1> HIDE DEF ws
<1>7. ShellWords(Cat(Append(a, Space), b)) = Append(ws, t)
  <2> DEFINE c == Cat(Append(a, Space), b)
  <2>1. ShellRead(NoWords, c) = Reader(ws, t, "word")
    BY <1>2, <1>6 DEF r
  <2> HIDE DEF c
  <2>2. ShellWords(c) = Append(ws, t)
    BY <2>1, ShellWordsEnd
  <2> QED
    BY <2>2 DEF c
<1>8. Append(ws, t) = <<s, t>>
  <2>1. ws = <<s>>
    BY OneWordIs DEF ws
  <2>2. Append(<<s>>, t) = <<s, t>>
    BY TwoWordsAre
  <2> QED
    BY <2>1, <2>2
<1>9. Quoted(s) \o <<Space>> \o Quoted(t) = Cat(Append(a, Space), b)
  BY <1>1, <1>5 DEF Cat
<1> QED
  BY <1>7, <1>8, <1>9

(* So is a safe token, as it is. *)
LEMMA SafeIsAWord ==
  \A s \in Seq(SafeChar) : s # <<>> => ShellWords(s) = <<s>>
<1> DEFINE r == NoWords
           T == {s \in Seq(SafeChar) :
                    \/ s = <<>>
                    \/ ShellRead(r, s) = Reader(<<>>, s, "word")}
<1>1. <<>> \in T
  OBVIOUS
<1>2. ASSUME NEW s \in Seq(SafeChar), NEW c \in SafeChar, s \in T
      PROVE  Append(s, c) \in T
  <2>1. ShellRead(r, Append(s, c)) = ShellTurn(ShellRead(r, s), c)
    BY ShellReadSteps
  <2>2. ShellRead(r, <<>>) = r
    BY ShellReadSteps
  <2>3. /\ ShellTurn(Reader(<<>>, s, "word"), c) = Reader(<<>>, Append(s, c), "word")
        /\ ShellTurn(NoWords, c) = Reader(<<>>, Append(<<>>, c), "word")
    BY ShellTurns DEF NoWords
  <2>4. Append(s, c) \in Seq(SafeChar)
    BY AppendProperties
  <2>5. ShellRead(r, Append(s, c)) = Reader(<<>>, Append(s, c), "word")
    <3>1. CASE s = <<>>
      BY <2>1, <2>2, <2>3, <3>1
    <3>2. CASE ShellRead(r, s) = Reader(<<>>, s, "word")
      <4> HIDE DEF r
      <4> QED
        BY <2>1, <2>3, <3>2
    <3> QED
      BY <1>2, <3>1, <3>2
  <2> QED
    BY <2>4, <2>5
<1> HIDE DEF T
<1>3. \A s \in Seq(SafeChar) : s \in T
  BY <1>1, <1>2, Shelling!SequenceInduction
<1>4. ASSUME NEW s \in Seq(SafeChar), s # <<>>
      PROVE  ShellWords(s) = <<s>>
  <2>1. ShellRead(r, s) = Reader(<<>>, s, "word")
    BY <1>3, <1>4 DEF T
  <2> QED
    BY <2>1, ShellWordsEnd, OneWordIs
<1> QED
  BY <1>4

-----------------------------------------------------------------------------
(* The words of the tokenizer. *)
LEMMA OneToken ==
  ASSUME NEW C, NEW word \in Seq(C)
  PROVE  /\ Added(<<>>, Word(word)) = <<Word(word)>>
         /\ <<Word(word)>> \in Tokens(C) /\ Len(<<Word(word)>>) = 1 /\ 1 <= MaxTokens
<1> DEFINE w == Word(word)
           X == [type : Kinds, value : Seq(C)]
<1>1. w \in X
  BY WordIsToken
<1>2. MaxTokens \in Nat /\ 1 <= MaxTokens /\ 0 < MaxTokens
  BY RoomForTokens
<1> HIDE DEF w, X
<1>3. Len(<<>>) = 0 /\ Append(<<>>, w) = <<w>>
  OBVIOUS
<1>4. Added(<<>>, w) = <<w>>
  BY <1>2, <1>3 DEF Added
<1>5. <<w>> \in Seq(X) /\ Len(<<w>>) = 1
  BY <1>1
<1> QED
  BY <1>2, <1>4, <1>5 DEF w, X, Tokens

LEMMA WordAtTheEnd ==
  ASSUME NEW C, NEW word \in Seq(C), word # <<>>
  PROVE  /\ Flush(Within(<<>>, word)) = Between(<<Word(word)>>)
         /\ Flush(Within(<<>>, word)).tokens = <<Word(word)>>
<1>1. Flush(Within(<<>>, word)) = Between(Added(<<>>, Word(word)))
  BY FlushWithin
<1>2. Added(<<>>, Word(word)) = <<Word(word)>>
  BY OneToken
<1> DEFINE w == <<Word(word)>>
<1>3. Flush(Within(<<>>, word)) = Between(w)
  BY <1>1, <1>2
<1> HIDE DEF w
<1>4. Between(w).tokens = w
  BY WithinHas
<1> QED
  BY <1>3, <1>4 DEF w

(* A word that was read, spaces, and a rest. *)
ReadsAs(C, line, s) == \A next \in C : Read(Start, line, next) = Within(<<>>, s)
WordThen(s, rest) == Kept(Cat(<<Word(s)>>, Tokenize(rest)))

LEMMA WordAndRest ==
  ASSUME NEW C, Alphabet(C), NEW s \in Seq(C), s # <<>>,
         NEW line \in Seq(C), ReadsAs(C, line, s),
         NEW spaces \in Seq({Space}), spaces # <<>>, NEW rest \in Seq(C)
  PROVE  Tokenize(Cat(Cat(line, spaces), rest)) = WordThen(s, rest)
<1> DEFINE head == Cat(line, spaces)
           word == <<Word(s)>>
           b    == Behind(rest, End)
<1>1. End \in C /\ Space \in C /\ spaces \in Seq(C)
  BY SeqMonotonic DEF Alphabet
<1>2. b \in C /\ Behind(spaces, b) \in C
  BY <1>1, BehindIs
<1>3. head \in Seq(C) /\ Cat(head, rest) \in Seq(C)
  BY <1>1, ConcatProperties DEF Cat
<1> HIDE DEF b, word
<1>4. Read(Start, head, b) = Between(word)
  <2>0. \A next \in C : Read(Start, line, next) = Within(<<>>, s)
    BY DEF ReadsAs
  <2>1. Read(Start, head, b) = Read(Read(Start, line, Behind(spaces, b)), spaces, b)
    BY <1>1, <1>2, ReadOn
  <2>2. Read(Within(<<>>, s), spaces, b) = Flush(Within(<<>>, s))
    <3>1. Read(Within(<<>>, s), spaces, b) = AfterSpaces(Within(<<>>, s), spaces)
      BY <1>1, <1>2, SpacesEndAWord
    <3> QED
      BY <3>1 DEF AfterSpaces
  <2>3. Flush(Within(<<>>, s)) = Between(word)
    BY WordAtTheEnd DEF word
  <2> QED
    BY <1>2, <2>0, <2>1, <2>2, <2>3
<1> HIDE DEF head
<1>5. Read(Start, Cat(head, rest), End) = Read(Between(word), rest, End)
  BY <1>1, <1>3, <1>4, ReadOn DEF b
<1>6. Tokenize(Cat(head, rest)) = Flush(Read(Between(word), rest, End)).tokens
  BY <1>3, <1>5, ReadIsAFold DEF Tokenize
<1>7. word \in Tokens(C) /\ Len(word) <= MaxTokens
  BY OneToken DEF word
<1>8. Flush(Read(Between(word), rest, End)).tokens = Kept(Cat(word, Tokenize(rest)))
  BY <1>1, <1>7, Resumed
<1> QED
  BY <1>6, <1>8 DEF head, word, WordThen

(* The part of a line before the first character of a kind, and the rest.   *)
First(s, D) == SelectInSeq(s, LAMBDA c : c \in D)

SplitAt(s, D, a, b) ==
    /\ s = Cat(a, b) /\ Range(a) \cap D = {} /\ (b # <<>> => b[1] \in D)
    /\ First(s, D) = IF b = <<>> THEN 0 ELSE Len(a) + 1
    /\ b = SubSeq(s, Len(a) + 1, Len(s)) /\ a = SubSeq(s, 1, Len(a))

LEMMA Split ==
  ASSUME NEW C, NEW s \in Seq(C), NEW D
  PROVE  \E a \in Seq(C), b \in Seq(C) : SplitAt(s, D, a, b)
<1> DEFINE n == Len(s)
           I == {i \in 1 .. n : s[i] \in D}
           a(k) == SubSeq(s, 1, k)
           b(k) == SubSeq(s, k + 1, n)
<1>1. n \in Nat /\ DOMAIN s = 1 .. n /\ \A i \in 1 .. n : s[i] \in C
  BY LenProperties, ElementOfSeq
<1>2. First(s, D) = IF I # {} THEN Min(I) ELSE 0
  BY DEF First, SelectInSeq
<1> HIDE DEF n
<1>3. ASSUME NEW k \in 0 .. n
      PROVE  /\ a(k) \in Seq(C) /\ Len(a(k)) = k /\ \A i \in 1 .. k : a(k)[i] = s[i]
             /\ b(k) \in Seq(C) /\ Len(b(k)) = n - k /\ \A i \in 1 .. n - k : b(k)[i] = s[k + i]
             /\ s = Cat(a(k), b(k))
  <2>1. \A i \in 1 .. k : s[i] \in C
    BY <1>1
  <2>2. /\ SubSeq(s, 1, k) \in Seq(C)
        /\ Len(SubSeq(s, 1, k)) = IF 1 <= k THEN k - 1 + 1 ELSE 0
        /\ \A i \in 1 .. k - 1 + 1 : SubSeq(s, 1, k)[i] = s[1 + i - 1]
    BY <2>1, SubSeqProperties
  <2>3. (IF 1 <= k THEN k - 1 + 1 ELSE 0) = k /\ k - 1 + 1 = k /\ \A i \in 1 .. k : 1 + i - 1 = i
    OBVIOUS
  <2>4. \A i \in k + 1 .. n : s[i] \in C
    BY <1>1
  <2>5. /\ SubSeq(s, k + 1, n) \in Seq(C)
        /\ Len(SubSeq(s, k + 1, n)) = IF k + 1 <= n THEN n - (k + 1) + 1 ELSE 0
        /\ \A i \in 1 .. n - (k + 1) + 1 : SubSeq(s, k + 1, n)[i] = s[(k + 1) + i - 1]
    BY <1>1, <2>4, SubSeqProperties
  <2>6. /\ (IF k + 1 <= n THEN n - (k + 1) + 1 ELSE 0) = n - k /\ n - (k + 1) + 1 = n - k
        /\ \A i \in 1 .. n - k : (k + 1) + i - 1 = k + i
    BY <1>1
  <2>7. SubSeq(s, 1, k) \o SubSeq(s, k + 1, n) = s
    <3>1. 1 \in 1 .. Len(s) + 1 /\ k \in 1 - 1 .. Len(s) /\ n \in k .. Len(s) /\ n = Len(s)
      BY <1>1 DEF n
    <3>2. SubSeq(s, 1, k) \o SubSeq(s, k + 1, n) = SubSeq(s, 1, n)
      BY <3>1, ConcatAdjacentSubSeq
    <3>3. SubSeq(s, 1, n) = s
      BY <3>1, SubSeqFull
    <3> QED
      BY <3>2, <3>3
  <2>8. s = Cat(a(k), b(k))
    BY <2>7 DEF Cat
  <2> QED
    BY <2>2, <2>3, <2>5, <2>6, <2>8
<1> HIDE DEF a, b
<1>4. ASSUME NEW k \in 0 .. n, \A i \in 1 .. k : s[i] \notin D
      PROVE  Range(a(k)) \cap D = {}
  <2> DEFINE z == a(k)
  <2>1. z \in Seq(C) /\ Len(z) = k /\ \A i \in 1 .. k : z[i] = s[i]
    BY <1>3
  <2> HIDE DEF z
  <2>2. DOMAIN z = 1 .. k
    BY <2>1, LenProperties
  <2>3. \A i \in DOMAIN z : z[i] \notin D
    BY <1>4, <2>1, <2>2
  <2>4. Range(z) \cap D = {}
    BY <2>3, Zenon DEF Range
  <2> QED
    BY <2>4 DEF z
<1>5. CASE I = {}
  <2>1. n \in 0 .. n /\ \A i \in 1 .. n : s[i] \notin D
    BY <1>1, <1>5
  <2>2. b(n) = <<>>
    <3>1. Len(b(n)) = 0 /\ b(n) \in Seq(C)
      BY <1>1, <1>3, <2>1
    <3> QED
      BY <3>1, EmptySeq
  <2>3. Range(a(n)) \cap D = {} /\ s = Cat(a(n), b(n)) /\ a(n) \in Seq(C) /\ b(n) \in Seq(C)
        /\ Len(a(n)) = n
    BY <1>3, <1>4, <2>1
  <2>4. a(n) = SubSeq(s, 1, Len(a(n))) /\ b(n) = SubSeq(s, Len(a(n)) + 1, Len(s))
    BY <2>3 DEF a, b, n
  <2> QED
    BY <1>2, <1>5, <2>2, <2>3, <2>4 DEF SplitAt
<1>6. CASE I # {}
  <2> DEFINE m == Min(I)
  <2>1. m \in I /\ \A i \in I : m <= i
    <3>1. I \in SUBSET Nat
      BY <1>1
    <3>2. \E x \in I : \A y \in I : x <= y
      BY <1>6, <3>1, Turning!NatHasMin
    <3> QED
      BY <3>2 DEF Min
  <2> HIDE DEF m
  <2>2. m \in 1 .. n /\ s[m] \in D /\ m - 1 \in 0 .. n /\ (m - 1) + 1 = m
        /\ \A i \in 1 .. m - 1 : s[i] \notin D
    BY <1>1, <2>1
  <2> DEFINE k == m - 1
  <2>3. k \in 0 .. n /\ k + 1 = m /\ n - k >= 1 /\ 1 \in 1 .. n - k
    BY <1>1, <2>2
  <2>4. \A i \in 1 .. k : s[i] \notin D
    BY <2>2
  <2> HIDE DEF k
  <2>5. b(k) # <<>> /\ b(k)[1] \in D
    <3>1. Len(b(k)) = n - k /\ b(k)[1] = s[k + 1]
      BY <1>3, <2>3
    <3>2. Len(b(k)) # 0
      BY <1>1, <2>3, <3>1
    <3> QED
      BY <2>2, <2>3, <3>1, <3>2, EmptySeq
  <2>6. Range(a(k)) \cap D = {} /\ s = Cat(a(k), b(k)) /\ a(k) \in Seq(C) /\ b(k) \in Seq(C)
        /\ Len(a(k)) = k
    BY <1>3, <1>4, <2>3, <2>4
  <2>7. a(k) = SubSeq(s, 1, Len(a(k))) /\ b(k) = SubSeq(s, Len(a(k)) + 1, Len(s))
    BY <2>6 DEF a, b, n
  <2>8. First(s, D) = Len(a(k)) + 1
    BY <1>2, <1>6, <2>3, <2>6 DEF m
  <2> QED
    BY <2>5, <2>6, <2>7, <2>8 DEF SplitAt
<1> QED
  BY <1>5, <1>6

LEMMA SkipSpacesIs ==
  ASSUME NEW C, NEW text \in Seq(C)
  PROVE  /\ SkipSpaces(text) \in Seq(C)
         /\ SkipSpaces(text) # <<>> => SkipSpaces(text)[1] # Space
         /\ \E spaces \in Seq({Space}) : text = Cat(spaces, SkipSpaces(text))
<1> DEFINE D == C \ {Space}
           n == Len(text)
<1>0. PICK a \in Seq(C), b \in Seq(C) : SplitAt(text, D, a, b)
  <2> HIDE DEF D
  <2> QED
    BY Split
<1>1. /\ text = Cat(a, b) /\ Range(a) \cap D = {} /\ (b # <<>> => b[1] \in D)
      /\ First(text, D) = IF b = <<>> THEN 0 ELSE Len(a) + 1
      /\ b = SubSeq(text, Len(a) + 1, n)
  BY <1>0 DEF SplitAt
<1>2. SelectInSeq(text, LAMBDA c : c # " ") = First(text, D)
  <2>1. \A i \in 1 .. n : text[i] # " " <=> text[i] \in D
    BY ElementOfSeq DEF Space
  <2> HIDE DEF D, n
  <2>2. {i \in 1 .. n : text[i] # " "} = {i \in 1 .. n : text[i] \in D}
    BY <2>1
  <2> QED
    BY <2>2 DEF SelectInSeq, First, n
<1>3. SkipSpaces(text) = b
  <2> DEFINE i == SelectInSeq(text, LAMBDA c : c # " ")
  <2>1. SkipSpaces(text) = IF i = 0 THEN <<>> ELSE SubSeq(text, i, n)
    BY DEF SkipSpaces
  <2>2. i = IF b = <<>> THEN 0 ELSE Len(a) + 1
    BY <1>1, <1>2
  <2> HIDE DEF i, n
  <2>3. Len(a) \in Nat /\ Len(a) + 1 # 0
    BY LenProperties
  <2> QED
    BY <1>1, <2>1, <2>2, <2>3
<1>4. a \in Seq({Space})
  <2>1. Len(a) \in Nat /\ DOMAIN a = 1 .. Len(a) /\ a = [i \in 1 .. Len(a) |-> a[i]]
    BY LenProperties
  <2>2. ASSUME NEW i \in 1 .. Len(a) PROVE a[i] \in {Space}
    <3>1. a[i] \in C /\ a[i] \in Range(a)
      BY <2>1, ElementOfSeq DEF Range
    <3> QED
      BY <1>1, <3>1
  <2>3. [i \in 1 .. Len(a) |-> a[i]] \in Seq({Space})
    BY <2>1, <2>2, IsASeq
  <2> QED
    BY <2>1, <2>3
<1>5. b # <<>> => b[1] # Space
  BY <1>1
<1> HIDE DEF D, n
<1> QED
  BY <1>1, <1>3, <1>4, <1>5

LEMMA UpToSpaceIs ==
  ASSUME NEW C, NEW text \in Seq(C)
  PROVE  /\ UpToSpace(text) \in Seq(C \ {Space})
         /\ SubSeq(text, Len(UpToSpace(text)) + 1, Len(text)) \in Seq(C)
         /\ text = Cat(UpToSpace(text), SubSeq(text, Len(UpToSpace(text)) + 1, Len(text)))
         /\ SubSeq(text, Len(UpToSpace(text)) + 1, Len(text)) # <<>> =>
               SubSeq(text, Len(UpToSpace(text)) + 1, Len(text))[1] = Space
<1> DEFINE D == {Space}
           n == Len(text)
<1>0. PICK a \in Seq(C), b \in Seq(C) : SplitAt(text, D, a, b)
  <2> HIDE DEF D
  <2> QED
    BY Split
<1>1. /\ text = Cat(a, b) /\ Range(a) \cap D = {} /\ (b # <<>> => b[1] \in D)
      /\ First(text, D) = IF b = <<>> THEN 0 ELSE Len(a) + 1
      /\ b = SubSeq(text, Len(a) + 1, n) /\ a = SubSeq(text, 1, Len(a))
  BY <1>0 DEF SplitAt
<1>2. SelectInSeq(text, LAMBDA c : c = " ") = First(text, D)
  <2>1. \A i \in 1 .. n : text[i] = " " <=> text[i] \in D
    BY DEF Space
  <2> HIDE DEF D, n
  <2>2. {i \in 1 .. n : text[i] = " "} = {i \in 1 .. n : text[i] \in D}
    BY <2>1
  <2> QED
    BY <2>2 DEF SelectInSeq, First, n
<1>3. UpToSpace(text) = a
  <2> DEFINE i == SelectInSeq(text, LAMBDA c : c = " ")
  <2>1. UpToSpace(text) = IF i = 0 THEN text ELSE SubSeq(text, 1, i - 1)
    BY DEF UpToSpace
  <2>2. i = IF b = <<>> THEN 0 ELSE Len(a) + 1
    BY <1>1, <1>2
  <2> HIDE DEF i, n
  <2>3. Len(a) \in Nat /\ Len(a) + 1 # 0 /\ (Len(a) + 1) - 1 = Len(a)
    BY LenProperties
  <2>4. CASE b = <<>>
    <3>1. Cat(a, b) = a
      BY <2>4, ConcatEmptySeq DEF Cat
    <3> QED
      BY <1>1, <2>1, <2>2, <2>4, <3>1
  <2>5. CASE b # <<>>
    <3>1. UpToSpace(text) = SubSeq(text, 1, Len(a))
      BY <2>1, <2>2, <2>3, <2>5
    <3> QED
      BY <1>1, <3>1
  <2> QED
    BY <2>4, <2>5
<1>4. a \in Seq(C \ D)
  <2>1. Len(a) \in Nat /\ DOMAIN a = 1 .. Len(a) /\ a = [i \in 1 .. Len(a) |-> a[i]]
    BY LenProperties
  <2>2. ASSUME NEW i \in 1 .. Len(a) PROVE a[i] \in C \ D
    <3>1. a[i] \in C /\ a[i] \in Range(a)
      BY <2>1, ElementOfSeq DEF Range
    <3> HIDE DEF D
    <3> QED
      BY <1>1, <3>1
  <2> HIDE DEF D
  <2>3. [i \in 1 .. Len(a) |-> a[i]] \in Seq(C \ D)
    BY <2>1, <2>2, IsASeq
  <2> QED
    BY <2>1, <2>3
<1>5. b # <<>> => b[1] = Space
  BY <1>1
<1>6. SubSeq(text, Len(UpToSpace(text)) + 1, Len(text)) = b
  BY <1>1, <1>3
<1> HIDE DEF n
<1> QED
  BY <1>1, <1>3, <1>4, <1>5, <1>6

-----------------------------------------------------------------------------
(* A plain line: spaces, a word of safe characters, spaces, a rest. *)
PlainChar == {Space} \cup SafeChar

LEMMA CatIs ==
  ASSUME NEW C
  PROVE  /\ \A s, t \in Seq(C) : Cat(s, t) \in Seq(C) /\ (Cat(s, t) = <<>> => s = <<>> /\ t = <<>>)
         /\ \A s, t, u \in Seq(C) : Cat(Cat(s, t), u) = Cat(s, Cat(t, u))
         /\ \A s \in Seq(C) : Cat(s, <<>>) = s /\ Cat(<<>>, s) = s
<1>1. \A s, t \in Seq(C) : Cat(s, t) \in Seq(C) /\ (Cat(s, t) = <<>> => s = <<>> /\ t = <<>>)
  BY ConcatProperties, ConcatEqualIffEmpty DEF Cat
<1>2. \A s, t, u \in Seq(C) : Cat(Cat(s, t), u) = Cat(s, Cat(t, u))
  BY ConcatAssociative DEF Cat
<1>3. \A s \in Seq(C) : Cat(s, <<>>) = s /\ Cat(<<>>, s) = s
  BY ConcatEmptySeq DEF Cat
<1> QED
  BY <1>1, <1>2, <1>3

LEMMA SpacesAreNothing ==
  ASSUME NEW C, Alphabet(C), NEW spaces \in Seq({Space})
  PROVE  /\ \A next \in C : Read(Start, spaces, next) = Within(<<>>, <<>>)
         /\ Tokenize(spaces) = <<>>
<1>1. Space \in C /\ End \in C /\ spaces \in Seq(C)
  BY SeqMonotonic DEF Alphabet
<1>2. ASSUME NEW next \in C PROVE Read(Start, spaces, next) = Between(<<>>)
  <2>1. Read(Within(<<>>, <<>>), spaces, next) = AfterSpaces(Within(<<>>, <<>>), spaces)
    BY <1>1, SpacesEndAWord
  <2>2. Flush(Between(<<>>)) = Between(<<>>)
    BY FlushWithin
  <2> QED
    BY <2>1, <2>2, StartIs DEF Between, AfterSpaces
<1>3. Scan(spaces) = Between(<<>>)
  BY <1>1, <1>2, ReadIsAFold
<1>4. Flush(Between(<<>>)) = Between(<<>>)
  BY FlushWithin
<1>5. Between(<<>>).tokens = <<>>
  BY WithinHas
<1> QED
  BY <1>2, <1>3, <1>4, <1>5 DEF Tokenize, Between

LEMMA PlainParts ==
  ASSUME NEW line \in Seq(PlainChar)
  PROVE  \E sp \in Seq({Space}), word \in Seq(SafeChar), gap \in Seq({Space}), rest \in Seq(PlainChar) :
            /\ word = FirstBySpaces(line) /\ rest = RestBySpaces(line)
            /\ line = Cat(sp, Cat(word, Cat(gap, rest)))
            /\ word = <<>> => gap = <<>> /\ rest = <<>>
            /\ gap = <<>> => rest = <<>>
<1> DEFINE P == PlainChar
           text == SkipSpaces(line)
           word == UpToSpace(text)
           rem  == SubSeq(text, Len(word) + 1, Len(text))
           rest == SkipSpaces(rem)
<1>1. PICK sp \in Seq({Space}) : line = Cat(sp, text)
  BY SkipSpacesIs
<1>2. text \in Seq(P) /\ (text # <<>> => text[1] # Space)
  BY SkipSpacesIs
<1> HIDE DEF text, P
<1>3. /\ word \in Seq(P \ {Space}) /\ rem \in Seq(P) /\ text = Cat(word, rem)
      /\ rem # <<>> => rem[1] = Space
  BY <1>2, UpToSpaceIs
<1> HIDE DEF word, rem
<1>4. PICK gap \in Seq({Space}) : rem = Cat(gap, rest)
  BY <1>3, SkipSpacesIs
<1>5. rest \in Seq(P) /\ (rest # <<>> => rest[1] # Space)
  BY <1>3, SkipSpacesIs
<1>6. word \in Seq(SafeChar)
  <2>1. P \ {Space} \subseteq SafeChar
    BY DEF P, PlainChar
  <2> QED
    BY <1>3, <2>1, SeqMonotonic
<1>7. word \in Seq(P) /\ gap \in Seq(P)
  <2>1. SafeChar \subseteq P /\ {Space} \subseteq P
    BY DEF P, PlainChar
  <2> QED
    BY <1>6, <2>1, SeqMonotonic
<1> HIDE DEF rest
<1>8. gap = <<>> => rest = <<>>
  <2> SUFFICES ASSUME gap = <<>>, rest # <<>> PROVE FALSE
    OBVIOUS
  <2>1. rem = rest
    BY <1>4, <1>5, CatIs
  <2> QED
    BY <1>3, <1>5, <2>1
<1>9. word = <<>> => gap = <<>> /\ rest = <<>>
  <2> SUFFICES ASSUME word = <<>> PROVE gap = <<>> /\ rest = <<>>
    OBVIOUS
  <2>1. text = rem
    BY <1>3, CatIs
  <2>2. rem = <<>>
    BY <1>2, <1>3, <2>1
  <2>3. Cat(gap, rest) = <<>>
    BY <1>4, <2>2
  <2>4. \A s, t \in Seq(P) : Cat(s, t) = <<>> => s = <<>> /\ t = <<>>
    BY CatIs
  <2> QED
    BY <1>5, <1>7, <2>3, <2>4
<1>10. word = FirstBySpaces(line) /\ rest = RestBySpaces(line)
  BY DEF FirstBySpaces, RestBySpaces, word, rest, rem, text
<1>11. line = Cat(sp, Cat(word, Cat(gap, rest)))
  BY <1>1, <1>3, <1>4
<1> QED
  BY <1>5, <1>6, <1>8, <1>9, <1>10, <1>11 DEF P

LEMMA PlainLine ==
  ASSUME NEW C, Alphabet(C), NEW line \in Seq(PlainChar), Len(FirstBySpaces(line)) < TokenMaxLen
  PROVE  /\ FirstBySpaces(line) = <<>> => Tokenize(line) = <<>>
         /\ FirstBySpaces(line) # <<>> =>
               Tokenize(line) = Kept(Cat(<<Word(FirstBySpaces(line))>>, Tokenize(RestBySpaces(line))))
         /\ FirstBySpaces(line) \in Seq(SafeChar) /\ RestBySpaces(line) \in Seq(PlainChar)
<1>1. PICK sp \in Seq({Space}), word \in Seq(SafeChar), gap \in Seq({Space}), rest \in Seq(PlainChar) :
            /\ word = FirstBySpaces(line) /\ rest = RestBySpaces(line)
            /\ line = Cat(sp, Cat(word, Cat(gap, rest)))
            /\ word = <<>> => gap = <<>> /\ rest = <<>>
            /\ gap = <<>> => rest = <<>>
  BY PlainParts
<1>2. /\ sp \in Seq(C) /\ word \in Seq(C) /\ gap \in Seq(C) /\ rest \in Seq(C) /\ End \in C
      /\ SafeChar \subseteq C
  <2>1. {Space} \subseteq C /\ SafeChar \subseteq C /\ PlainChar \subseteq C /\ End \in C
    BY DEF Alphabet, PlainChar
  <2> QED
    BY <2>1, SeqMonotonic
<1>3. CASE word = <<>>
  <2>1. line = sp
    BY <1>1, <1>2, <1>3, CatIs
  <2> QED
    BY <1>1, <1>3, <2>1, SpacesAreNothing
<1>4. CASE word # <<>>
  <2> DEFINE head == Cat(sp, word)
  <2>1. head \in Seq(C)
    BY <1>2, CatIs
  <2>2a. ASSUME NEW next \in C PROVE Read(Start, head, next) = Within(<<>>, word)
    <3>1. Behind(word, next) \in C
      BY <1>2, BehindIs
    <3>2. Read(Start, head, next) = Read(Read(Start, sp, Behind(word, next)), word, next)
      BY <1>2, ReadOn
    <3>3. Read(Start, sp, Behind(word, next)) = Between(<<>>)
      BY <3>1, SpacesAreNothing DEF Between
    <3>4. Read(Between(<<>>), word, next) = Within(<<>>, word)
      BY <1>1, <1>2, SafeWordIsRead
    <3> QED
      BY <3>2, <3>3, <3>4
  <2> HIDE DEF head
  <2>2. ReadsAs(C, head, word)
    BY <2>2a DEF ReadsAs
  <2>3. CASE gap = <<>>
    <3>1. rest = <<>> /\ line = head
      BY <1>1, <1>2, <2>3, CatIs DEF head
    <3>2. Scan(line) = Within(<<>>, word)
      BY <1>2, <2>1, <2>2a, <3>1, ReadIsAFold
    <3>3. Tokenize(line) = <<Word(word)>>
      BY <1>2, <1>4, <3>2, WordAtTheEnd DEF Tokenize
    <3>4. Tokenize(rest) = <<>>
      <4>1. <<>> \in Seq({Space})
        OBVIOUS
      <4> QED
        BY <3>1, <4>1, SpacesAreNothing
    <3>5. Kept(Cat(<<Word(word)>>, <<>>)) = <<Word(word)>>
      <4> DEFINE w == <<Word(word)>>
                 X == [type : Kinds, value : Seq(C)]
      <4>1. w \in Seq(X) /\ Len(w) <= MaxTokens
        BY <1>2, OneToken DEF Tokens
      <4> HIDE DEF w, X
      <4>2. Cat(w, <<>>) = w /\ Kept(w) = w
        BY <4>1, CatIs, KeptHas
      <4> QED
        BY <4>2 DEF w
    <3> QED
      BY <1>1, <1>4, <3>3, <3>4, <3>5
  <2>4. CASE gap # <<>>
    <3>1. line = Cat(Cat(head, gap), rest)
      <4>1. Cat(gap, rest) \in Seq(C) /\ Cat(head, gap) \in Seq(C)
        BY <1>2, <2>1, CatIs
      <4>2. Cat(sp, Cat(word, Cat(gap, rest))) = Cat(head, Cat(gap, rest))
        BY <1>2, <4>1, CatIs DEF head
      <4>3. Cat(head, Cat(gap, rest)) = Cat(Cat(head, gap), rest)
        BY <1>2, <2>1, CatIs
      <4> QED
        BY <1>1, <4>2, <4>3
    <3>2. Tokenize(Cat(Cat(head, gap), rest)) = WordThen(word, rest)
      <4>1. gap \in Seq({Space}) /\ gap # <<>> /\ word # <<>>
        BY <1>1, <1>4, <2>4
      <4>2. word \in Seq(C) /\ head \in Seq(C) /\ rest \in Seq(C)
        BY <1>2, <2>1
      <4>3. ReadsAs(C, head, word)
        BY <2>2
      <4>4. Alphabet(C)
        OBVIOUS
      <4> QED
        BY <4>1, <4>2, <4>3, <4>4, WordAndRest
    <3> QED
      BY <1>1, <1>4, <3>1, <3>2 DEF WordThen
  <2> QED
    BY <2>3, <2>4
<1> QED
  BY <1>3, <1>4


-----------------------------------------------------------------------------
(* The words of a line, one by one. *)
Joins(s, t, u) ==
    /\ Len(u) = Len(s) + Len(t)
    /\ \A i \in 1 .. Len(s) : u[i] = s[i]
    /\ \A i \in 1 .. Len(t) : u[Len(s) + i] = t[i]

LEMMA CatHas ==
  ASSUME NEW X, NEW s \in Seq(X), NEW t \in Seq(X)
  PROVE  Cat(s, t) \in Seq(X) /\ Joins(s, t, Cat(s, t))
<1> DEFINE m == Len(s)
           n == Len(t)
           u == s \o t
<1>1. m \in Nat /\ n \in Nat
  BY LenProperties
<1>2. /\ u \in Seq(X) /\ Len(u) = m + n
      /\ \A i \in 1 .. m + n : u[i] = IF i <= m THEN s[i] ELSE t[i - m]
  BY ConcatProperties
<1> HIDE DEF u, m, n
<1>3. \A i \in 1 .. m : u[i] = s[i]
  <2>1. \A i \in 1 .. m : i \in 1 .. m + n /\ i <= m
    BY <1>1
  <2> QED
    BY <1>2, <2>1
<1>4. \A i \in 1 .. n : u[m + i] = t[i]
  <2>1. \A i \in 1 .. n : m + i \in 1 .. m + n /\ ~ (m + i <= m) /\ (m + i) - m = i
    BY <1>1
  <2> QED
    BY <1>2, <2>1
<1>5. Cat(s, t) = u
  BY DEF Cat, u
<1> QED
  BY <1>2, <1>3, <1>4, <1>5 DEF m, n, Joins

(* What does not fit behind a first word does not fit behind one or more   *)
(* others.                                                                 *)
LEMMA KeptTail ==
  ASSUME NEW X, NEW p \in Seq(X), Len(p) >= 1, NEW w \in Seq(X), Len(w) = 1, NEW y \in Seq(X)
  PROVE  /\ Kept(Cat(w, y)) # <<>> /\ Kept(Cat(w, y))[1] = w[1]
         /\ Kept(Cat(w, y)) \in Seq(X)
         /\ Kept(Cat(p, Tail(Kept(Cat(w, y))))) = Kept(Cat(p, y))
<1> DEFINE m == Len(p)
           n == Len(y)
           M == MaxTokens
           c == Cat(w, y)
           z == Kept(c)
           r == Tail(z)
           a == Cat(p, r)
           b == Cat(p, y)
           k == IF n < M - 1 THEN n ELSE M - 1
           l == IF m + n < M THEN m + n ELSE M
<1>1. m \in Nat /\ n \in Nat /\ M \in Nat /\ M >= 1 /\ m >= 1
  BY LenProperties, RoomForTokens
<1>2. /\ c \in Seq(X) /\ Len(c) = 1 + n /\ c[1] = w[1] /\ \A i \in 1 .. n : c[1 + i] = y[i]
  <2>1. 1 \in 1 .. 1
    OBVIOUS
  <2>2. Cat(w, y) \in Seq(X) /\ Joins(w, y, Cat(w, y))
    BY CatHas
  <2> QED
    BY <2>1, <2>2 DEF Joins
<1>3. b \in Seq(X) /\ Len(b) = m + n /\ (\A i \in 1 .. m : b[i] = p[i])
      /\ \A i \in 1 .. n : b[m + i] = y[i]
  <2>1. Cat(p, y) \in Seq(X) /\ Joins(p, y, Cat(p, y))
    BY CatHas
  <2> QED
    BY <2>1 DEF Joins
<1> HIDE DEF c, b
<1>4. /\ z \in Seq(X) /\ Len(z) = IF Len(c) < M THEN Len(c) ELSE M
      /\ \A i \in 1 .. Len(z) : z[i] = c[i]
  BY <1>2, KeptHas
<1> HIDE DEF z, m, n, M
<1>5. Len(z) = k + 1 /\ k \in Nat /\ k <= n /\ 1 \in 1 .. k + 1
  BY <1>1, <1>2, <1>4
<1>6. z # <<>> /\ z[1] = w[1]
  <2>1. Len(z) # 0 /\ z[1] = c[1]
    BY <1>4, <1>5
  <2> QED
    BY <1>2, <1>4, <2>1, EmptySeq
<1> HIDE DEF k
<1>7. r \in Seq(X) /\ Len(r) = k /\ \A i \in 1 .. k : r[i] = y[i]
  <2>1. r \in Seq(X) /\ Len(r) = Len(z) - 1 /\ \A i \in 1 .. Len(r) : r[i] = z[i + 1]
    BY <1>4, <1>6, HeadTailProperties
  <2>2. Len(r) = k
    BY <1>5, <2>1
  <2>3. ASSUME NEW i \in 1 .. k PROVE r[i] = y[i]
    <3>1. i + 1 \in 1 .. Len(z) /\ i \in 1 .. n /\ i + 1 = 1 + i
      BY <1>1, <1>5
    <3> HIDE DEF r
    <3> QED
      BY <1>2, <1>4, <2>1, <2>2, <3>1
  <2> QED
    BY <2>1, <2>2, <2>3
<1> HIDE DEF r
<1>8. a \in Seq(X) /\ Len(a) = m + k /\ (\A i \in 1 .. m : a[i] = p[i])
      /\ \A i \in 1 .. k : a[m + i] = r[i]
  <2>1. Cat(p, r) \in Seq(X) /\ Joins(p, r, Cat(p, r))
    BY <1>7, CatHas
  <2> QED
    BY <1>7, <2>1 DEF m, Joins
<1> HIDE DEF a
<1>9. /\ Kept(a) \in Seq(X) /\ Len(Kept(a)) = l
      /\ \A i \in 1 .. l : Kept(a)[i] = a[i]
  <2>1. (IF m + k < M THEN m + k ELSE M) = l
    BY <1>1 DEF k
  <2>2. /\ Kept(a) \in Seq(X) /\ Len(Kept(a)) = IF Len(a) < M THEN Len(a) ELSE M
        /\ \A i \in 1 .. Len(Kept(a)) : Kept(a)[i] = a[i]
    BY <1>8, KeptHas DEF M
  <2>3. Len(Kept(a)) = l
    BY <1>8, <2>1, <2>2
  <2> QED
    BY <2>2, <2>3
<1>10. /\ Kept(b) \in Seq(X) /\ Len(Kept(b)) = l
       /\ \A i \in 1 .. l : Kept(b)[i] = b[i]
  <2>2. /\ Kept(b) \in Seq(X) /\ Len(Kept(b)) = IF Len(b) < M THEN Len(b) ELSE M
        /\ \A i \in 1 .. Len(Kept(b)) : Kept(b)[i] = b[i]
    BY <1>3, KeptHas DEF M
  <2>3. Len(Kept(b)) = l
    BY <1>3, <2>2
  <2> QED
    BY <2>2, <2>3
<1>11. ASSUME NEW i \in 1 .. l PROVE a[i] = b[i]
  <2>1. CASE i <= m
    <3>1. i \in 1 .. m
      BY <1>1, <2>1
    <3> QED
      BY <1>3, <1>8, <3>1
  <2>2. CASE ~ (i <= m)
    <3> DEFINE j == i - m
    <3>1. j \in 1 .. k /\ j \in 1 .. n /\ i = m + j
      BY <1>1, <2>2 DEF k
    <3> HIDE DEF j
    <3> QED
      BY <1>3, <1>7, <1>8, <3>1
  <2> QED
    BY <2>1, <2>2
<1> HIDE DEF l
<1>12. Kept(a) = Kept(b)
  <2>1. \A i \in 1 .. Len(Kept(a)) : Kept(a)[i] = Kept(b)[i]
    BY <1>9, <1>10, <1>11
  <2> QED
    BY <1>9, <1>10, <2>1, SeqEqual
<1> QED
  BY <1>4, <1>6, <1>12 DEF a, b, c, z, r

LEMMA FirstWordIs ==
  /\ FirstWord(<<>>) = <<>>
  /\ \A X, text : \A words \in Seq(X) :
        words # <<>> /\ words[1] = Word(text) => FirstWord(words) = text
<1>1. FirstWord(<<>>) = <<>>
  <2> DEFINE none == <<>>
             I == {i \in 1 .. Len(none) : none[i].type = "WORD"}
  <2>1. I = {}
    OBVIOUS
  <2>2. SelectInSeq(none, LAMBDA t : t.type = "WORD") = IF I # {} THEN Min(I) ELSE 0
    BY DEF SelectInSeq
  <2> HIDE DEF I, none
  <2>3. FirstWord(none) = <<>>
    BY <2>1, <2>2 DEF FirstWord
  <2> QED
    BY <2>3 DEF none
<1>2. ASSUME NEW X, NEW text, NEW words \in Seq(X), words # <<>>, words[1] = Word(text)
      PROVE  FirstWord(words) = text
  <2> DEFINE I == {i \in 1 .. Len(words) : words[i].type = "WORD"}
             i == SelectInSeq(words, LAMBDA t : t.type = "WORD")
  <2>1. Len(words) \in Nat /\ Len(words) # 0
    BY <1>2, LenProperties, EmptySeq
  <2>2. Word(text).type = "WORD" /\ Word(text).value = text
    BY DEF Word
  <2>3. 1 \in I /\ I \in SUBSET Nat
    BY <1>2, <2>1, <2>2
  <2>4. i = IF I # {} THEN Min(I) ELSE 0
    BY DEF SelectInSeq
  <2>5. \A x \in I : 1 <= x
    OBVIOUS
  <2> HIDE DEF I
  <2>6. Min(I) \in I /\ \A x \in I : Min(I) <= x
    <3>1. \E x \in I : \A y \in I : x <= y
      BY <2>3, Turning!NatHasMin
    <3> QED
      BY <3>1 DEF Min
  <2>7. Min(I) = 1
    <3> DEFINE x == Min(I)
    <3>1. x \in I /\ x \in Nat /\ x <= 1 /\ 1 <= x
      BY <2>3, <2>5, <2>6
    <3> HIDE DEF x
    <3>2. x = 1
      BY <3>1
    <3> QED
      BY <3>2 DEF x
  <2>8. i = 1
    BY <2>3, <2>4, <2>7
  <2>9. FirstWord(words) = IF i = 0 THEN <<>> ELSE words[i].value
    BY DEF FirstWord
  <2> HIDE DEF i
  <2> QED
    BY <1>2, <2>2, <2>8, <2>9
<1> QED
  BY <1>1, <1>2

-----------------------------------------------------------------------------
(* A text that closes, read up to a space or up to its end. *)
LEMMA StepsTakeOne ==
  ASSUME NEW T, NEW b, NEW q
  PROVE  /\ \A c : ~ Put(State(T, b, q, FALSE), c).skip
         /\ \A r : ~ Quote(State(T, b, q, FALSE), r).skip
         /\ ~ Flush(State(T, b, q, FALSE)).skip
         /\ \A token : ~ AddToken(Flush(State(T, b, q, FALSE)), token).skip
<1>0. \A S, d, r : ~ State(S, d, r, FALSE).skip
  BY DEF State
<1>1. \A S, d, r, k : /\ \A c : Put(State(S, d, r, k), c) = State(S, Longer(d, c), r, k)
                      /\ \A x : Quote(State(S, d, r, k), x) = State(S, d, x, k)
                      /\ \A token : AddToken(State(S, d, r, k), token) = State(Added(S, token), d, r, k)
  BY Primitives
<1> DEFINE j == FALSE
<1>2. \A k : \E S, d : Flush(State(T, b, q, k)) = State(S, d, q, k)
  BY FlushIs
<1>3. \A S, d, r : ~ State(S, d, r, j).skip
  BY <1>0
<1> HIDE DEF j
<1>4. \A c : ~ Put(State(T, b, q, j), c).skip
  BY <1>1, <1>3
<1>5. \A r : ~ Quote(State(T, b, q, j), r).skip
  BY <1>1, <1>3
<1>6. PICK S, d : Flush(State(T, b, q, j)) = State(S, d, q, j)
  BY <1>2
<1>7. ~ Flush(State(T, b, q, j)).skip
  BY <1>3, <1>6
<1>8. \A token : ~ AddToken(Flush(State(T, b, q, j)), token).skip
  BY <1>1, <1>3, <1>6
<1> QED
  BY <1>4, <1>5, <1>7, <1>8 DEF j

(* The turns that take a space along leave a text behind. *)
Settled(t, u) == (t.skip /\ t.buf # <<>>) \/ (~ t.skip /\ u = t)

StepsSettle(t) ==
    /\ \A d : Settled(Put(t, d), Put(t, d))
    /\ \A r : Settled(Quote(t, r), Quote(t, r))
    /\ Settled(Flush(t), Flush(t))
    /\ \A token : Settled(AddToken(Flush(t), token), AddToken(Flush(t), token))
    /\ \A z : Settled(Skip(Put(t, Space)), z)

LEMMA StateSettles ==
  ASSUME NEW C, Space \in C, NEW s \in States(C), ~ s.skip
  PROVE  StepsSettle(s) /\ s.quote \in Quotes
<1>0. PICK T \in Tokens(C), b \in Seq(C), q \in Quotes, k \in BOOLEAN : s = State(T, b, q, k)
  BY StateIs
<1> DEFINE t == State(T, b, q, FALSE)
<1>6. s = t
  <2>1. ~ k
    BY <1>0, StateHas
  <2> QED
    BY <1>0, <2>1
<1>1. \A x : ~ x.skip => Settled(x, x)
  BY DEF Settled
<1>2. /\ \A d : ~ Put(t, d).skip
      /\ \A r : ~ Quote(t, r).skip
      /\ ~ Flush(t).skip
      /\ \A token : ~ AddToken(Flush(t), token).skip
  BY StepsTakeOne
<1>3. \A z : Settled(Skip(Put(t, Space)), z)
  <2> DEFINE d == Longer(b, Space)
             x == State(T, d, q, TRUE)
  <2>1. d # <<>>
    BY LongerIsText
  <2>2. \A h : Put(State(T, b, q, h), Space) = State(T, d, q, h)
    BY Primitives
  <2> HIDE DEF d
  <2>3. \A h : Skip(State(T, d, q, h)) = x
    BY SkipIs
  <2>4. x.skip /\ x.buf = d
    BY DEF State
  <2> HIDE DEF x
  <2>5. \A h : Skip(Put(State(T, b, q, h), Space)) = x
    BY <2>2, <2>3
  <2>6. Skip(Put(t, Space)) = x
    BY <2>5
  <2> HIDE DEF t
  <2> QED
    BY <2>1, <2>4, <2>6 DEF Settled
<1> HIDE DEF t
<1>5. StepsSettle(t)
  <2>1. /\ \A d : Settled(Put(t, d), Put(t, d))
        /\ \A r : Settled(Quote(t, r), Quote(t, r))
        /\ Settled(Flush(t), Flush(t))
        /\ \A token : Settled(AddToken(Flush(t), token), AddToken(Flush(t), token))
    BY <1>1, <1>2
  <2> QED
    BY <1>3, <2>1 DEF StepsSettle
<1> QED
  BY <1>5, <1>6, StateIs

LEMMA TakeSettles ==
  ASSUME NEW t, StepsSettle(t), t.quote \in Quotes, NEW c
  PROVE  Settled(Take(t, c, Space), Take(t, c, End))
<1> DEFINE same(x) == Take(t, c, Space) = x /\ Take(t, c, End) = x
           take    == Take(t, c, Space) = Skip(Put(t, Space))
<1>1. Space # End /\ ~ Doubled(c, Space) /\ ~ Doubled(c, End)
  BY QuotesDiffer, KindsDiffer DEF Doubled
<1>2. CASE t.quote = SingleQuote
  <2>1. c = SingleQuote => same(Quote(t, End))
    BY <1>2, InsideSingle
  <2>2. c # SingleQuote => same(Put(t, c))
    BY <1>2, InsideSingle
  <2> QED
    BY <2>1, <2>2 DEF StepsSettle
<1>3. CASE t.quote = DoubleQuote
  <2>1. c = DoubleQuote => same(Quote(t, End))
    BY <1>3, InsideDouble
  <2>2. c = Escape => take
    BY <1>1, <1>3, InsideDouble
  <2>3. c # DoubleQuote /\ c # Escape => same(Put(t, c))
    BY <1>3, InsideDouble
  <2> QED
    BY <2>1, <2>2, <2>3 DEF StepsSettle
<1>4. CASE t.quote = End
  <2>1. c = Escape => take
    BY <1>1, <1>4, Outside
  <2>2. c = SingleQuote \/ c = DoubleQuote => same(Quote(t, c))
    BY <1>4, Outside
  <2>3. c \in SpaceChar => same(Flush(t))
    BY <1>4, Outside
  <2>4. c \in Operator1 => same(AddToken(Flush(t), SingleOp(c)))
    BY <1>1, <1>4, Outside
  <2>5. c \notin Special => same(Put(t, c))
    BY <1>4, Outside
  <2>6. c = Escape \/ c = SingleQuote \/ c = DoubleQuote \/ c \in SpaceChar \/ c \in Operator1
        \/ c \notin Special
    BY DEF Special
  <2> QED
    BY <2>1, <2>2, <2>3, <2>4, <2>5, <2>6 DEF StepsSettle
<1> QED
  BY <1>2, <1>3, <1>4 DEF Quotes

LEMMA TextSettles ==
  ASSUME NEW C, Alphabet(C), NEW e \in Seq(C)
  PROVE  Settled(Read(Start, e, Space), Read(Start, e, End))
<1>0. Space \in C /\ End \in C
  BY DEF Alphabet
<1>1. CASE e = <<>>
  <2>1. Read(Start, e, Space) = Start /\ Read(Start, e, End) = Start
    BY <1>1, ReadEmpty
  <2>2. ~ Start.skip
    BY DEF Start
  <2> QED
    BY <2>1, <2>2 DEF Settled
<1>2. CASE e # <<>>
  <2>1. PICK f \in Seq(C), c \in C : e = Append(f, c)
    BY <1>2, SequenceEmptyOrAppend
  <2> DEFINE r == Read(Start, f, c)
  <2>2. Read(Start, e, Space) = Turn(r, <<c, Space>>) /\ Read(Start, e, End) = Turn(r, <<c, End>>)
    BY <1>0, <2>1, ReadAppend
  <2>3. r \in States(C)
    BY <2>1, NoTokens, ReadKeeps
  <2> HIDE DEF r
  <2>4. CASE r.skip
    <3> DEFINE u == [r EXCEPT !.skip = FALSE]
    <3>1. Read(Start, e, Space) = u /\ Read(Start, e, End) = u
      BY <2>2, <2>4 DEF Turn
    <3>2. ~ u.skip
      BY <2>3 DEF States
    <3> HIDE DEF u
    <3> QED
      BY <3>1, <3>2 DEF Settled
  <2>5. CASE ~ r.skip
    <3>1. \A next : Turn(r, <<c, next>>) = Take(r, c, next)
      BY <2>5 DEF Turn
    <3>2. Read(Start, e, Space) = Take(r, c, Space) /\ Read(Start, e, End) = Take(r, c, End)
      BY <2>2, <3>1
    <3>3. StepsSettle(r) /\ r.quote \in Quotes
      BY <1>0, <2>3, <2>5, StateSettles
    <3> QED
      BY <3>2, <3>3, TakeSettles
  <2> QED
    BY <2>4, <2>5
<1> QED
  BY <1>1, <1>2

LEMMA ClosedText ==
  ASSUME NEW C, Alphabet(C), NEW e \in Seq(C), Closed(e)
  PROVE  \E p \in Tokens(C), u \in Seq(C) :
            Read(Start, e, Space) = Within(p, u) /\ Read(Start, e, End) = Within(p, u)
<1> DEFINE t == Read(Start, e, Space)
           v == Turn(t, <<Space, End>>)
<1>0. Space \in C /\ End \in C
  BY DEF Alphabet
<1>1. v.quote = End /\ v.buf = <<>>
  <2>1. Append(e, Space) \in Seq(C)
    BY <1>0, AppendProperties
  <2>2. Scan(Append(e, Space)) = Read(Start, Append(e, Space), End)
    BY <2>1, ReadIsAFold
  <2>3. Read(Start, Append(e, Space), End) = v
    BY <1>0, ReadAppend
  <2>4. Scan(Append(e, Space)).quote = End /\ Scan(Append(e, Space)).buf = <<>>
    BY DEF Closed, Space, End
  <2> QED
    BY <2>2, <2>3, <2>4
<1>2. t \in States(C)
  BY <1>0, NoTokens, ReadKeeps
<1>3. Settled(t, Read(Start, e, End))
  BY TextSettles
<1> HIDE DEF t
<1>4. PICK T \in Tokens(C), b \in Seq(C), q \in Quotes, k \in BOOLEAN : t = State(T, b, q, k)
  BY <1>2, StateIs
<1>5. ~ k
  <2> SUFFICES ASSUME k PROVE FALSE
    OBVIOUS
  <2>1. t = State(T, b, q, TRUE)
    BY <1>4
  <2>2. v = State(T, b, q, FALSE)
    BY <2>1, TurnIs
  <2>3. v.buf = b
    BY <2>2 DEF State
  <2>4. t.buf = b /\ t.skip
    BY <2>1 DEF State
  <2> QED
    BY <1>1, <1>3, <2>3, <2>4 DEF Settled
<1>6. t = State(T, b, q, FALSE)
  BY <1>4, <1>5
<1>7. v = Take(t, Space, End)
  BY <1>6, TurnIs
<1>8. Put(t, Space).buf # <<>>
  <2>1. \A h : Put(State(T, b, q, h), Space).buf = Longer(b, Space)
    BY Primitives, StateHas
  <2> QED
    BY <1>0, <1>4, <2>1, LongerIsText
<1>9. t.quote = q
  BY <1>4, StateHas
<1>10. q = End
  <2>1. q # SingleQuote
    <3> SUFFICES ASSUME q = SingleQuote PROVE FALSE
      OBVIOUS
    <3>1. Space # SingleQuote
      BY QuotesDiffer, KindsDiffer
    <3>2. v = Put(t, Space)
      BY <1>7, <1>9, <3>1, InsideSingle
    <3> QED
      BY <1>1, <1>8, <3>2
  <2>2. q # DoubleQuote
    <3> SUFFICES ASSUME q = DoubleQuote PROVE FALSE
      OBVIOUS
    <3>1. Space # DoubleQuote /\ Space # Escape
      BY QuotesDiffer, KindsDiffer
    <3>2. v = Put(t, Space)
      BY <1>7, <1>9, <3>1, InsideDouble
    <3> QED
      BY <1>1, <1>8, <3>2
  <2> QED
    BY <1>4, <2>1, <2>2 DEF Quotes
<1>11. t = Within(T, b)
  BY <1>6, <1>10 DEF Within
<1>12. Read(Start, e, End) = t
  <2>1. ~ t.skip
    BY <1>4, <1>5, StateHas
  <2> QED
    BY <1>3, <2>1 DEF Settled
<1> QED
  BY <1>4, <1>11, <1>12 DEF t

LEMMA ClosedTextAndRest ==
  ASSUME NEW C, Alphabet(C), NEW e \in Seq(C), Closed(e), NEW rest \in Seq(C)
  PROVE  Tokenize(Cat(Cat(e, <<Space>>), rest)) = Kept(Cat(Tokenize(e), Tokenize(rest)))
<1> DEFINE one  == <<Space>>
           head == Cat(e, one)
           b    == Behind(rest, End)
           q    == Tokenize(e)
<1>0. Space \in C /\ End \in C /\ one \in Seq(C) /\ one \in Seq({Space}) /\ one # <<>>
  BY DEF Alphabet
<1>1. PICK p \in Tokens(C), u \in Seq(C) :
            Read(Start, e, Space) = Within(p, u) /\ Read(Start, e, End) = Within(p, u)
  BY ClosedText
<1>2. Behind(one, b) = Space
  BY DEF Behind
<1> HIDE DEF one
<1>3. b \in C
  BY <1>0, BehindIs
<1> HIDE DEF b
<1>4. \E r : Flush(Within(p, u)) = Between(r)
  BY FlushWithin DEF Between
<1>5. Flush(Within(p, u)) = Between(q)
  <2>1. Scan(e) = Within(p, u)
    BY <1>1, ReadIsAFold
  <2>2. q = Flush(Within(p, u)).tokens
    BY <2>1 DEF Tokenize
  <2>3. PICK r : Flush(Within(p, u)) = Between(r)
    BY <1>4
  <2> HIDE DEF q
  <2>4. q = r
    BY <2>2, <2>3, WithinHas
  <2> QED
    BY <2>3, <2>4
<1>6. q \in Tokens(C) /\ Len(q) <= MaxTokens
  BY <1>0, Resumed, NoTokens, RoomForTokens, TokensFit
<1> HIDE DEF q
<1>7. Read(Start, head, b) = Between(q)
  <2>1. Read(Start, head, b) = Read(Read(Start, e, Space), one, b)
    BY <1>0, <1>2, <1>3, ReadOn
  <2>2. Read(Within(p, u), one, b) = AfterSpaces(Within(p, u), one)
    BY <1>0, <1>3, SpacesEndAWord
  <2> QED
    BY <1>0, <1>1, <1>5, <2>1, <2>2 DEF AfterSpaces
<1>8. head \in Seq(C) /\ Cat(head, rest) \in Seq(C)
  BY <1>0, CatIs
<1> HIDE DEF head
<1>9. Read(Start, Cat(head, rest), End) = Read(Between(q), rest, End)
  BY <1>0, <1>7, <1>8, ReadOn DEF b
<1>10. Tokenize(Cat(head, rest)) = Flush(Read(Between(q), rest, End)).tokens
  BY <1>8, <1>9, ReadIsAFold DEF Tokenize
<1>11. Tokenize(Cat(head, rest)) = Kept(Cat(q, Tokenize(rest)))
  BY <1>0, <1>6, <1>10, Resumed
<1> QED
  BY <1>11 DEF head, one, q

-----------------------------------------------------------------------------
(* What alias_expand makes of a plain line with a word. *)
LEMMA ExpandedLine ==
  ASSUME NEW C, Alphabet(C), NEW line \in Seq(PlainChar), Len(FirstBySpaces(line)) < TokenMaxLen,
         Tokenize(line) # <<>>, NEW e \in Seq(C), Closed(e), Tokenize(e) # <<>>,
         Len(FirstBySpaces(line)) < WordSize, Len(Expanded(line, e)) < OutSize
  PROVE  Tokenize(AliasExpand(line, [w \in {FirstBySpaces(line)} |-> e]))
            = Kept(Cat(Tokenize(e), Tail(Tokenize(line))))
<1> DEFINE X    == [type : Kinds, value : Seq(C)]
           word == FirstBySpaces(line)
           rest == RestBySpaces(line)
           one  == <<Word(word)>>
           p    == Tokenize(e)
           y    == Tokenize(rest)
<1>1. /\ word # <<>> /\ Tokenize(line) = Kept(Cat(one, y))
      /\ word \in Seq(SafeChar) /\ rest \in Seq(PlainChar)
  BY PlainLine
<1>2. End \in C /\ rest \in Seq(C) /\ word \in Seq(C)
  <2>1. SafeChar \subseteq C /\ PlainChar \subseteq C /\ End \in C
    BY DEF Alphabet, PlainChar
  <2> QED
    BY <1>1, <2>1, SeqMonotonic
<1>3. one \in Seq(X) /\ Len(one) = 1
  BY <1>2, OneToken DEF Tokens
<1>4. p \in Seq(X) /\ y \in Seq(X)
  <2>1. p \in Tokens(C) /\ y \in Tokens(C)
    BY <1>2, NoTokens, RoomForTokens, TokensFit, Resumed
  <2> QED
    BY <2>1 DEF Tokens
<1>5. AliasExpand(line, [w \in {word} |-> e]) = IF rest = <<>> THEN e ELSE Cat(Cat(e, <<Space>>), rest)
  <2> DEFINE f == [w \in {word} |-> e]
  <2>1. word \in DOMAIN f /\ f[word] = e
    OBVIOUS
  <2> HIDE DEF f
  <2>2. AliasExpand(line, f) = Written(Expanded(line, e))
    <3>1. ~ (Len(word) >= WordSize)
      <4>1. Len(word) \in Nat /\ WordSize \in Nat /\ Len(word) < WordSize
        BY <1>1, LenProperties, TokenAssumption
      <4> HIDE DEF word
      <4> QED
        BY <4>1
    <3> QED
      BY <1>1, <2>1, <3>1, Zenon DEF AliasExpand
  <2>3. Expanded(line, e) = IF rest = <<>> THEN e ELSE Cat(Cat(e, <<Space>>), rest)
    BY DEF Expanded, Cat, Space
  <2>4. Expanded(line, e) \in Seq(C)
    <3> DEFINE space == <<Space>>
    <3>1. space \in Seq(C)
      BY DEF Alphabet
    <3> HIDE DEF space
    <3>2. Cat(Cat(e, space), rest) \in Seq(C)
      BY <1>2, <3>1, CatIs
    <3> QED
      BY <2>3, <3>2 DEF space
  <2>5. Written(Expanded(line, e)) = Expanded(line, e)
    <3> DEFINE x == Expanded(line, e)
    <3>1. x \in Seq(C) /\ Len(x) < OutSize
      BY <2>4
    <3> HIDE DEF x
    <3>2. SubSeq(x, 1, Len(x)) = x
      BY <3>1
    <3> QED
      BY <3>1, <3>2 DEF Written, x
  <2> QED
    BY <2>2, <2>3, <2>5 DEF f
<1>6. Tokenize(AliasExpand(line, [w \in {word} |-> e])) = Kept(Cat(p, y))
  <2>1. CASE rest = <<>>
    <3>1. rest \in Seq({Space})
      BY <2>1
    <3>2. y = <<>>
      BY <3>1, SpacesAreNothing
    <3>3. AliasExpand(line, [w \in {word} |-> e]) = e
      BY <1>5, <2>1
    <3>4. Cat(p, y) = p
      BY <1>4, <3>2, CatIs
    <3>5. Kept(p) = p
      BY <1>2, TokensFit
    <3> QED
      BY <3>3, <3>4, <3>5
  <2>2. CASE rest # <<>>
    <3>1. AliasExpand(line, [w \in {word} |-> e]) = Cat(Cat(e, <<Space>>), rest)
      BY <1>5, <2>2
    <3> QED
      BY <1>2, <3>1, ClosedTextAndRest
  <2> QED
    BY <2>1, <2>2
<1>7. Kept(Cat(p, Tail(Kept(Cat(one, y))))) = Kept(Cat(p, y))
  <2>1. p # <<>>
    OBVIOUS
  <2> HIDE DEF X, p, y, one
  <2>2. Len(p) >= 1
    <3>1. Len(p) \in Nat /\ Len(p) # 0
      BY <1>4, <2>1, LenProperties, EmptySeq
    <3> QED
      BY <3>1
  <2> QED
    BY <1>3, <1>4, <2>2, KeptTail
<1> QED
  BY <1>1, <1>6, <1>7

LEMMA PlainFirstWord ==
  ASSUME NEW C, Alphabet(C), NEW line \in Seq(PlainChar), Len(FirstBySpaces(line)) < TokenMaxLen
  PROVE  FirstWord(Tokenize(line)) = FirstBySpaces(line)
<1> DEFINE X    == [type : Kinds, value : Seq(C)]
           word == FirstBySpaces(line)
           y    == Tokenize(RestBySpaces(line))
           one  == <<Word(word)>>
<1>1. CASE word = <<>>
  BY <1>1, PlainLine, FirstWordIs
<1>2. CASE word # <<>>
  <2>1. /\ Tokenize(line) = Kept(Cat(one, y))
        /\ word \in Seq(SafeChar) /\ RestBySpaces(line) \in Seq(PlainChar)
    BY <1>2, PlainLine
  <2>2. End \in C /\ RestBySpaces(line) \in Seq(C) /\ word \in Seq(C)
    <3>1. SafeChar \subseteq C /\ PlainChar \subseteq C /\ End \in C
      BY DEF Alphabet, PlainChar
    <3> QED
      BY <2>1, <3>1, SeqMonotonic
  <2>3. one \in Seq(X) /\ Len(one) = 1 /\ one[1] = Word(word)
    BY <2>2, OneToken DEF Tokens
  <2>4. y \in Seq(X)
    <3>1. y \in Tokens(C)
      BY <2>2, NoTokens, RoomForTokens, TokensFit, Resumed
    <3> QED
      BY <3>1 DEF Tokens
  <2> HIDE DEF X, y, one, word
  <2>5. Kept(Cat(one, y)) # <<>> /\ Kept(Cat(one, y))[1] = one[1] /\ Kept(Cat(one, y)) \in Seq(X)
    <3>1. Len(one) >= 1
      BY <2>3
    <3> QED
      BY <2>3, <2>4, <3>1, KeptTail
  <2>6. FirstWord(Kept(Cat(one, y))) = word
    BY <2>3, <2>5, FirstWordIs
  <2> QED
    BY <2>1, <2>6 DEF word
<1> QED
  BY <1>1, <1>2

-----------------------------------------------------------------------------
(* The lines of the property are sequences, of characters that can be      *)
(* extended by those the functions put in.                                 *)
LEMMA LinesAreSequences ==
  ASSUME NEW n, NEW s \in Line(n)
  PROVE  s \in Seq(Char)
<1>1. PICK k \in 0 .. n : s \in [1 .. k -> Char]
  BY DEF Line
<1>2. k \in Nat /\ s = [i \in 1 .. k |-> s[i]] /\ \A i \in 1 .. k : s[i] \in Char
  BY <1>1
<1> QED
  BY <1>2, IsASeq

LEMMA SequencesOfRange ==
  ASSUME NEW C, NEW s \in Seq(C), NEW D, Range(s) \subseteq D
  PROVE  s \in Seq(D)
<1>1. Len(s) \in Nat /\ DOMAIN s = 1 .. Len(s) /\ s = [i \in 1 .. Len(s) |-> s[i]]
  BY LenProperties
<1>2. \A i \in 1 .. Len(s) : s[i] \in D
  BY <1>1 DEF Range
<1> QED
  BY <1>1, <1>2, IsASeq

Extended(D) == D \cup ({End, Space, SingleQuote, Escape} \cup SafeChar)

LEMMA WithIsAlphabet ==
  ASSUME NEW D, NEW s \in Seq(D)
  PROVE  Alphabet(Extended(D)) /\ s \in Seq(Extended(D))
<1>1. D \subseteq Extended(D)
  BY DEF Extended
<1>2. s \in Seq(Extended(D))
  BY <1>1, SeqMonotonic
<1>3. Alphabet(Extended(D))
  BY DEF Alphabet, Extended
<1> QED
  BY <1>2, <1>3

LEMMA PlainLineParts ==
  ASSUME NEW line \in Line(MaxLine), Plain(line), Len(FirstBySpaces(line)) < TokenMaxLen
  PROVE  /\ FirstWord(Tokenize(line)) = FirstBySpaces(line)
         /\ Tokenize(line) # <<>> =>
            \A e \in Expansion :
               Closed(e) /\ Tokenize(e) # <<>> /\ Len(Expanded(line, e)) < OutSize =>
                 Tokenize(AliasExpand(line, [w \in {FirstBySpaces(line)} |-> e]))
                    = IF Len(FirstBySpaces(line)) < WordSize
                      THEN Kept(Tokenize(e) \o Tail(Tokenize(line))) ELSE Tokenize(line)
<1> DEFINE word == FirstBySpaces(line)
<1>1. line \in Seq(PlainChar)
  <2>1. line \in Seq(Char)
    BY LinesAreSequences
  <2>2. Range(line) \subseteq PlainChar
    BY DEF Plain, PlainChar, Space
  <2> QED
    BY <2>1, <2>2, SequencesOfRange
<1>2. Alphabet(Extended(PlainChar))
  BY <1>1, WithIsAlphabet
<1>3. FirstWord(Tokenize(line)) = word
  BY <1>1, <1>2, PlainFirstWord
<1>4. ASSUME Tokenize(line) # <<>>, NEW e \in Expansion, Closed(e), Tokenize(e) # <<>>,
             Len(Expanded(line, e)) < OutSize, Len(word) < WordSize
      PROVE  Tokenize(AliasExpand(line, [w \in {word} |-> e]))
                = Kept(Tokenize(e) \o Tail(Tokenize(line)))
  <2>1. e \in Seq(Range(e))
    BY LibraryAssumption
  <2> DEFINE C == Extended(Range(e))
  <2>2. Alphabet(C) /\ e \in Seq(C)
    BY <2>1, WithIsAlphabet
  <2> HIDE DEF C
  <2>3. Tokenize(AliasExpand(line, [w \in {word} |-> e])) = Kept(Cat(Tokenize(e), Tail(Tokenize(line))))
    BY <1>1, <1>4, <2>2, ExpandedLine
  <2> QED
    BY <2>3 DEF Cat
<1>5. ASSUME NEW f, ~ (Len(word) < WordSize)
      PROVE  AliasExpand(line, f) = line
  <2>1. word \in Seq(SafeChar)
    BY <1>1, <1>2, PlainLine
  <2>2. Len(word) \in Nat /\ WordSize \in Nat
    BY <2>1, LenProperties, TokenAssumption
  <2> HIDE DEF word
  <2>3. Len(word) >= WordSize
    BY <1>5, <2>2
  <2> QED
    BY <2>3, Zenon DEF AliasExpand, word
<1> HIDE DEF word
<1>6. ASSUME Tokenize(line) # <<>>, NEW e \in Expansion, Closed(e), Tokenize(e) # <<>>,
             Len(Expanded(line, e)) < OutSize
      PROVE  Tokenize(AliasExpand(line, [w \in {word} |-> e]))
                = IF Len(word) < WordSize THEN Kept(Tokenize(e) \o Tail(Tokenize(line)))
                  ELSE Tokenize(line)
  BY <1>4, <1>5, <1>6, Zenon
<1> QED
  BY <1>3, <1>6, Zenon DEF word

(* Whatever characters there are: what shell_quote writes into a buffer     *)
(* with room for it, a shell reads as the one word it was, alone or in     *)
(* front of another, and a safe token is a word without quotes.            *)
THEOREM QuotingHolds == Spec => []QuotedIsOneWord
<1>1. QuotedIsOneWord
  <2> DEFINE C == Char \cup {SingleQuote, Escape, Space}
  <2>1. SingleQuote \in C /\ Escape \in C /\ Space \in C /\ Char \subseteq C
    OBVIOUS
  <2> HIDE DEF C
  <2>2. \A n : \A s \in Line(n) : s \in Seq(Char) /\ s \in Seq(C)
    BY <2>1, LinesAreSequences, SeqMonotonic
  <2>3. ASSUME NEW s \in Line(MaxLine)
        PROVE  /\ ShellWords(Quoted(s)) = <<s>>
               /\ \A size : ShellQuote(s, size) # Failed => ShellWords(ShellQuote(s, size)) = <<s>>
               /\ IsSafeToken(s) => ShellWords(s) = <<s>>
    <3>1. s \in Seq(Char) /\ s \in Seq(C)
      BY <2>2
    <3>2. IsSafeToken(s) => s # <<>> /\ s \in Seq(SafeChar)
      BY <3>1, SequencesOfRange DEF IsSafeToken
    <3> QED
      BY <2>1, <3>1, <3>2, QuotedIsAWord, SafeIsAWord
  <2>4. ASSUME NEW s \in Line(2), NEW t \in Line(MaxLine - 1)
        PROVE  ShellWords(Quoted(s) \o <<Space>> \o Quoted(t)) = <<s, t>>
    BY <2>1, <2>2, TwoQuotedAreTwoWords
  <2> QED
    BY <2>3, <2>4 DEF QuotedIsOneWord, Space
<1> QED
  BY <1>1, PTL

(* Whatever characters and expansions there are, and whatever the limits    *)
(* of tokens, words and buffers: in a plain line alias_expand looks up the *)
(* first word of the tokens, and replaces that and no other if the word    *)
(* and the new line are within alias_expand's limits; a longer word        *)
(* leaves the line as it is.                                               *)
THEOREM WordsHold == Spec => []WordsSurvive
<1>1. WordsSurvive
  <2>1. ASSUME NEW line \in Line(MaxLine), Plain(line)
        PROVE  LET words == Tokenize(line)
                   word  == FirstBySpaces(line)
               IN  Len(word) < TokenMaxLen =>
                   /\ FirstWord(words) = word
                   /\ words # <<>> =>
                      \A e \in Expansion :
                         Closed(e) /\ Tokenize(e) # <<>> /\ Len(Expanded(line, e)) < OutSize =>
                           Tokenize(AliasExpand(line, [w \in {word} |-> e]))
                               = IF Len(word) < WordSize
                                 THEN Kept(Tokenize(e) \o Tail(words)) ELSE words
    BY <2>1, PlainLineParts
  <2> QED
    BY <2>1 DEF WordsSurvive
<1> QED
  BY <1>1, PTL

-----------------------------------------------------------------------------
(* What is digested.  The blocks one behind the other are one text; a       *)
(* context has read the text of its blocks and of the buffer's begin.      *)
Joining   == INSTANCE FoldFacts WITH Step <- Joined, Good <- Whole
Digesting == INSTANCE FoldFacts WITH Step <- ShaByte, Good <- Whole

Flat(blocks) == Joining!Folded(<<>>, blocks)
Held(d, k)   == [i \in 1 .. k |-> d[i - 1]]
Begin(s, k)  == [i \in 1 .. k |-> s[i]]
Buffers(S)   == [0 .. Block - 1 -> S]
Contexts(S)  == [data : Buffers(S), datalen : 0 .. Block - 1, bitlen : Nat, blocks : Seq(Seq(S))]
Multiples    == {q * Block : q \in Nat}

HasRead(ctx, s) ==
    /\ Cat(Flat(ctx.blocks), Held(ctx.data, ctx.datalen)) = s
    /\ ctx.bitlen = 8 * Len(Flat(ctx.blocks))
    /\ Len(Flat(ctx.blocks)) \in Multiples

LEMMA BlockIs ==
  /\ Block \in Nat /\ Block > 8 /\ LengthAt \in Nat /\ LengthAt > 0 /\ LengthAt = Block - 8
  /\ Block = LengthAt + 8
BY BlockAssumption DEF LengthAt

LEMMA FoldsAre ==
  /\ \A blocks : FoldLeft(Joined, <<>>, blocks) = Flat(blocks)
  /\ \A s : FoldLeft(ShaByte, ShaInit, s) = Digesting!Folded(ShaInit, s)
<1>1. \A blocks : FoldLeft(Joined, <<>>, blocks) = Flat(blocks)
  BY DEF Flat, Joining!Folded, FoldLeft, Joining!FoldLeft,
         MapThenFoldSet, Joining!MapThenFoldSet, Max, Joining!Max
<1>2. \A s : FoldLeft(ShaByte, ShaInit, s) = Digesting!Folded(ShaInit, s)
  BY DEF Digesting!Folded, FoldLeft, Digesting!FoldLeft,
         MapThenFoldSet, Digesting!MapThenFoldSet, Max, Digesting!Max
<1> QED
  BY <1>1, <1>2

LEMMA FlatAppend ==
  /\ Flat(<<>>) = <<>>
  /\ \A S : \A blocks \in Seq(Seq(S)), b \in Seq(S) : Flat(Append(blocks, b)) = Cat(Flat(blocks), b)
<1>1. Flat(<<>>) = <<>>
  BY Joining!FoldedEmpty DEF Flat
<1>2. ASSUME NEW S, NEW blocks \in Seq(Seq(S)), NEW b \in Seq(S)
      PROVE  Flat(Append(blocks, b)) = Cat(Flat(blocks), b)
  <2> DEFINE X == Seq(S)
             none == <<>>
  <2> HIDE DEF X, none
  <2>1. blocks \in Seq(X) /\ b \in X
    BY DEF X
  <2>2. Joining!Folded(none, Append(blocks, b)) = Joined(Joining!Folded(none, blocks), b)
    BY <2>1, Joining!FoldedAppend
  <2> QED
    BY <2>2 DEF Flat, Joined, Cat, none
<1> QED
  BY <1>1, <1>2

LEMMA FlatIsText ==
  ASSUME NEW S
  PROVE  \A blocks \in Seq(Seq(S)) : Flat(blocks) \in Seq(S)
<1> DEFINE X == Seq(S)
           T == {blocks \in Seq(X) : Flat(blocks) \in X}
<1>1. <<>> \in T
  <2>1. <<>> \in Seq(S) /\ <<>> \in Seq(X) /\ Flat(<<>>) = <<>>
    BY FlatAppend
  <2> QED
    BY <2>1
<1>2. ASSUME NEW s \in Seq(X), NEW e \in X, s \in T PROVE Append(s, e) \in T
  <2>1. Flat(s) \in Seq(S)
    BY <1>2
  <2>2. Flat(Append(s, e)) = Cat(Flat(s), e)
    BY FlatAppend
  <2>3. Cat(Flat(s), e) \in Seq(S)
    BY <2>1, CatIs
  <2>4. Append(s, e) \in Seq(X)
    BY AppendProperties
  <2> QED
    BY <2>2, <2>3, <2>4
<1> HIDE DEF T, X
<1>3. \A s \in Seq(X) : s \in T
  BY <1>1, <1>2, Joining!SequenceInduction
<1> QED
  BY <1>3 DEF T, X

LEMMA CatMakes ==
  ASSUME NEW S, NEW s \in Seq(S), NEW t \in Seq(S), NEW u \in Seq(S), Joins(s, t, u)
  PROVE  u = Cat(s, t)
<1> DEFINE v == Cat(s, t)
           m == Len(s)
           n == Len(t)
<1>1. m \in Nat /\ n \in Nat
  BY LenProperties
<1>2. v \in Seq(S) /\ Joins(s, t, v)
  BY CatHas
<1> HIDE DEF v
<1>3. /\ Len(v) = m + n /\ Len(u) = m + n
      /\ \A i \in 1 .. m : u[i] = v[i]
      /\ \A i \in 1 .. n : u[m + i] = v[m + i]
  BY <1>2 DEF Joins
<1> HIDE DEF m, n
<1>4. ASSUME NEW i \in 1 .. m + n PROVE u[i] = v[i]
  <2>1. CASE i <= m
    BY <1>1, <1>3, <2>1
  <2>2. CASE ~ (i <= m)
    <3> DEFINE j == i - m
    <3>1. j \in 1 .. n /\ i = m + j
      BY <1>1, <2>2
    <3> HIDE DEF j
    <3> QED
      BY <1>3, <3>1
  <2> QED
    BY <2>1, <2>2
<1>5. u = v
  BY <1>2, <1>3, <1>4, SeqEqual
<1> QED
  BY <1>5 DEF v

LEMMA PartIs ==
  ASSUME NEW S, NEW d \in Buffers(S), NEW k \in 0 .. Block
  PROVE  /\ Held(d, k) \in Seq(S) /\ Len(Held(d, k)) = k
         /\ \A i \in 1 .. k : Held(d, k)[i] = d[i - 1]
<1>1. k \in Nat /\ \A i \in 1 .. k : d[i - 1] \in S
  BY BlockIs DEF Buffers
<1> QED
  BY <1>1, IsASeq DEF Held

(* The buffer's begin, one byte further. *)
LEMMA PartGrows ==
  ASSUME NEW S, NEW d \in Buffers(S), NEW k \in 0 .. Block - 1, NEW b \in S
  PROVE  /\ [d EXCEPT ![k] = b] \in Buffers(S)
         /\ Held([d EXCEPT ![k] = b], k + 1) = Cat(Held(d, k), <<b>>)
<1> DEFINE e == [d EXCEPT ![k] = b]
           one == <<b>>
<1>1. e \in Buffers(S) /\ e[k] = b /\ \A i \in 0 .. Block - 1 : i # k => e[i] = d[i]
  BY DEF Buffers
<1>2. one \in Seq(S) /\ Len(one) = 1 /\ one[1] = b
  OBVIOUS
<1> HIDE DEF e, one
<1>3. k \in 0 .. Block /\ k + 1 \in 0 .. Block /\ k \in Nat
  BY BlockIs
<1>4. /\ Held(d, k) \in Seq(S) /\ Len(Held(d, k)) = k
      /\ \A i \in 1 .. k : Held(d, k)[i] = d[i - 1]
  BY <1>3, PartIs
<1>5. /\ Held(e, k + 1) \in Seq(S) /\ Len(Held(e, k + 1)) = k + 1
      /\ \A i \in 1 .. k + 1 : Held(e, k + 1)[i] = e[i - 1]
  BY <1>1, <1>3, PartIs
<1>6. \A i \in 1 .. k : Held(e, k + 1)[i] = Held(d, k)[i]
  <2> SUFFICES ASSUME NEW i \in 1 .. k PROVE Held(e, k + 1)[i] = Held(d, k)[i]
    OBVIOUS
  <2>1. i \in 1 .. k + 1 /\ i - 1 \in 0 .. Block - 1 /\ i - 1 # k
    BY <1>3, BlockIs
  <2> QED
    BY <1>1, <1>4, <1>5, <2>1
<1>7. \A i \in 1 .. 1 : Held(e, k + 1)[k + i] = one[i]
  <2>1. k + 1 \in 1 .. k + 1 /\ (k + 1) - 1 = k
    BY <1>3
  <2>2. Held(e, k + 1)[k + 1] = b
    BY <1>1, <1>5, <2>1
  <2> QED
    BY <1>2, <2>2
<1>8. Joins(Held(d, k), one, Held(e, k + 1))
  BY <1>2, <1>4, <1>5, <1>6, <1>7 DEF Joins
<1>9. Held(e, k + 1) = Cat(Held(d, k), one)
  BY <1>2, <1>4, <1>5, <1>8, CatMakes
<1> QED
  BY <1>1, <1>9 DEF e, one

(* What sha256_update has read after each byte. *)
LEMMA ByteIsRead ==
  ASSUME NEW S, NEW ctx \in Contexts(S), NEW s \in Seq(S), HasRead(ctx, s), NEW b \in S
  PROVE  ShaByte(ctx, b) \in Contexts(S) /\ HasRead(ShaByte(ctx, b), Append(s, b))
<1> DEFINE k   == ctx.datalen
           d   == ctx.data
           e   == [d EXCEPT ![k] = b]
           f   == Flat(ctx.blocks)
           one == <<b>>
           n   == ShaByte(ctx, b)
<1>1. /\ k \in 0 .. Block - 1 /\ d \in Buffers(S) /\ ctx.bitlen \in Nat
      /\ ctx.blocks \in Seq(Seq(S))
  BY DEF Contexts
<1>2. /\ Cat(f, Held(d, k)) = s /\ ctx.bitlen = 8 * Len(f) /\ Len(f) \in Multiples
  BY DEF HasRead
<1>3. f \in Seq(S) /\ Len(f) \in Nat
  BY <1>1, FlatIsText, LenProperties
<1>4. e \in Buffers(S) /\ Held(e, k + 1) = Cat(Held(d, k), one)
  BY <1>1, PartGrows
<1>5. one \in Seq(S) /\ Append(s, b) = Cat(s, one)
  BY AppendIsConcat DEF Cat
<1>6. Held(d, k) \in Seq(S) /\ k \in 0 .. Block /\ k + 1 \in 0 .. Block /\ k \in Nat
      /\ 0 \in 0 .. Block - 1
  <2>1. k \in 0 .. Block /\ k + 1 \in 0 .. Block /\ k \in Nat /\ 0 \in 0 .. Block - 1
    BY <1>1, BlockIs
  <2> HIDE DEF k, d
  <2> QED
    BY <1>1, <2>1, PartIs
<1>7. Append(s, b) = Cat(f, Held(e, k + 1))
  <2> HIDE DEF f, e, k, d, one
  <2>1. Cat(Cat(f, Held(d, k)), one) = Cat(f, Cat(Held(d, k), one))
    BY <1>3, <1>5, <1>6, CatIs
  <2> QED
    BY <1>2, <1>4, <1>5, <2>1
<1>8. CASE k + 1 < Block
  <2>1. n = [ctx EXCEPT !.data = e, !.datalen = k + 1]
    BY <1>8 DEF ShaByte, Contexts
  <2>2. n \in Contexts(S) /\ n.data = e /\ n.datalen = k + 1 /\ n.bitlen = ctx.bitlen
        /\ n.blocks = ctx.blocks
    <3>1. k + 1 \in 0 .. Block - 1
      BY <1>6, <1>8, BlockIs
    <3> HIDE DEF e, n, k
    <3> QED
      BY <1>4, <2>1, <3>1 DEF Contexts
  <2> QED
    BY <1>2, <1>7, <2>2 DEF HasRead
<1>9. CASE ~ (k + 1 < Block)
  <2> DEFINE p == Held(e, Block)
             g == Append(ctx.blocks, p)
             z == 0
  <2>0. k + 1 = Block
    BY <1>6, <1>9, BlockIs
  <2>2. p \in Seq(S) /\ Len(p) = Block
    BY <1>4, <1>6, <2>0, PartIs
  <2> HIDE DEF p
  <2>3. g \in Seq(Seq(S))
    BY <1>1, <2>2, AppendProperties
  <2>4. Flat(g) = Cat(f, p)
    BY <1>1, <2>2, FlatAppend
  <2> HIDE DEF g
  <2>5. Len(Flat(g)) = Len(f) + Block /\ Flat(g) \in Seq(S)
    BY <1>3, <2>2, <2>4, CatHas DEF Joins
  <2>6. n \in Contexts(S) /\ n.data = e /\ n.datalen = z /\ n.bitlen = ctx.bitlen + 8 * Block
        /\ n.blocks = g
    <3> DEFINE h == k + 1
               c == [ctx EXCEPT !.data = e, !.datalen = h]
               m == ctx.bitlen + 8 * Block
               D == Buffers(S)
               Q == Seq(Seq(S))
               K == 0 .. Block
    <3>1. m \in Nat /\ z \in K /\ h \in K /\ e \in D /\ g \in Q
      BY <1>1, <1>4, <1>6, <2>3, BlockIs
    <3>2. ctx \in [data : D, datalen : K, bitlen : Nat, blocks : Q]
      BY BlockIs DEF Contexts
    <3>3. n = [Transform(c, c.data) EXCEPT !.bitlen = @ + 8 * Block, !.datalen = 0]
      BY <1>9 DEF ShaByte, Contexts
    <3> HIDE DEF h, e, D, Q, K
    <3>4. /\ c \in [data : D, datalen : K, bitlen : Nat, blocks : Q]
          /\ c.data = e /\ c.datalen = h /\ c.bitlen = ctx.bitlen /\ c.blocks = ctx.blocks
      BY <3>1, <3>2
    <3> HIDE DEF c
    <3>5. Transform(c, c.data) = [c EXCEPT !.blocks = g]
      BY <3>4 DEF Transform, Held, g, p
    <3> HIDE DEF n, z
    <3>6. n = [[c EXCEPT !.blocks = g] EXCEPT !.bitlen = @ + 8 * Block, !.datalen = z]
      BY <3>3, <3>5 DEF z
    <3> DEFINE w == [c EXCEPT !.blocks = g]
    <3>7. /\ w \in [data : D, datalen : K, bitlen : Nat, blocks : Q]
          /\ w.data = e /\ w.bitlen = ctx.bitlen /\ w.blocks = g
      BY <3>1, <3>4
    <3> HIDE DEF w
    <3>8. n = [w EXCEPT !.bitlen = w.bitlen + 8 * Block, !.datalen = z]
      BY <3>6 DEF w
    <3>9. n = [w EXCEPT !.bitlen = m, !.datalen = z]
      BY <3>7, <3>8
    <3> HIDE DEF m
    <3>10. /\ n \in [data : D, datalen : K, bitlen : Nat, blocks : Q]
           /\ n.data = e /\ n.datalen = z /\ n.bitlen = m /\ n.blocks = g
      BY <3>1, <3>7, <3>9
    <3>11. n.datalen \in 0 .. Block - 1
      BY <1>6, <3>10 DEF z
    <3>12. n \in [data : D, datalen : 0 .. Block - 1, bitlen : Nat, blocks : Q]
      BY <3>10, <3>11
    <3> QED
      BY <3>10, <3>12 DEF Contexts, m, D, Q
  <2>7. n.bitlen = 8 * Len(Flat(g))
    BY <1>2, <1>3, <2>5, <2>6, BlockIs
  <2>8. Len(Flat(g)) \in Multiples
    <3>1. PICK q \in Nat : Len(f) = q * Block
      BY <1>2 DEF Multiples
    <3>2. q + 1 \in Nat /\ (q + 1) * Block = q * Block + Block
      BY BlockIs
    <3> QED
      BY <2>5, <3>1, <3>2 DEF Multiples
  <2>9. Held(n.data, n.datalen) = <<>>
    BY <2>6 DEF Held
  <2>10. Cat(Flat(g), Held(n.data, n.datalen)) = Append(s, b)
    <3>1. Cat(Flat(g), Held(n.data, n.datalen)) = Flat(g)
      BY <2>5, <2>9, CatIs
    <3>2. Append(s, b) = Cat(f, p)
      BY <1>7, <2>0 DEF p
    <3> QED
      BY <2>4, <3>1, <3>2
  <2>11. HasRead(n, Append(s, b))
    <3> HIDE DEF n, e
    <3> QED
      BY <2>6, <2>7, <2>8, <2>10 DEF HasRead
  <2> QED
    BY <2>6, <2>11
<1> QED
  BY <1>8, <1>9

LEMMA MessageIsRead ==
  ASSUME NEW S, Unknown \in S
  PROVE  \A s \in Seq(S) : /\ Digesting!Folded(ShaInit, s) \in Contexts(S)
                           /\ HasRead(Digesting!Folded(ShaInit, s), s)
<1> DEFINE T == {s \in Seq(S) : /\ Digesting!Folded(ShaInit, s) \in Contexts(S)
                                /\ HasRead(Digesting!Folded(ShaInit, s), s)}
<1>1. <<>> \in T
  <2>1. Digesting!Folded(ShaInit, <<>>) = ShaInit /\ <<>> \in Seq(S)
    BY Digesting!FoldedEmpty
  <2>2. ShaInit \in Contexts(S)
    <3> DEFINE none == <<>>
               d    == [i \in 0 .. Block - 1 |-> Unknown]
               z    == 0
    <3>1. d \in Buffers(S) /\ none \in Seq(Seq(S)) /\ z \in 0 .. Block - 1 /\ z \in Nat
      BY BlockIs DEF Buffers
    <3>2. ShaInit = [data |-> d, datalen |-> z, bitlen |-> z, blocks |-> none]
      BY DEF ShaInit
    <3> HIDE DEF none, d, z
    <3> QED
      BY <3>1, <3>2 DEF Contexts
  <2>3. ShaInit.blocks = <<>> /\ ShaInit.datalen = 0 /\ ShaInit.bitlen = 0
    BY DEF ShaInit
  <2>4. Held(ShaInit.data, 0) = <<>> /\ Flat(<<>>) = <<>> /\ Len(<<>>) = 0 /\ Cat(<<>>, <<>>) = <<>>
    BY FlatAppend DEF Held, Cat
  <2>5. 0 \in Multiples
    <3>1. 0 \in Nat /\ 0 * Block = 0
      BY BlockIs
    <3> QED
      BY <3>1 DEF Multiples
  <2>6. HasRead(ShaInit, <<>>)
    BY <2>3, <2>4, <2>5 DEF HasRead
  <2> QED
    BY <2>1, <2>2, <2>6
<1>2. ASSUME NEW s \in Seq(S), NEW b \in S, s \in T PROVE Append(s, b) \in T
  <2>1. Digesting!Folded(ShaInit, Append(s, b)) = ShaByte(Digesting!Folded(ShaInit, s), b)
    BY Digesting!FoldedAppend
  <2>2. Append(s, b) \in Seq(S)
    BY AppendProperties
  <2> QED
    BY <1>2, <2>1, <2>2, ByteIsRead
<1> HIDE DEF T
<1>3. \A s \in Seq(S) : s \in T
  BY <1>1, <1>2, Digesting!SequenceInduction
<1> QED
  BY <1>3 DEF T

(* What sha256_final adds. *)
Ended(d, k, end)  == [i \in 0 .. Block - 1 |->
                        IF i = k THEN 128 ELSE IF i > k /\ i < end THEN 0 ELSE d[i]]
Cleared(d)        == [i \in 0 .. Block - 1 |-> IF i < LengthAt THEN 0 ELSE d[i]]
Measured(d, bits) == [i \in 0 .. Block - 1 |->
                        IF i < LengthAt THEN d[i] ELSE Byte(bits, Block - 1 - i)]
Bits(ctx)         == ctx.bitlen + 8 * ctx.datalen
OneBlock(ctx)     == Append(ctx.blocks,
                        Held(Measured(Ended(ctx.data, ctx.datalen, LengthAt), Bits(ctx)), Block))
TwoBlocks(ctx)    == Append(Append(ctx.blocks, Held(Ended(ctx.data, ctx.datalen, Block), Block)),
                        Held(Measured(Cleared(Ended(ctx.data, ctx.datalen, Block)), Bits(ctx)), Block))

LEMMA FinalIs ==
  ASSUME NEW S, NEW ctx \in Contexts(S)
  PROVE  /\ ctx.datalen < LengthAt => ShaFinal(ctx) = OneBlock(ctx)
         /\ ~ (ctx.datalen < LengthAt) => ShaFinal(ctx) = TwoBlocks(ctx)
<1> DEFINE d  == ctx.data
           k  == ctx.datalen
           g  == ctx.blocks
           D  == Buffers(S)
           Q  == Seq(Seq(S))
           K  == 0 .. Block - 1
<1>1. ASSUME NEW c, NEW e, NEW h, c.blocks = h, "blocks" \in DOMAIN c
      PROVE  Transform(c, e).blocks = Append(h, Held(e, Block))
  BY <1>1 DEF Transform, Held
<1>2. "blocks" \in DOMAIN ctx /\ "data" \in DOMAIN ctx
  BY DEF Contexts
<1>3. CASE k < LengthAt
  <2> DEFINE e == Ended(d, k, LengthAt)
             next == [ctx EXCEPT !.data = e]
  <2>1. ShaFinal(ctx) = Transform(next, Measured(next.data, Bits(ctx))).blocks
    BY <1>3 DEF ShaFinal, ShaFits, Ended, Measured, Bits
  <2>2. next.data = e /\ next.blocks = g /\ "blocks" \in DOMAIN next
    <3> HIDE DEF e
    <3> QED
      BY <1>2 DEF Contexts
  <2> HIDE DEF next
  <2>3. ShaFinal(ctx) = Append(g, Held(Measured(e, Bits(ctx)), Block))
    BY <1>1, <2>1, <2>2
  <2> QED
    BY <1>3, <2>3 DEF OneBlock
<1>4. CASE ~ (k < LengthAt)
  <2> DEFINE e == Ended(d, k, Block)
             w == Cleared(e)
             next == [Transform(ctx, e) EXCEPT !.data = w]
  <2>1. ShaFinal(ctx) = Transform(next, Measured(next.data, Bits(ctx))).blocks
    BY <1>4 DEF ShaFinal, ShaFits, Ended, Measured, Bits, Cleared
  <2>2. next.data = w /\ next.blocks = Append(g, Held(e, Block)) /\ "blocks" \in DOMAIN next
    <3> DEFINE h == Append(g, Held(e, Block))
    <3>1. Transform(ctx, e) = [ctx EXCEPT !.blocks = h]
      BY DEF Transform, Held
    <3> HIDE DEF e, w, h
    <3>2. next = [[ctx EXCEPT !.blocks = h] EXCEPT !.data = w]
      BY <3>1
    <3> HIDE DEF next
    <3>3. next.data = w /\ next.blocks = h /\ "blocks" \in DOMAIN next
      BY <3>2 DEF Contexts
    <3> QED
      BY <3>3 DEF h
  <2> HIDE DEF next
  <2>3. ShaFinal(ctx) = Append(Append(g, Held(e, Block)), Held(Measured(w, Bits(ctx)), Block))
    BY <1>1, <2>1, <2>2
  <2> QED
    BY <1>4, <2>3 DEF TwoBlocks
<1> QED
  BY <1>3, <1>4

LEMMA HeldIsCat ==
  ASSUME NEW S, NEW d \in Buffers(S), NEW m \in Nat, NEW t \in Seq(S), m + Len(t) <= Block,
         \A i \in 1 .. Len(t) : d[m + i - 1] = t[i]
  PROVE  Held(d, m + Len(t)) = Cat(Held(d, m), t)
<1> DEFINE n == Len(t)
<1>1. n \in Nat
  BY LenProperties
<1>2. m \in 0 .. Block /\ m + n \in 0 .. Block
  BY <1>1, BlockIs
<1>3. /\ Held(d, m) \in Seq(S) /\ Len(Held(d, m)) = m
      /\ \A i \in 1 .. m : Held(d, m)[i] = d[i - 1]
  BY <1>2, PartIs
<1>4. /\ Held(d, m + n) \in Seq(S) /\ Len(Held(d, m + n)) = m + n
      /\ \A i \in 1 .. m + n : Held(d, m + n)[i] = d[i - 1]
  BY <1>2, PartIs
<1> DEFINE u == Held(d, m + n)
           s == Held(d, m)
<1> HIDE DEF u, s, n
<1>5. \A i \in 1 .. m : u[i] = s[i]
  <2>1. \A i \in 1 .. m : i \in 1 .. m + n
    BY <1>1
  <2> QED
    BY <1>3, <1>4, <2>1 DEF u, s
<1>6. \A i \in 1 .. n : u[m + i] = t[i]
  <2>1. \A i \in 1 .. n : m + i \in 1 .. m + n /\ (m + i) - 1 = m + i - 1
    BY <1>1
  <2> QED
    BY <1>4, <2>1 DEF u, n
<1>7. Joins(s, t, u)
  BY <1>3, <1>4, <1>5, <1>6 DEF Joins, n, u, s
<1>8. u = Cat(s, t)
  <2>1. u \in Seq(S) /\ s \in Seq(S)
    BY <1>3, <1>4 DEF u, s
  <2> QED
    BY <1>7, <2>1, CatMakes
<1> QED
  BY <1>8 DEF u, s, n

LEMMA HeldAgree ==
  ASSUME NEW d, NEW e, NEW m \in Nat, \A i \in 0 .. m - 1 : d[i] = e[i]
  PROVE  Held(d, m) = Held(e, m)
<1>1. \A i \in 1 .. m : i - 1 \in 0 .. m - 1
  OBVIOUS
<1>2. \A i \in 1 .. m : d[i - 1] = e[i - 1]
  BY <1>1
<1> QED
  BY <1>2 DEF Held

LEMMA ZerosAre ==
  ASSUME NEW S, 0 \in S, NEW n \in Nat
  PROVE  /\ Zeros(n) \in Seq(S) /\ Len(Zeros(n)) = n /\ \A i \in 1 .. n : Zeros(n)[i] = 0
         /\ \A m \in Nat : Cat(Zeros(m), Zeros(n)) = Zeros(m + n)
<1>1. \A k \in Nat : /\ Zeros(k) \in Seq(S) /\ Len(Zeros(k)) = k
                     /\ \A i \in 1 .. k : Zeros(k)[i] = 0
  BY IsASeq DEF Zeros
<1>2. ASSUME NEW m \in Nat PROVE Cat(Zeros(m), Zeros(n)) = Zeros(m + n)
  <2> DEFINE s == Zeros(m)
             t == Zeros(n)
             u == Zeros(m + n)
  <2>0. m + n \in Nat
    OBVIOUS
  <2>1. /\ s \in Seq(S) /\ Len(s) = m /\ \A i \in 1 .. m : s[i] = 0
    BY <1>1
  <2>2. /\ t \in Seq(S) /\ Len(t) = n /\ \A i \in 1 .. n : t[i] = 0
    BY <1>1
  <2>3. /\ u \in Seq(S) /\ Len(u) = m + n /\ \A i \in 1 .. m + n : u[i] = 0
    BY <1>1, <2>0
  <2> HIDE DEF s, t, u
  <2>4. \A i \in 1 .. m : i \in 1 .. m + n
    OBVIOUS
  <2>5. \A i \in 1 .. n : m + i \in 1 .. m + n
    OBVIOUS
  <2>6. Joins(s, t, u)
    BY <2>1, <2>2, <2>3, <2>4, <2>5 DEF Joins
  <2>7. u = Cat(s, t)
    BY <2>1, <2>2, <2>3, <2>6, CatMakes
  <2> QED
    BY <2>7 DEF s, t, u
<1> QED
  BY <1>1, <1>2

LEMMA EndedIs ==
  ASSUME NEW S, 0 \in S, 128 \in S, NEW d \in Buffers(S), NEW k \in 0 .. Block - 1,
         NEW end \in k + 1 .. Block
  PROVE  /\ Ended(d, k, end) \in Buffers(S)
         /\ Held(Ended(d, k, end), end) = Cat(Cat(Held(d, k), <<128>>), Zeros(end - k - 1))
<1> DEFINE e   == Ended(d, k, end)
           one == <<128>>
           z   == Zeros(end - k - 1)
<1>1. k \in Nat /\ end \in Nat /\ end - k - 1 \in Nat /\ k + 1 \in Nat
      /\ k + 1 <= Block /\ end <= Block /\ (k + 1) + (end - k - 1) = end
  BY BlockIs
<1>2. /\ e \in Buffers(S) /\ e[k] = 128
      /\ \A i \in 0 .. k - 1 : e[i] = d[i]
      /\ \A i \in k + 1 .. end - 1 : e[i] = 0
  BY BlockIs DEF Ended, Buffers
<1>3. one \in Seq(S) /\ Len(one) = 1 /\ one[1] = 128
  OBVIOUS
<1>4. z \in Seq(S) /\ Len(z) = end - k - 1 /\ \A i \in 1 .. end - k - 1 : z[i] = 0
  BY <1>1, ZerosAre
<1> HIDE DEF e, one, z
<1>5. Held(e, k) = Held(d, k)
  BY <1>1, <1>2, HeldAgree
<1>6. Held(e, k + 1) = Cat(Held(e, k), one)
  <2>1. \A i \in 1 .. Len(one) : e[k + i - 1] = one[i]
    <3>1. k + 1 - 1 = k
      BY <1>1
    <3> QED
      BY <1>2, <1>3, <3>1
  <2>2. Held(e, k + Len(one)) = Cat(Held(e, k), one)
    BY <1>1, <1>2, <1>3, <2>1, HeldIsCat
  <2> QED
    BY <1>3, <2>2
<1>7. Held(e, end) = Cat(Held(e, k + 1), z)
  <2>1. ASSUME NEW i \in 1 .. Len(z) PROVE e[(k + 1) + i - 1] = z[i]
    <3>1. (k + 1) + i - 1 \in k + 1 .. end - 1 /\ i \in 1 .. end - k - 1
      BY <1>1, <1>4
    <3> QED
      BY <1>2, <1>4, <3>1
  <2>2. Held(e, (k + 1) + Len(z)) = Cat(Held(e, k + 1), z)
    BY <1>1, <1>2, <1>4, <2>1, HeldIsCat
  <2> QED
    BY <1>1, <1>4, <2>2
<1>8. Held(e, end) = Cat(Cat(Held(d, k), one), z)
  BY <1>5, <1>6, <1>7
<1> QED
  BY <1>2, <1>8 DEF e, one, z

LEMMA MeasuredIs ==
  ASSUME NEW S, NEW d \in Buffers(S), NEW bits, \A k \in 0 .. 7 : Byte(bits, k) \in S
  PROVE  /\ Measured(d, bits) \in Buffers(S) /\ BigEndian(bits) \in Seq(S)
         /\ Held(Measured(d, bits), Block) = Cat(Held(d, LengthAt), BigEndian(bits))
<1> DEFINE e == Measured(d, bits)
           t == BigEndian(bits)
<1>1. t \in Seq(S) /\ Len(t) = 8 /\ \A i \in 1 .. 8 : t[i] = Byte(bits, 8 - i)
  <2>1. \A i \in 1 .. 8 : 8 - i \in 0 .. 7
    OBVIOUS
  <2>2. \A i \in 1 .. 8 : Byte(bits, 8 - i) \in S
    BY <2>1
  <2> QED
    BY <2>2, IsASeq DEF BigEndian
<1>2. e \in Buffers(S)
  <2>1. ASSUME NEW i \in 0 .. Block - 1 PROVE e[i] \in S
    <3>1. CASE i < LengthAt
      BY <3>1 DEF Buffers, Measured
    <3>2. CASE ~ (i < LengthAt)
      <4>1. Block - 1 - i \in 0 .. 7
        BY <3>2, BlockIs
      <4>2. e[i] = Byte(bits, Block - 1 - i)
        BY <3>2 DEF Measured
      <4> QED
        BY <4>1, <4>2
    <3> QED
      BY <3>1, <3>2
  <2> QED
    BY <2>1 DEF Buffers, Measured
<1>3. /\ \A i \in 0 .. LengthAt - 1 : e[i] = d[i]
      /\ \A i \in 1 .. 8 : e[LengthAt + i - 1] = Byte(bits, 8 - i)
  <2>1. \A i \in 0 .. LengthAt - 1 : i \in 0 .. Block - 1 /\ i < LengthAt
    BY BlockIs
  <2>2. \A i \in 1 .. 8 : /\ LengthAt + i - 1 \in 0 .. Block - 1 /\ ~ (LengthAt + i - 1 < LengthAt)
                          /\ Block - 1 - (LengthAt + i - 1) = 8 - i
    BY BlockIs
  <2>3. \A i \in 0 .. LengthAt - 1 : e[i] = d[i]
    BY <2>1 DEF Measured
  <2>4. ASSUME NEW i \in 1 .. 8 PROVE e[LengthAt + i - 1] = Byte(bits, 8 - i)
    <3> DEFINE j == LengthAt + i - 1
    <3>1. j \in 0 .. Block - 1 /\ ~ (j < LengthAt) /\ Block - 1 - j = 8 - i
      BY <2>2
    <3> HIDE DEF j
    <3>2. e[j] = Byte(bits, Block - 1 - j)
      BY <3>1 DEF Measured
    <3> QED
      BY <3>1, <3>2 DEF j
  <2> QED
    BY <2>3, <2>4
<1> HIDE DEF e, t
<1>4. Held(e, LengthAt) = Held(d, LengthAt)
  BY <1>3, BlockIs, HeldAgree
<1>5. Held(e, LengthAt + Len(t)) = Cat(Held(e, LengthAt), t)
  <2>1. LengthAt + Len(t) <= Block /\ \A i \in 1 .. Len(t) : e[LengthAt + i - 1] = t[i]
    BY <1>1, <1>3, BlockIs
  <2> QED
    BY <1>1, <1>2, <2>1, BlockIs, HeldIsCat
<1>6. Held(e, Block) = Cat(Held(d, LengthAt), t)
  BY <1>1, <1>4, <1>5, BlockIs
<1> QED
  BY <1>1, <1>2, <1>6 DEF e, t

LEMMA ClearedIs ==
  ASSUME NEW S, 0 \in S, NEW d \in Buffers(S)
  PROVE  Cleared(d) \in Buffers(S) /\ Held(Cleared(d), LengthAt) = Zeros(LengthAt)
<1>1. Cleared(d) \in Buffers(S)
  BY DEF Cleared, Buffers
<1>2. \A i \in 1 .. LengthAt : i - 1 \in 0 .. Block - 1 /\ i - 1 < LengthAt
  BY BlockIs
<1>3. \A i \in 1 .. LengthAt : Cleared(d)[i - 1] = 0
  BY <1>2 DEF Cleared
<1>4. Held(Cleared(d), LengthAt) = Zeros(LengthAt)
  BY <1>3 DEF Held, Zeros
<1> QED
  BY <1>1, <1>4

(* How many zeros fill the block. *)
LEMMA ZerosFill ==
  ASSUME NEW m \in Multiples, NEW k \in 0 .. Block - 1
  PROVE  /\ k < LengthAt => (LengthAt - 1 - (m + k)) % Block = LengthAt - k - 1
         /\ ~ (k < LengthAt) => (LengthAt - 1 - (m + k)) % Block = (Block - k - 1) + LengthAt
<1>1. PICK q \in Nat : m = q * Block
  BY DEF Multiples
<1> DEFINE B == Block
<1>2. B \in Nat \ {0} /\ q * B \in Int
  BY BlockIs
<1>3. \A j \in Int, r \in 0 .. B - 1 : (j * B + r) % B = r
  <2> HIDE DEF B
  <2> QED
    BY <1>2
<1>4. (- q) * B = - (q * B) /\ (- q - 1) * B = - (q * B) - B /\ - q \in Int /\ - q - 1 \in Int
  <2> HIDE DEF B
  <2> QED
    BY <1>2
<1>5. CASE k < LengthAt
  <2> DEFINE r == LengthAt - k - 1
  <2>1. r \in 0 .. B - 1 /\ LengthAt - 1 - (m + k) = (- q) * B + r
    BY <1>1, <1>2, <1>4, <1>5, BlockIs
  <2> HIDE DEF r, B
  <2>2. ((- q) * B + r) % B = r
    BY <1>3, <1>4, <2>1
  <2> QED
    BY <1>5, <2>1, <2>2 DEF r, B
<1>6. CASE ~ (k < LengthAt)
  <2> DEFINE r == (Block - k - 1) + LengthAt
  <2>1. r \in 0 .. B - 1 /\ LengthAt - 1 - (m + k) = (- q - 1) * B + r
    BY <1>1, <1>2, <1>4, <1>6, BlockIs
  <2> HIDE DEF r, B
  <2>2. ((- q - 1) * B + r) % B = r
    BY <1>3, <1>4, <2>1
  <2> QED
    BY <1>6, <2>1, <2>2 DEF r, B
<1> QED
  BY <1>5, <1>6

(* The message, a bit, zeros, and the length in bits. *)
Filled(s) ==
    Cat(Cat(Cat(s, <<128>>), Zeros((LengthAt - 1 - Len(s)) % Block)), BigEndian(8 * Len(s)))

LEMMA DigestIsFilled ==
  ASSUME NEW S, {0, 128, Unknown} \subseteq S, NEW s \in Seq(S),
         \A k \in 0 .. 7 : Byte(8 * Len(s), k) \in S
  PROVE  Flat(Sha256(s)) = Filled(s)
<1> DEFINE ctx  == Digesting!Folded(ShaInit, s)
           d    == ctx.data
           k    == ctx.datalen
           g    == ctx.blocks
           f    == Flat(g)
           h    == Held(d, k)
           bits == 8 * Len(s)
           one  == <<128>>
           L    == BigEndian(bits)
           pad  == Zeros((LengthAt - 1 - Len(s)) % Block)
<1>1. ctx \in Contexts(S) /\ HasRead(ctx, s)
  BY MessageIsRead
<1>2. Sha256(s) = ShaFinal(ctx)
  BY FoldsAre DEF Sha256
<1> HIDE DEF ctx
<1>3. d \in Buffers(S) /\ k \in 0 .. Block - 1 /\ ctx.bitlen \in Nat /\ g \in Seq(Seq(S))
  BY <1>1 DEF Contexts
<1>4. Cat(f, h) = s /\ ctx.bitlen = 8 * Len(f) /\ Len(f) \in Multiples
  BY <1>1 DEF HasRead
<1>5. f \in Seq(S) /\ h \in Seq(S) /\ Len(f) \in Nat /\ Len(h) = k
  <2>1. k \in 0 .. Block
    BY <1>3, BlockIs
  <2>2. h \in Seq(S) /\ Len(h) = k
    <3> HIDE DEF d, k
    <3> QED
      BY <1>3, <2>1, PartIs
  <2>3. f \in Seq(S)
    BY <1>3, FlatIsText
  <2> QED
    BY <2>2, <2>3, LenProperties
<1>6. Len(s) = Len(f) + k
  <2> HIDE DEF f, h, k
  <2> QED
    BY <1>4, <1>5, CatHas DEF Joins
<1>7. Bits(ctx) = bits
  <2>1. ctx.bitlen + 8 * k = 8 * (Len(f) + k)
    BY <1>3, <1>4, <1>5
  <2> QED
    BY <1>6, <2>1 DEF Bits
<1>8. one \in Seq(S) /\ L \in Seq(S)
  <2>1. 128 \in S
    OBVIOUS
  <2>2. one \in Seq(S)
    BY <2>1
  <2>3. L \in Seq(S)
    <3> HIDE DEF d, bits
    <3> QED
      BY <1>3, MeasuredIs DEF bits
  <2> QED
    BY <2>2, <2>3
<1>9. 0 \in S /\ 128 \in S
  OBVIOUS
<1>10. CASE k < LengthAt
  <2> DEFINE e == Ended(d, k, LengthAt)
             z == Zeros(LengthAt - k - 1)
             b == Held(Measured(e, bits), Block)
  <2>1. e \in Buffers(S) /\ Held(e, LengthAt) = Cat(Cat(h, one), z)
    <3>1. LengthAt \in k + 1 .. Block
      BY <1>3, <1>10, BlockIs
    <3> HIDE DEF d, k
    <3> QED
      BY <1>3, <1>9, <3>1, EndedIs
  <2> HIDE DEF e, bits
  <2>2. Measured(e, bits) \in Buffers(S) /\ b = Cat(Cat(Cat(h, one), z), L)
    BY <2>1, MeasuredIs DEF bits
  <2>3. b \in Seq(S)
    <3>1. Block \in 0 .. Block
      BY BlockIs
    <3> QED
      BY <2>2, <3>1, PartIs
  <2> HIDE DEF b
  <2>4. Flat(Sha256(s)) = Cat(f, b)
    <3>1. Sha256(s) = Append(g, b)
      BY <1>1, <1>2, <1>7, <1>10, FinalIs DEF OneBlock, b, e
    <3> HIDE DEF g
    <3> QED
      BY <1>3, <2>3, <3>1, FlatAppend DEF f
  <2>5. pad = z
    <3>1. (LengthAt - 1 - (Len(f) + k)) % Block = LengthAt - k - 1
      BY <1>3, <1>4, <1>10, ZerosFill
    <3> QED
      BY <1>6, <3>1
  <2>6. z \in Seq(S)
    <3>1. LengthAt - k - 1 \in Nat
      BY <1>3, <1>10, BlockIs
    <3> QED
      BY <1>9, <3>1, ZerosAre
  <2> HIDE DEF f, h, one, L, z
  <2>7. Cat(f, Cat(Cat(Cat(h, one), z), L)) = Cat(Cat(Cat(Cat(f, h), one), z), L)
    <3>1. Cat(h, one) \in Seq(S) /\ Cat(Cat(h, one), z) \in Seq(S)
      BY <1>5, <1>8, <2>6, CatIs
    <3>2. Cat(f, Cat(Cat(Cat(h, one), z), L)) = Cat(Cat(f, Cat(Cat(h, one), z)), L)
      BY <1>5, <1>8, <3>1, CatIs
    <3>3. Cat(f, Cat(Cat(h, one), z)) = Cat(Cat(f, Cat(h, one)), z)
      BY <1>5, <2>6, <3>1, CatIs
    <3>4. Cat(f, Cat(h, one)) = Cat(Cat(f, h), one)
      BY <1>5, <1>8, CatIs
    <3> QED
      BY <3>2, <3>3, <3>4
  <2> HIDE DEF pad
  <2>8. Flat(Sha256(s)) = Cat(Cat(Cat(s, one), pad), L)
    BY <1>4, <2>2, <2>4, <2>5, <2>7
  <2> QED
    BY <2>8 DEF Filled, one, pad, L, bits
<1>11. CASE ~ (k < LengthAt)
  <2> DEFINE e == Ended(d, k, Block)
             y == Zeros(Block - k - 1)
             v == Zeros(LengthAt)
             a == Held(e, Block)
             w == Cleared(e)
             b == Held(Measured(w, bits), Block)
  <2>0. Block \in 0 .. Block /\ Block \in k + 1 .. Block
    BY <1>3, BlockIs
  <2>1. e \in Buffers(S) /\ a = Cat(Cat(h, one), y)
    <3> HIDE DEF d, k
    <3> QED
      BY <1>3, <1>9, <2>0, EndedIs
  <2> HIDE DEF e, bits
  <2>2. w \in Buffers(S) /\ Held(w, LengthAt) = v
    BY <1>9, <2>1, ClearedIs
  <2> HIDE DEF w
  <2>3. Measured(w, bits) \in Buffers(S) /\ b = Cat(v, L)
    BY <2>2, MeasuredIs DEF bits
  <2>4. a \in Seq(S) /\ b \in Seq(S)
    <3> DEFINE m == Measured(w, bits)
    <3> HIDE DEF m
    <3>1. Held(e, Block) \in Seq(S)
      BY <2>0, <2>1, PartIs
    <3>2. Held(m, Block) \in Seq(S)
      BY <2>0, <2>3, PartIs DEF m
    <3> QED
      BY <3>1, <3>2 DEF m
  <2> HIDE DEF a, b
  <2>5. Flat(Sha256(s)) = Cat(Cat(f, a), b)
    <3>1. Sha256(s) = Append(Append(g, a), b)
      BY <1>1, <1>2, <1>7, <1>11, FinalIs DEF TwoBlocks, a, b, e, w
    <3> HIDE DEF g
    <3>2. Append(g, a) \in Seq(Seq(S))
      BY <1>3, <2>4, AppendProperties
    <3>3. Flat(Append(g, a)) = Cat(Flat(g), a)
      BY <1>3, <2>4, FlatAppend
    <3>4. Flat(Append(Append(g, a), b)) = Cat(Flat(Append(g, a)), b)
      BY <2>4, <3>2, FlatAppend
    <3> QED
      BY <3>1, <3>3, <3>4 DEF f
  <2>6. y \in Seq(S) /\ v \in Seq(S) /\ pad = Cat(y, v)
    <3>1. Block - k - 1 \in Nat /\ LengthAt \in Nat
      BY <1>3, BlockIs
    <3>2. (LengthAt - 1 - (Len(f) + k)) % Block = (Block - k - 1) + LengthAt
      BY <1>3, <1>4, <1>11, ZerosFill
    <3>3. pad = Zeros((Block - k - 1) + LengthAt)
      BY <1>6, <3>2
    <3> HIDE DEF pad
    <3> QED
      BY <1>9, <3>1, <3>3, ZerosAre
  <2> HIDE DEF f, h, one, L, y, v, pad
  <2>7. Cat(Cat(f, Cat(Cat(h, one), y)), Cat(v, L)) = Cat(Cat(Cat(Cat(f, h), one), Cat(y, v)), L)
    <3> DEFINE t == Cat(Cat(f, h), one)
    <3>1. Cat(h, one) \in Seq(S) /\ Cat(f, h) \in Seq(S) /\ t \in Seq(S) /\ Cat(v, L) \in Seq(S)
          /\ Cat(y, v) \in Seq(S)
      BY <1>5, <1>8, <2>6, CatIs
    <3>2. Cat(f, Cat(Cat(h, one), y)) = Cat(Cat(f, Cat(h, one)), y)
      BY <1>5, <2>6, <3>1, CatIs
    <3>3. Cat(f, Cat(h, one)) = t
      BY <1>5, <1>8, CatIs
    <3> HIDE DEF t
    <3>4. Cat(Cat(t, y), Cat(v, L)) = Cat(t, Cat(y, Cat(v, L)))
      BY <2>6, <3>1, CatIs
    <3>5. Cat(y, Cat(v, L)) = Cat(Cat(y, v), L)
      BY <1>8, <2>6, CatIs
    <3>6. Cat(t, Cat(Cat(y, v), L)) = Cat(Cat(t, Cat(y, v)), L)
      BY <1>8, <3>1, CatIs
    <3> QED
      BY <3>2, <3>3, <3>4, <3>5, <3>6 DEF t
  <2>8. Flat(Sha256(s)) = Cat(Cat(Cat(s, one), pad), L)
    BY <1>4, <2>1, <2>3, <2>5, <2>6, <2>7
  <2> QED
    BY <2>8 DEF Filled, one, pad, L, bits
<1> QED
  BY <1>10, <1>11

(* For a message of any length and blocks of any size that leaves room for *)
(* the length: what sha256_update and sha256_final hand to the block       *)
(* function is the message with the padding of the standard.               *)
THEOREM PaddingHolds == Spec => []PaddingIsStandard
<1>1. PaddingIsStandard
  <2>1. ASSUME NEW n \in 0 .. MaxMessage
        PROVE  FoldLeft(Joined, <<>>, Sha256(Message(n))) = Padded(n, BigEndian)
    <3> DEFINE s    == Message(n)
               S    == Int \cup {Byte(8 * n, k) : k \in 0 .. 7}
    <3>1. n \in Nat
      OBVIOUS
    <3>2. s \in Seq(S) /\ Len(s) = n
      <4>1. \A i \in 1 .. n : MessageByte(i) \in S
        BY DEF MessageByte
      <4> HIDE DEF S
      <4> QED
        BY <3>1, <4>1, IsASeq DEF Message
    <3>3. {0, 128, Unknown} \subseteq S
      BY DEF Unknown
    <3>4. \A k \in 0 .. 7 : Byte(8 * n, k) \in S
      OBVIOUS
    <3>5. Padded(n, BigEndian) = Filled(s)
      <4>1. Padded(n, BigEndian)
              = s \o <<128>> \o Zeros((LengthAt - 1 - n) % Block) \o BigEndian(8 * n)
        BY DEF Padded
      <4>2. Filled(s) = s \o <<128>> \o Zeros((LengthAt - 1 - n) % Block) \o BigEndian(8 * n)
        BY <3>2 DEF Filled, Cat
      <4> QED
        BY <4>1, <4>2, Zenon
    <3> HIDE DEF s, S
    <3>6. Flat(Sha256(s)) = Filled(s)
      BY <3>2, <3>3, <3>4, DigestIsFilled
    <3>7. FoldLeft(Joined, <<>>, Sha256(s)) = Flat(Sha256(s))
      BY FoldsAre
    <3> QED
      BY <3>5, <3>6, <3>7 DEF s
  <2> QED
    BY <2>1 DEF PaddingIsStandard
<1> QED
  BY <1>1, PTL
=============================================================================
