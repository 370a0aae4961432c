----------------------------- MODULE FoldFacts -----------------------------
(***************************************************************************)
(* What a fold from the left of SequencesExt computes, for a step and a     *)
(* predicate that whoever instantiates this module chooses.  The library's  *)
(* induction theorems have an operator as a parameter; here induction is    *)
(* the fact that a set of natural numbers has a least element, and the      *)
(* operators are constants of the module.                                   *)
(***************************************************************************)
EXTENDS Integers, SequencesExt, SequenceTheorems, WellFoundedInduction, TLAPS

CONSTANTS Step(_, _), Good(_)

LEMMA NatHasMin ==
  ASSUME NEW T \in SUBSET Nat, T # {}
  PROVE  \E x \in T : \A y \in T : x <= y
<1> DEFINE R == OpToRel(<, Nat)
<1>1. IsWellFoundedOn(R, Nat)
  BY NatLessThanWellFounded
<1>2. \A x, y \in Nat : <<y, x>> \in R <=> y < x
  BY DEF OpToRel
<1> HIDE DEF R
<1>3. PICK x \in T : \A y \in T : ~ (<<y, x>> \in R)
  BY <1>1, WFMin
<1>4. ASSUME NEW y \in T
      PROVE  x <= y
  <2>1. x \in Nat /\ y \in Nat
    OBVIOUS
  <2>2. ~ (y < x)
    BY <1>2, <1>3, <2>1
  <2> QED
    BY <2>1, <2>2
<1> QED
  BY <1>4

LEMMA SetInduction ==
  ASSUME NEW T, 0 \in T, \A n \in Nat : n \in T => n + 1 \in T
  PROVE  \A n \in Nat : n \in T
<1> SUFFICES ASSUME NEW m \in Nat, m \notin T
             PROVE  FALSE
  OBVIOUS
<1> DEFINE U == {n \in Nat : n \notin T}
<1>1. PICK x \in U : \A y \in U : x <= y
  BY NatHasMin
<1>2. x \in Nat /\ x # 0 /\ x - 1 \in Nat /\ x - 1 \notin U
  BY <1>1
<1>3. x - 1 \in T /\ (x - 1) + 1 = x
  BY <1>2
<1> QED
  BY <1>1, <1>2, <1>3

LEMMA MaxIs ==
  ASSUME NEW n \in Nat, NEW u \in SUBSET (1 .. n), u # {}
  PROVE  Max(u) \in u /\ \A y \in u : y <= Max(u)
<1> DEFINE T == {n - y : y \in u}
<1>1. PICK t \in T : \A z \in T : t <= z
  <2>1. T \in SUBSET Nat
    OBVIOUS
  <2>2. T # {}
    OBVIOUS
  <2> HIDE DEF T
  <2> QED
    BY <2>1, <2>2, NatHasMin
<1>2. PICK x \in u : t = n - x
  OBVIOUS
<1>3. \A y \in u : x >= y
  <2> SUFFICES ASSUME NEW y \in u PROVE x >= y
    OBVIOUS
  <2>1. n - y \in T /\ x \in Nat /\ y \in Nat
    OBVIOUS
  <2>2. n - x <= n - y
    BY <1>1, <1>2, <2>1
  <2> QED
    BY <2>1, <2>2
<1>4. \E m \in u : \A y \in u : m >= y
  BY <1>3
<1>5. Max(u) \in u /\ \A y \in u : Max(u) >= y
  BY <1>4 DEF Max
<1> QED
  BY <1>5

LEMMA LastIsMax ==
  ASSUME NEW n \in Nat \ {0}, NEW u \in SUBSET (1 .. n), n \in u
  PROVE  Max(u) = n
<1>1. Max(u) \in u /\ n <= Max(u)
  BY MaxIs
<1>2. Max(u) \in 1 .. n
  BY <1>1
<1> HIDE DEF Max
<1> QED
  BY <1>1, <1>2

LEMMA Interval ==
  ASSUME NEW n \in Nat
  PROVE  /\ n + 1 \in Nat \ {0} /\ 1 .. n + 1 # {} /\ n + 1 \in 1 .. n + 1
         /\ (1 .. n + 1) \ {n + 1} = 1 .. n /\ Max(1 .. n + 1) = n + 1
<1>1. n + 1 \in Nat \ {0} /\ n + 1 \in 1 .. n + 1
  OBVIOUS
<1>2. (1 .. n + 1) \ {n + 1} = 1 .. n
  OBVIOUS
<1>3. Max(1 .. n + 1) = n + 1
  BY <1>1, LastIsMax
<1> QED
  BY <1>1, <1>2, <1>3

(* What the empty sequence has, and a longer one has when the one before it *)
(* has, every sequence has.                                                 *)
THEOREM SequenceInduction ==
  ASSUME NEW S, NEW T, <<>> \in T,
         \A s \in Seq(S) : \A e \in S : s \in T => Append(s, e) \in T
  PROVE  \A s \in Seq(S) : s \in T
<1> DEFINE U == {n \in Nat : \A t \in Seq(S) : Len(t) = n => t \in T}
<1>1. 0 \in U
  <2>1. \A t \in Seq(S) : Len(t) = 0 => t = <<>>
    BY EmptySeq
  <2> QED
    BY <2>1
<1>2. ASSUME NEW n \in Nat, n \in U
      PROVE  n + 1 \in U
  <2> SUFFICES ASSUME NEW t \in Seq(S), Len(t) = n + 1
               PROVE  t \in T
    OBVIOUS
  <2>1. t # <<>>
    BY EmptySeq
  <2>2. PICK r \in Seq(S), e \in S : t = Append(r, e)
    BY <2>1, SequenceEmptyOrAppend
  <2>3. Len(r) = n
    <3>1. Len(t) = Len(r) + 1 /\ Len(r) \in Nat
      BY <2>2, AppendProperties, LenProperties
    <3> QED
      BY <3>1
  <2>4. r \in T
    BY <1>2, <2>3
  <2> QED
    BY <2>2, <2>4
<1> HIDE DEF U
<1>3. \A n \in Nat : n \in U
  BY <1>1, <1>2, SetInduction
<1>4. ASSUME NEW s \in Seq(S)
      PROVE  s \in T
  <2>1. Len(s) \in Nat
    BY LenProperties
  <2> QED
    BY <1>3, <2>1 DEF U
<1> QED
  BY <1>4

(* f is the recursive function of a fold of s over the sets of positions.   *)
IsFold(f, n, base, s) ==
    f = [u \in SUBSET (1 .. n) |->
            IF u = {} THEN base ELSE Step(f[u \ {Max(u)}], s[Max(u)])]

LEMMA FoldExists ==
  ASSUME NEW base, NEW s
  PROVE  \A n \in Nat : \E f : IsFold(f, n, base, s)
<1> DEFINE T == {n \in Nat : \E f : IsFold(f, n, base, s)}
<1>1. 0 \in T
  <2> DEFINE f == [u \in SUBSET (1 .. 0) |-> base]
  <2>1. SUBSET (1 .. 0) = {{}}
    OBVIOUS
  <2>2. f = [u \in SUBSET (1 .. 0) |->
               IF u = {} THEN base ELSE Step(f[u \ {Max(u)}], s[Max(u)])]
    BY <2>1
  <2>3. IsFold(f, 0, base, s)
    BY <2>2 DEF IsFold
  <2> QED
    BY <2>3
<1>2. ASSUME NEW n \in Nat, n \in T
      PROVE  n + 1 \in T
  <2>1. PICK f : IsFold(f, n, base, s)
    BY <1>2
  <2> DEFINE g == [u \in SUBSET (1 .. n + 1) |->
                     IF n + 1 \in u THEN Step(f[u \ {n + 1}], s[n + 1]) ELSE f[u]]
             h == [u \in SUBSET (1 .. n + 1) |->
                     IF u = {} THEN base ELSE Step(g[u \ {Max(u)}], s[Max(u)])]
  <2>2. \A u \in SUBSET (1 .. n) :
           f[u] = IF u = {} THEN base ELSE Step(f[u \ {Max(u)}], s[Max(u)])
    BY <2>1 DEF IsFold
  <2>3. \A u \in SUBSET (1 .. n + 1) : g[u] = h[u]
    <3> SUFFICES ASSUME NEW u \in SUBSET (1 .. n + 1)
                 PROVE  g[u] = h[u]
      BY Zenon
    <3>1. CASE n + 1 \in u
      <4>1. Max(u) = n + 1
        <5>1. n + 1 \in Nat \ {0}
          OBVIOUS
        <5> QED
          BY <3>1, <5>1, LastIsMax
      <4>2. g[u \ {n + 1}] = f[u \ {n + 1}]
        OBVIOUS
      <4>3. g[u] = Step(f[u \ {n + 1}], s[n + 1])
        BY <3>1
      <4>4. h[u] = Step(g[u \ {n + 1}], s[n + 1])
        BY <3>1, <4>1
      <4> QED
        BY <4>2, <4>3, <4>4
    <3>2. CASE n + 1 \notin u
      <4>1. u \in SUBSET (1 .. n)
        BY <3>2
      <4>2. CASE u = {}
        BY <2>2, <3>2, <4>1, <4>2
      <4>3. CASE u # {}
        <5>1. f[u] = Step(f[u \ {Max(u)}], s[Max(u)])
          BY <2>2, <4>1, <4>3
        <5>2. g[u \ {Max(u)}] = f[u \ {Max(u)}]
          BY <3>2
        <5>3. g[u] = f[u]
          BY <3>2
        <5>4. h[u] = Step(g[u \ {Max(u)}], s[Max(u)])
          BY <4>3
        <5> QED
          BY <5>1, <5>2, <5>3, <5>4
      <4> QED
        BY <4>2, <4>3
    <3> QED
      BY <3>1, <3>2
  <2>4. g = h
    <3>1. g = [u \in SUBSET (1 .. n + 1) |-> g[u]] /\ h = [u \in SUBSET (1 .. n + 1) |-> h[u]]
      OBVIOUS
    <3> HIDE DEF g, h
    <3> QED
      BY <2>3, <3>1
  <2>5. IsFold(g, n + 1, base, s)
    BY <2>4 DEF IsFold
  <2> HIDE DEF g
  <2> QED
    BY <2>5
<1> HIDE DEF T
<1>3. \A n \in Nat : n \in T
  BY <1>1, <1>2, SetInduction
<1> QED
  BY <1>3 DEF T

LEMMA FoldIs ==
  ASSUME NEW S, NEW s \in Seq(S), NEW base
  PROVE  \E f : IsFold(f, Len(s), base, s) /\ FoldLeft(Step, base, s) = f[1 .. Len(s)]
<1> DEFINE n == Len(s)
           iter == CHOOSE f : f = [u \in SUBSET (DOMAIN s) |->
                      IF u = {} THEN base ELSE Step(f[u \ {Max(u)}], s[Max(u)])]
<1>1. n \in Nat /\ DOMAIN s = 1 .. n
  BY LenProperties
<1>2. FoldLeft(Step, base, s) = iter[DOMAIN s]
  BY DEF FoldLeft, MapThenFoldSet
<1>3. iter = CHOOSE f : IsFold(f, n, base, s)
  BY <1>1 DEF IsFold
<1>4. \E f : IsFold(f, n, base, s)
  BY <1>1, FoldExists
<1> HIDE DEF iter
<1>5. IsFold(iter, n, base, s)
  BY <1>3, <1>4
<1> QED
  BY <1>1, <1>2, <1>5

(* Two folds of sequences that begin alike agree on what they begin with. *)
LEMMA FoldsAgree ==
  ASSUME NEW base, NEW s, NEW t, NEW m \in Nat, NEW n \in Nat, NEW k \in Nat,
         k <= m, k <= n, \A i \in 1 .. k : s[i] = t[i],
         NEW f, IsFold(f, m, base, s), NEW g, IsFold(g, n, base, t)
  PROVE  f[1 .. k] = g[1 .. k]
<1> DEFINE T == {j \in Nat : j <= k => f[1 .. j] = g[1 .. j]}
<1>1. /\ \A u \in SUBSET (1 .. m) :
            f[u] = IF u = {} THEN base ELSE Step(f[u \ {Max(u)}], s[Max(u)])
      /\ \A u \in SUBSET (1 .. n) :
            g[u] = IF u = {} THEN base ELSE Step(g[u \ {Max(u)}], t[Max(u)])
  BY DEF IsFold
<1>2. 0 \in T
  <2>1. 1 .. 0 = {} /\ {} \in SUBSET (1 .. m) /\ {} \in SUBSET (1 .. n)
    OBVIOUS
  <2>2. f[{}] = base /\ g[{}] = base
    BY <1>1, <2>1
  <2> QED
    BY <2>1, <2>2
<1>3. ASSUME NEW j \in Nat, j \in T
      PROVE  j + 1 \in T
  <2> SUFFICES ASSUME j + 1 <= k
               PROVE  f[1 .. j + 1] = g[1 .. j + 1]
    OBVIOUS
  <2> DEFINE u == 1 .. j + 1
  <2>1. f[1 .. j] = g[1 .. j]
    BY <1>3
  <2>2. u # {} /\ j + 1 \in u /\ Max(u) = j + 1 /\ u \ {j + 1} = 1 .. j
    BY Interval
  <2>3. u \in SUBSET (1 .. m)
    OBVIOUS
  <2>4. u \in SUBSET (1 .. n)
    OBVIOUS
  <2>5. s[j + 1] = t[j + 1]
    OBVIOUS
  <2> HIDE DEF u
  <2>6. f[u] = Step(f[1 .. j], s[j + 1]) /\ g[u] = Step(g[1 .. j], t[j + 1])
    BY <1>1, <2>2, <2>3, <2>4
  <2> QED
    BY <2>1, <2>5, <2>6 DEF u
<1> HIDE DEF T
<1>4. \A j \in Nat : j \in T
  BY <1>2, <1>3, SetInduction
<1> QED
  BY <1>4 DEF T

-----------------------------------------------------------------------------
THEOREM FoldOfEmpty ==
  ASSUME NEW base
  PROVE  FoldLeft(Step, base, <<>>) = base
<1>1. <<>> \in Seq({}) /\ Len(<<>>) = 0
  BY EmptySeq
<1>2. PICK f : IsFold(f, 0, base, <<>>) /\ FoldLeft(Step, base, <<>>) = f[1 .. 0]
  BY <1>1, FoldIs
<1>3. 1 .. 0 = {}
  OBVIOUS
<1>4. f[{}] = base
  BY <1>2 DEF IsFold
<1> QED
  BY <1>2, <1>3, <1>4

THEOREM FoldOfAppend ==
  ASSUME NEW S, NEW s \in Seq(S), NEW e \in S, NEW base
  PROVE  FoldLeft(Step, base, Append(s, e)) = Step(FoldLeft(Step, base, s), e)
<1> DEFINE n == Len(s)
           t == Append(s, e)
           u == 1 .. n + 1
<1>1. /\ n \in Nat /\ t \in Seq(S) /\ Len(t) = n + 1 /\ t[n + 1] = e
      /\ \A i \in 1 .. n : s[i] = t[i]
  BY LenProperties, AppendProperties
<1>2. PICK f : IsFold(f, n, base, s) /\ FoldLeft(Step, base, s) = f[1 .. n]
  BY FoldIs
<1> HIDE DEF t
<1>3. PICK g : IsFold(g, n + 1, base, t) /\ FoldLeft(Step, base, t) = g[u]
  BY <1>1, FoldIs
<1> HIDE DEF n
<1>4. f[1 .. n] = g[1 .. n]
  <2> DEFINE m == n + 1
  <2>1. m \in Nat /\ n \in Nat /\ n <= n /\ n <= m
    BY <1>1
  <2>2. IsFold(f, n, base, s) /\ IsFold(g, m, base, t)
    BY <1>2, <1>3
  <2>3. \A i \in 1 .. n : s[i] = t[i]
    BY <1>1
  <2> HIDE DEF m
  <2>4. ASSUME NEW k \in Nat, k <= n, k <= m, \A i \in 1 .. k : s[i] = t[i]
        PROVE  f[1 .. k] = g[1 .. k]
    <3>1. n \in Nat /\ m \in Nat
      BY <2>1
    <3> QED
      BY <3>1, <2>2, <2>4, FoldsAgree
  <2> QED
    BY <2>1, <2>3, <2>4
<1>5. u # {} /\ u \ {n + 1} = 1 .. n /\ Max(u) = n + 1
  BY <1>1, Interval
<1>7. g[u] = IF u = {} THEN base ELSE Step(g[u \ {Max(u)}], t[Max(u)])
  BY <1>3 DEF IsFold
<1> HIDE DEF u
<1>8. g[u] = Step(g[1 .. n], e)
  BY <1>1, <1>5, <1>7
<1> QED
  BY <1>2, <1>3, <1>4, <1>8 DEF t

(* What every step keeps, the fold keeps. *)
THEOREM FoldKeeps ==
  ASSUME NEW S, \A v : \A e \in S : Good(v) => Good(Step(v, e)),
         NEW base, Good(base), NEW s \in Seq(S)
  PROVE  Good(FoldLeft(Step, base, s))
<1> DEFINE T == {n \in Nat : \A t \in Seq(S) : Len(t) = n => Good(FoldLeft(Step, base, t))}
<1>1. 0 \in T
  <2>1. \A t \in Seq(S) : Len(t) = 0 => t = <<>>
    BY EmptySeq
  <2> QED
    BY <2>1, FoldOfEmpty
<1>2. ASSUME NEW n \in Nat, n \in T
      PROVE  n + 1 \in T
  <2> SUFFICES ASSUME NEW t \in Seq(S), Len(t) = n + 1
               PROVE  Good(FoldLeft(Step, base, t))
    OBVIOUS
  <2>1. t # <<>>
    BY EmptySeq
  <2>2. PICK r \in Seq(S), e \in S : t = Append(r, e)
    BY <2>1, SequenceEmptyOrAppend
  <2>3. Len(r) = n
    <3>1. Len(t) = Len(r) + 1 /\ Len(r) \in Nat
      BY <2>2, AppendProperties, LenProperties
    <3> QED
      BY <3>1
  <2>4. Good(FoldLeft(Step, base, r))
    BY <1>2, <2>3
  <2>5. FoldLeft(Step, base, t) = Step(FoldLeft(Step, base, r), e)
    BY <2>2, FoldOfAppend
  <2> QED
    BY <2>4, <2>5
<1> HIDE DEF T
<1>3. \A n \in Nat : n \in T
  BY <1>1, <1>2, SetInduction
<1>4. Len(s) \in Nat
  BY LenProperties
<1> QED
  BY <1>3, <1>4 DEF T

-----------------------------------------------------------------------------
(* The fold by a name of its own, which the provers can carry into another *)
(* module, and the same facts about it.                                    *)
Folded(base, s) == FoldLeft(Step, base, s)

THEOREM FoldedIsFold ==
  ASSUME NEW base, NEW s
  PROVE  Folded(base, s) = FoldLeft(Step, base, s)
BY DEF Folded

(* Nothing is folded: the start is the result. *)
THEOREM FoldedEmpty ==
  ASSUME NEW base
  PROVE  Folded(base, <<>>) = base
BY FoldOfEmpty DEF Folded

(* One more element is one more step. *)
THEOREM FoldedAppend ==
  ASSUME NEW S, NEW s \in Seq(S), NEW e \in S, NEW base
  PROVE  Folded(base, Append(s, e)) = Step(Folded(base, s), e)
BY FoldOfAppend DEF Folded

(* Two sequences behind each other are folded one after the other. *)
THEOREM FoldedConcat ==
  ASSUME NEW S, NEW s \in Seq(S), NEW t \in Seq(S), NEW base
  PROVE  Folded(base, s \o t) = Folded(Folded(base, s), t)
<1> DEFINE T == {q \in Seq(S) : Folded(base, s \o q) = Folded(Folded(base, s), q)}
<1>1. <<>> \in T
  <2>1. s \o <<>> = s /\ <<>> \in Seq(S)
    BY ConcatEmptySeq, EmptySeq
  <2> QED
    BY <2>1, FoldedEmpty
<1>2. ASSUME NEW q \in Seq(S), NEW e \in S, q \in T
      PROVE  Append(q, e) \in T
  <2>1. s \o q \in Seq(S) /\ Append(q, e) \in Seq(S)
    BY ConcatProperties, AppendProperties
  <2>2. s \o Append(q, e) = Append(s \o q, e)
    <3>1. <<e>> \in Seq(S)
      OBVIOUS
    <3>2. Append(q, e) = q \o <<e>> /\ Append(s \o q, e) = (s \o q) \o <<e>>
      BY <2>1, AppendIsConcat
    <3> QED
      BY <3>1, <3>2, ConcatAssociative
  <2>3. Folded(base, Append(s \o q, e)) = Step(Folded(base, s \o q), e)
    BY <2>1, FoldedAppend
  <2>4. Folded(Folded(base, s), Append(q, e)) = Step(Folded(Folded(base, s), q), e)
    BY FoldedAppend
  <2> QED
    BY <1>2, <2>1, <2>2, <2>3, <2>4
<1> HIDE DEF T
<1>3. \A q \in Seq(S) : q \in T
  BY <1>1, <1>2, SequenceInduction
<1> QED
  BY <1>3 DEF T

(* What every step keeps, the fold keeps. *)
THEOREM FoldedKeeps ==
  ASSUME NEW S, \A v : \A e \in S : Good(v) => Good(Step(v, e)),
         NEW base, Good(base), NEW s \in Seq(S)
  PROVE  Good(Folded(base, s))
BY FoldKeeps DEF Folded
=============================================================================
