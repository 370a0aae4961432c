------------------------ MODULE PackageEngineProofs ------------------------
(* Safety of PackageEngine for every set of operations, texts and buffer    *)
(* sizes.  The first part is about one call of process_run: what it has    *)
(* read so far, and when it may see the end of the pipe.  The second is    *)
(* about the order of the operations and of the service's intents.         *)
EXTENDS PackageEngine, SequenceTheorems, TLAPS

LEMMA CallersAre ==
  /\ Caller = {"worker", "main"} /\ App \notin Caller /\ Shell \notin Caller /\ App # Shell
  /\ ReadMax \in Nat \ {0}
  /\ \A c \in Caller : BufferSize[c] \in Nat \ {0} /\ Text[c] \subseteq Seq(Piece)
BY RunnerAssumption, EngineAssumption DEF App, Shell

-----------------------------------------------------------------------------
(* Subsequences.  What is appended to the whole may be left out or kept. *)
LEMMA SubSequenceExtends ==
  ASSUME NEW s \in Seq(Piece), NEW t \in Seq(Piece), NEW u \in Seq(Piece), IsSubSequence(s, t)
  PROVE  IsSubSequence(s, t \o u) /\ IsSubSequence(s \o u, t \o u)
<1>1. /\ Len(s) \in Nat /\ DOMAIN s = 1 .. Len(s) /\ Len(t) \in Nat /\ DOMAIN t = 1 .. Len(t)
      /\ Len(u) \in Nat
  BY LenProperties
<1>2. PICK f \in [1 .. Len(s) -> 1 .. Len(t)] :
         \A i, j \in 1 .. Len(s) : s[i] = t[f[i]] /\ (i < j => f[i] < f[j])
  BY <1>1 DEF IsSubSequence
<1>3. /\ t \o u \in Seq(Piece) /\ DOMAIN (t \o u) = 1 .. Len(t) + Len(u)
      /\ \A i \in 1 .. Len(t) + Len(u) :
            (t \o u)[i] = IF i <= Len(t) THEN t[i] ELSE u[i - Len(t)]
  BY <1>1, ConcatProperties, LenProperties
<1>4. /\ s \o u \in Seq(Piece) /\ DOMAIN (s \o u) = 1 .. Len(s) + Len(u)
      /\ \A i \in 1 .. Len(s) + Len(u) :
            (s \o u)[i] = IF i <= Len(s) THEN s[i] ELSE u[i - Len(s)]
  BY <1>1, ConcatProperties, LenProperties
<1>5. IsSubSequence(s, t \o u)
  <2>1. f \in [1 .. Len(s) -> 1 .. Len(t) + Len(u)]
    BY <1>1
  <2>2. \A i \in 1 .. Len(s) : (t \o u)[f[i]] = t[f[i]]
    BY <1>1, <1>3, <2>1
  <2> QED
    <3>1. f \in [DOMAIN s -> DOMAIN (t \o u)]
      BY <1>1, <1>3, <2>1, Zenon
    <3>2. \A i \in DOMAIN s : s[i] = (t \o u)[f[i]]
      BY <1>1, <1>2, <2>2
    <3>3. \A i, j \in DOMAIN s : i < j => f[i] < f[j]
      BY <1>1, <1>2
    <3> SUFFICES \E h \in [DOMAIN s -> DOMAIN (t \o u)] :
                    \A i, j \in DOMAIN s : s[i] = (t \o u)[h[i]] /\ (i < j => h[i] < h[j])
      BY DEF IsSubSequence
    <3> WITNESS f \in [DOMAIN s -> DOMAIN (t \o u)]
    <3> QED
      BY <3>2, <3>3, Zenon
<1>6. IsSubSequence(s \o u, t \o u)
  <2> DEFINE D == 1 .. Len(s) + Len(u)
             g == [i \in D |-> IF i <= Len(s) THEN f[i] ELSE Len(t) + (i - Len(s))]
  <2>1. g \in [D -> 1 .. Len(t) + Len(u)]
    BY <1>1
  <2>2. \A i \in D : (s \o u)[i] = (t \o u)[g[i]]
    <3> TAKE i \in D
    <3>1. CASE i <= Len(s)
      BY <1>1, <1>2, <1>3, <1>4, <3>1
    <3>2. CASE i > Len(s)
      <4>1. g[i] = Len(t) + (i - Len(s)) /\ g[i] > Len(t) /\ g[i] - Len(t) = i - Len(s)
            /\ g[i] \in 1 .. Len(t) + Len(u)
        BY <1>1, <3>2
      <4> HIDE DEF g
      <4>2. (t \o u)[g[i]] = u[g[i] - Len(t)]
        BY <1>1, <1>3, <4>1
      <4>3. (s \o u)[i] = u[i - Len(s)]
        BY <1>1, <1>4, <3>2
      <4> QED
        BY <4>1, <4>2, <4>3
    <3>3. i <= Len(s) \/ i > Len(s)
      BY <1>1
    <3> HIDE DEF g
    <3> QED
      BY <3>1, <3>2, <3>3
  <2>3. \A i, j \in D : i < j => g[i] < g[j]
    <3> SUFFICES ASSUME NEW i \in D, NEW j \in D, i < j
                 PROVE  g[i] < g[j]
      BY Zenon
    <3>1. CASE j <= Len(s)
      BY <1>1, <1>2, <3>1
    <3>2. CASE i <= Len(s) /\ j > Len(s)
      <4>1. f[i] \in 1 .. Len(t)
        BY <1>1, <3>2
      <4> QED
        BY <1>1, <3>2, <4>1
    <3>3. CASE i > Len(s)
      BY <1>1, <3>3
    <3>4. j <= Len(s) \/ (i <= Len(s) /\ j > Len(s)) \/ i > Len(s)
      BY <1>1
    <3> HIDE DEF g
    <3> QED
      BY <3>1, <3>2, <3>3, <3>4
  <2> HIDE DEF g
  <2> QED
    <3>1. g \in [DOMAIN (s \o u) -> DOMAIN (t \o u)] /\ D = DOMAIN (s \o u)
      BY <1>3, <1>4, <2>1, Zenon
    <3> HIDE DEF D
    <3> SUFFICES \E h \in [DOMAIN (s \o u) -> DOMAIN (t \o u)] :
                    \A i, j \in DOMAIN (s \o u) :
                        (s \o u)[i] = (t \o u)[h[i]] /\ (i < j => h[i] < h[j])
      BY DEF IsSubSequence
    <3> USE <3>1
    <3> WITNESS g \in [DOMAIN (s \o u) -> DOMAIN (t \o u)]
    <3> QED
      BY <2>2, <2>3, Zenon
<1> QED
  BY <1>5, <1>6

LEMMA EmptyIsSubSequence ==
  IsSubSequence(<<>>, <<>>)
<1>1. [i \in {} |-> i] \in [DOMAIN <<>> -> DOMAIN <<>>] /\ DOMAIN <<>> = {}
  OBVIOUS
<1> QED
  BY <1>1 DEF IsSubSequence

-----------------------------------------------------------------------------
(* One call of process_run. *)
CallType ==
    [phase : Phase, holders : SUBSET ({App, Shell} \cup Caller),
     child : {"none", "running", "zombie"}, text : Seq(Piece),
     written : Nat, read : Nat, out : Seq(Piece)]

ReadSoFar(r) == SubSeq(r.text, 1, r.read)

(* A child that runs holds its own pipe: the end of the pipe comes when it  *)
(* has written everything.                                                 *)
CallCounts(c, r) ==
    /\ r.read <= r.written /\ r.written <= Len(r.text) /\ Len(r.out) < BufferSize[c]
    /\ r.phase \in {"idle", "piped"} =>
         r.child = "none" /\ r.text = <<>> /\ r.written = 0 /\ r.read = 0 /\ r.out = <<>>
    /\ r.phase = "piped" => App \in r.holders
    /\ r.phase = "idle" => r.holders = {}
    /\ r.child = "running" => c \in r.holders
    /\ r.child = "zombie" => r.written = Len(r.text)
    /\ r.phase \in {"forked", "reading"} => r.child # "none"
    /\ r.phase = "waiting" => r.child = "zombie" /\ r.read = r.written
    /\ r.phase = "returned" => r.child = "none" /\ r.read = Len(r.text)

(* The buffer holds what was read, all of it if all of the text fits. *)
CallOutput(c, r) ==
    /\ IsSubSequence(r.out, ReadSoFar(r))
    /\ Len(r.text) < BufferSize[c] => r.out = ReadSoFar(r)

CallInv(c, r) == r \in CallType /\ CallCounts(c, r) /\ CallOutput(c, r)

RunnerInv ==
    /\ shell \in BOOLEAN /\ run \in [Caller -> CallType]
    /\ \A c \in Caller : CallInv(c, run[c]) /\ (shell \/ Shell \notin run[c].holders)

(* Two records of a call that differ in the holders of the pipe only. *)
SameButHolders(r, s) ==
    /\ s.phase = r.phase /\ s.child = r.child /\ s.text = r.text
    /\ s.written = r.written /\ s.read = r.read /\ s.out = r.out

LEMMA HoldersChange ==
  ASSUME NEW c \in Caller, NEW r \in CallType, NEW s \in CallType,
         CallInv(c, r), SameButHolders(r, s),
         App \in r.holders => App \in s.holders, c \in r.holders => c \in s.holders,
         r.holders = {} => s.holders = {}
  PROVE  CallInv(c, s)
BY DEF CallInv, CallCounts, CallOutput, ReadSoFar, SameButHolders

LEMMA NewCall ==
  ASSUME NEW c \in Caller, NEW r \in CallType,
         r.child = "none", r.text = <<>>, r.written = 0, r.read = 0, r.out = <<>>,
         r.phase \in {"idle", "piped", "returned"},
         r.phase = "idle" => r.holders = {}, r.phase = "piped" => App \in r.holders
  PROVE  CallInv(c, r)
<1>1. Len(<<>>) = 0
  BY EmptySeq
<1>2. CallCounts(c, r)
  BY <1>1, CallersAre DEF CallCounts
<1>3. ReadSoFar(r) = <<>>
  BY SubSeqEmpty DEF ReadSoFar
<1>4. CallOutput(c, r)
  BY <1>3, EmptyIsSubSequence DEF CallOutput
<1> QED
  BY <1>2, <1>4 DEF CallInv

LEMMA FreshCalls ==
  ASSUME NEW c \in Caller
  PROVE  /\ CallInv(c, NoCall)
         /\ CallInv(c, [NoCall EXCEPT !.phase = "piped", !.holders = {App}])
         /\ CallInv(c, [NoCall EXCEPT !.phase = "returned"])
<1>1. <<>> \in Seq(Piece)
  BY EmptySeq
<1>2. CallInv(c, NoCall)
  <2>1. NoCall \in CallType
    BY <1>1 DEF CallType, NoCall, Phase
  <2> QED
    BY <2>1, NewCall DEF NoCall
<1>3. CallInv(c, [NoCall EXCEPT !.phase = "piped", !.holders = {App}])
  <2> DEFINE r == [NoCall EXCEPT !.phase = "piped", !.holders = {App}]
  <2>1. r \in CallType
    BY <1>1 DEF CallType, NoCall, Phase
  <2>2. /\ r.phase = "piped" /\ r.holders = {App} /\ r.child = "none" /\ r.text = <<>>
        /\ r.written = 0 /\ r.read = 0 /\ r.out = <<>>
    BY DEF NoCall
  <2> HIDE DEF r
  <2>3. CallInv(c, r)
    BY <2>1, <2>2, NewCall
  <2> QED
    BY <2>3 DEF r
<1>4. CallInv(c, [NoCall EXCEPT !.phase = "returned"])
  <2> DEFINE r == [NoCall EXCEPT !.phase = "returned"]
  <2>1. r \in CallType
    BY <1>1 DEF CallType, NoCall, Phase
  <2>2. /\ r.phase = "returned" /\ r.child = "none" /\ r.text = <<>> /\ r.written = 0
        /\ r.read = 0 /\ r.out = <<>>
    BY DEF NoCall
  <2> HIDE DEF r
  <2>3. CallInv(c, r)
    BY <2>1, <2>2, NewCall
  <2> QED
    BY <2>3 DEF r
<1> QED
  BY <1>2, <1>3, <1>4

-----------------------------------------------------------------------------
(* A step of one call. *)
LEMMA OneCall ==
  ASSUME RunnerInv, NEW c \in Caller, NEW r,
         run' = [run EXCEPT ![c] = r], shell' = shell,
         CallInv(c, r), Shell \in r.holders => shell
  PROVE  RunnerInv'
<1>1. r \in CallType
  BY DEF CallInv
<1>2. run' \in [Caller -> CallType] /\ \A d \in Caller : run'[d] = IF d = c THEN r ELSE run[d]
  BY <1>1 DEF RunnerInv
<1> QED
  BY <1>2 DEF RunnerInv

LEMMA PipeStep ==
  ASSUME RunnerInv, NEW c \in Caller, OpenPipe(c) \/ (FailCall(c) /\ UNCHANGED shell)
  PROVE  RunnerInv'
<1> DEFINE piped  == [NoCall EXCEPT !.phase = "piped", !.holders = {App}]
           failed == [NoCall EXCEPT !.phase = "returned"]
<1>1. piped.holders = {App} /\ failed.holders = {}
  BY DEF NoCall
<1>2. CallInv(c, piped) /\ CallInv(c, failed)
  BY FreshCalls
<1>3. shell' = shell /\ (run' = [run EXCEPT ![c] = piped] \/ run' = [run EXCEPT ![c] = failed])
  BY DEF OpenPipe, FailCall
<1> HIDE DEF piped, failed
<1> QED
  BY <1>1, <1>2, <1>3, OneCall, CallersAre

(* A fork passes on the write ends that the process itself has open.       *)
LEMMA InheritKeeps ==
  ASSUME RunnerInv, NEW p \in {Shell} \cup Caller, NEW d \in Caller
  PROVE  /\ CallInv(d, Inherit(run, p)[d]) /\ SameButHolders(run[d], Inherit(run, p)[d])
         /\ Inherit(run, p)[d].holders
               = run[d].holders \cup (IF App \in run[d].holders THEN {p} ELSE {})
<1> DEFINE s == Inherit(run, p)[d]
<1>1. run[d] \in CallType /\ CallInv(d, run[d])
  BY DEF RunnerInv
<1>2. s = IF App \in run[d].holders THEN [run[d] EXCEPT !.holders = @ \cup {p}] ELSE run[d]
  BY DEF Inherit
<1>3. /\ s \in CallType /\ SameButHolders(run[d], s)
      /\ s.holders = run[d].holders \cup (IF App \in run[d].holders THEN {p} ELSE {})
  BY <1>1, <1>2, SMTT(30) DEF CallType, SameButHolders
<1> HIDE DEF s
<1>4. CallInv(d, s)
  BY <1>1, <1>3, HoldersChange
<1> QED
  BY <1>3, <1>4 DEF s

(* When p ends, its copies of the write ends are gone. *)
LEMMA ReleaseKeeps ==
  ASSUME RunnerInv, NEW p \in {Shell} \cup Caller, NEW d \in Caller
  PROVE  /\ Release(run, p)[d] \in CallType /\ SameButHolders(run[d], Release(run, p)[d])
         /\ Release(run, p)[d].holders = run[d].holders \ {p}
         /\ d # p => CallInv(d, Release(run, p)[d])
<1> DEFINE s == Release(run, p)[d]
<1>1. run[d] \in CallType /\ CallInv(d, run[d])
  BY DEF RunnerInv
<1>2. s = [run[d] EXCEPT !.holders = @ \ {p}]
  BY DEF Release
<1>3. s \in CallType /\ SameButHolders(run[d], s) /\ s.holders = run[d].holders \ {p}
  BY <1>1, <1>2 DEF CallType, SameButHolders
<1> HIDE DEF s
<1>4. d # p => CallInv(d, s)
  BY <1>1, <1>3, HoldersChange, CallersAre
<1> QED
  BY <1>3, <1>4 DEF s

LEMMA ShellStep ==
  ASSUME RunnerInv, ForkShell \/ ShellEnds
  PROVE  RunnerInv'
<1>1. CASE ForkShell
  <2>1. run' = Inherit(run, Shell) /\ shell' = TRUE
    BY <1>1 DEF ForkShell
  <2>2. \A d \in Caller : CallInv(d, run'[d])
    BY <2>1, InheritKeeps
  <2>3. run' = [d \in Caller |-> run'[d]]
    BY <2>1 DEF Inherit
  <2> QED
    BY <2>1, <2>2, <2>3 DEF RunnerInv, CallInv
<1>2. CASE ShellEnds
  <2>1. run' = Release(run, Shell)
    BY <1>2 DEF ShellEnds
  <2>2. \A d \in Caller : CallInv(d, run'[d]) /\ Shell \notin run'[d].holders
    BY <2>1, ReleaseKeeps, CallersAre
  <2>3. run' = [d \in Caller |-> run'[d]]
    BY <2>1 DEF Release
  <2> QED
    BY <1>2, <2>2, <2>3 DEF RunnerInv, CallInv, ShellEnds
<1> QED
  BY <1>1, <1>2

(* A child is forked with its text to write; the callers whose pipes are    *)
(* being set up give it their write ends.                                  *)
LEMMA ForkStep ==
  ASSUME RunnerInv, NEW c \in Caller, Fork(c)
  PROVE  RunnerInv'
<1>1. CASE FailCall(c)
  BY <1>1, PipeStep DEF Fork
<1>2. ASSUME NEW text \in Text[c],
             run' = [Inherit(run, c) EXCEPT ![c].phase = "forked", ![c].child = "running",
                                            ![c].text = text]
      PROVE  RunnerInv'
  <2> DEFINE s == Inherit(run, c)[c]
             r == [s EXCEPT !.phase = "forked", !.child = "running", !.text = text]
  <2>1. text \in Seq(Piece) /\ shell' = shell /\ run[c].phase = "piped"
    BY CallersAre DEF Fork
  <2>2. \A d \in Caller :
           /\ Inherit(run, c)[d] \in CallType /\ CallInv(d, Inherit(run, c)[d])
           /\ SameButHolders(run[d], Inherit(run, c)[d])
           /\ Inherit(run, c)[d].holders \subseteq run[d].holders \cup {c}
    BY InheritKeeps DEF CallInv
  <2>3. s.phase = "piped" /\ App \in run[c].holders /\ c \in s.holders
    BY <2>1, <2>2, InheritKeeps DEF SameButHolders, RunnerInv, CallInv, CallCounts
  <2>4. s.written = 0 /\ s.read = 0 /\ s.out = <<>>
    BY <2>2, <2>3 DEF CallInv, CallCounts
  <2>5. s \in CallType
    BY <2>2
  <2>6. Inherit(run, c) = [d \in Caller |-> Inherit(run, c)[d]]
    BY DEF Inherit
  <2>7. \A d \in Caller : run'[d] = IF d = c THEN r ELSE Inherit(run, c)[d]
    BY <1>2, <2>6
  <2>8. run' = [d \in Caller |-> run'[d]]
    BY <1>2, <2>6
  <2> HIDE DEF s
  <2>9. /\ r \in CallType /\ r.phase = "forked" /\ r.child = "running" /\ r.text = text
        /\ r.holders = s.holders /\ r.written = 0 /\ r.read = 0 /\ r.out = <<>>
    BY <2>1, <2>4, <2>5 DEF CallType, Phase
  <2> HIDE DEF r
  <2>10. Len(text) \in Nat /\ Len(<<>>) = 0 /\ BufferSize[c] \in Nat \ {0}
    BY <2>1, LenProperties, EmptySeq, CallersAre
  <2>11. CallCounts(c, r)
    BY <2>3, <2>9, <2>10 DEF CallCounts
  <2>12. ReadSoFar(r) = <<>>
    BY <2>9, SubSeqEmpty DEF ReadSoFar
  <2>13. CallInv(c, r)
    BY <2>9, <2>11, <2>12, EmptyIsSubSequence DEF CallInv, CallOutput
  <2>14. \A d \in Caller : CallInv(d, run'[d]) /\ run'[d] \in CallType
    BY <2>2, <2>7, <2>9, <2>13
  <2>15. \A d \in Caller : shell' \/ Shell \notin run'[d].holders
    BY <2>1, <2>2, <2>7, <2>9, CallersAre DEF RunnerInv, s
  <2> QED
    BY <2>1, <2>8, <2>14, <2>15 DEF RunnerInv
<1> QED
  BY <1>1, <1>2 DEF Fork

(* The steps of a call that leave its text, what it has read and its buffer *)
(* alone.                                                                  *)
LEMMA CountStep ==
  ASSUME RunnerInv, NEW c \in Caller,
         CloseWrite(c) \/ ChildWrites(c) \/ EndOfPipe(c) \/ Wait(c)
  PROVE  RunnerInv'
<1> DEFINE r == run[c]
           s == run'[c]
<1>1. r \in CallType /\ CallInv(c, r) /\ (shell \/ Shell \notin r.holders) /\ shell' = shell
  BY DEF RunnerInv, CloseWrite, ChildWrites, EndOfPipe, Wait
<1>2. Len(r.text) \in Nat /\ r.written \in Nat /\ r.read \in Nat
  BY <1>1, LenProperties DEF CallType
<1>3. /\ run' = [run EXCEPT ![c] = s] /\ s \in CallType
      /\ s.text = r.text /\ s.read = r.read /\ s.out = r.out /\ s.holders \subseteq r.holders
      /\ CallCounts(c, s)
  <2>1. CASE CloseWrite(c)
    <3>1. run' = [run EXCEPT ![c].phase = "reading", ![c].holders = @ \ {App}]
          /\ r.phase = "forked"
      BY <2>1 DEF CloseWrite, WriteEndClosed
    <3>2. s = [r EXCEPT !.phase = "reading", !.holders = @ \ {App}]
          /\ run' = [run EXCEPT ![c] = s]
      BY <1>1, <3>1 DEF RunnerInv
    <3>3. /\ s \in CallType /\ s.phase = "reading" /\ s.holders = r.holders \ {App}
          /\ s.text = r.text /\ s.read = r.read /\ s.out = r.out /\ s.written = r.written
          /\ s.child = r.child
      BY <1>1, <3>2 DEF CallType, Phase
    <3> QED
      BY <1>1, <1>2, <3>1, <3>2, <3>3, CallersAre DEF CallInv, CallCounts
  <2>2. CASE ChildWrites(c)
    <3>1. run' = [run EXCEPT ![c].written = @ + 1] /\ r.child = "running"
          /\ r.written < Len(r.text)
      BY <2>2 DEF ChildWrites
    <3>2. s = [r EXCEPT !.written = @ + 1] /\ run' = [run EXCEPT ![c] = s]
      BY <1>1, <3>1 DEF RunnerInv
    <3>3. /\ s \in CallType /\ s.phase = r.phase /\ s.holders = r.holders
          /\ s.text = r.text /\ s.read = r.read /\ s.out = r.out /\ s.written = r.written + 1
          /\ s.child = r.child
      BY <1>1, <3>2, SMTT(30) DEF CallType
    <3> QED
      BY <1>1, <1>2, <3>1, <3>2, <3>3 DEF CallInv, CallCounts
  <2>3. CASE EndOfPipe(c)
    <3>1. run' = [run EXCEPT ![c].phase = "waiting"] /\ r.phase = "reading"
          /\ r.read = r.written /\ r.holders = {}
      BY <2>3 DEF EndOfPipe, AtEnd
    <3>2. s = [r EXCEPT !.phase = "waiting"] /\ run' = [run EXCEPT ![c] = s]
      BY <1>1, <3>1 DEF RunnerInv
    <3>3. /\ s \in CallType /\ s.phase = "waiting" /\ s.holders = r.holders
          /\ s.text = r.text /\ s.read = r.read /\ s.out = r.out /\ s.written = r.written
          /\ s.child = r.child
      BY <1>1, <3>2 DEF CallType, Phase
    <3>4. r.child = "zombie"
      BY <1>1, <3>1 DEF CallInv, CallCounts, CallType
    <3> QED
      BY <1>1, <1>2, <3>1, <3>2, <3>3, <3>4 DEF CallInv, CallCounts
  <2>4. CASE Wait(c)
    <3>1. run' = [run EXCEPT ![c].phase = "returned", ![c].child = "none"]
          /\ r.phase = "waiting"
      BY <2>4 DEF Wait
    <3>2. s = [r EXCEPT !.phase = "returned", !.child = "none"] /\ run' = [run EXCEPT ![c] = s]
      BY <1>1, <3>1 DEF RunnerInv
    <3>3. /\ s \in CallType /\ s.phase = "returned" /\ s.holders = r.holders
          /\ s.text = r.text /\ s.read = r.read /\ s.out = r.out /\ s.written = r.written
          /\ s.child = "none"
      BY <1>1, <3>2 DEF CallType, Phase
    <3> QED
      BY <1>1, <1>2, <3>1, <3>2, <3>3, ZenonT(40) DEF CallInv, CallCounts
  <2> QED
    BY <2>1, <2>2, <2>3, <2>4
<1> HIDE DEF r, s
<1>4. CallInv(c, s)
  BY <1>1, <1>3 DEF CallInv, CallOutput, ReadSoFar
<1> QED
  BY <1>1, <1>3, <1>4, OneCall

(* The end of a child, which gives up all write ends it has inherited. *)
LEMMA ExitStep ==
  ASSUME RunnerInv, NEW c \in Caller, ChildExits(c)
  PROVE  RunnerInv'
<1> DEFINE s == Release(run, c)[c]
           r == [s EXCEPT !.child = "zombie"]
<1>1. /\ run[c].child = "running" /\ run[c].written = Len(run[c].text) /\ shell' = shell
      /\ run' = [Release(run, c) EXCEPT ![c].child = "zombie"]
  BY DEF ChildExits
<1>2. run[c] \in CallType /\ CallInv(c, run[c])
  BY DEF RunnerInv
<1>3. \A d \in Caller :
         /\ Release(run, c)[d] \in CallType /\ (d # c => CallInv(d, Release(run, c)[d]))
         /\ Release(run, c)[d].holders \subseteq run[d].holders
  BY ReleaseKeeps
<1>4. Release(run, c) = [d \in Caller |-> Release(run, c)[d]]
  BY DEF Release
<1>5. \A d \in Caller : run'[d] = IF d = c THEN r ELSE Release(run, c)[d]
  BY <1>1, <1>4
<1>6. run' = [d \in Caller |-> run'[d]]
  BY <1>1, <1>4
<1>7. s \in CallType /\ SameButHolders(run[c], s) /\ s.holders = run[c].holders \ {c}
  BY ReleaseKeeps
<1> HIDE DEF s
<1>8. /\ r \in CallType /\ r.phase = s.phase /\ r.child = "zombie" /\ r.text = s.text
      /\ r.holders = s.holders /\ r.written = s.written /\ r.read = s.read /\ r.out = s.out
  BY <1>7 DEF CallType
<1> HIDE DEF r
<1>9. CallCounts(c, r)
  BY <1>1, <1>2, <1>7, <1>8, CallersAre DEF SameButHolders, CallInv, CallCounts
<1>10. CallInv(c, r)
  BY <1>2, <1>7, <1>8, <1>9 DEF SameButHolders, CallInv, CallOutput, ReadSoFar
<1>11. \A d \in Caller : CallInv(d, run'[d]) /\ run'[d] \in CallType
  BY <1>3, <1>5, <1>8, <1>10
<1>12. \A d \in Caller : shell' \/ Shell \notin run'[d].holders
  BY <1>1, <1>3, <1>5, <1>8 DEF RunnerInv, s
<1> QED
  BY <1>1, <1>6, <1>11, <1>12 DEF RunnerInv

(* A chunk that does not fit is left out, and then the text cannot fit.    *)
LEMMA ReadStep ==
  ASSUME RunnerInv, NEW c \in Caller, Read(c)
  PROVE  RunnerInv'
<1> DEFINE r     == run[c]
           ready == r.written - r.read
           n     == IF ready > ReadMax THEN ReadMax ELSE ready
           chunk == SubSeq(r.text, r.read + 1, r.read + n)
           out   == IF Len(r.out) + n < BufferSize[c] THEN r.out \o chunk ELSE r.out
           s     == [r EXCEPT !.read = @ + n, !.out = out]
<1>1. r \in CallType /\ CallInv(c, r) /\ (shell \/ Shell \notin r.holders)
  BY DEF RunnerInv
<1>2. r.phase = "reading" /\ r.read < r.written /\ shell' = shell
  BY DEF Read
<1>3. run' = [run EXCEPT ![c] = s]
  BY <1>1 DEF Read, Fits, RunnerInv
<1>4. /\ r.text \in Seq(Piece) /\ r.out \in Seq(Piece) /\ r.read \in Nat /\ r.written \in Nat
      /\ Len(r.text) \in Nat /\ Len(r.out) \in Nat
  BY <1>1, LenProperties DEF CallType
<1>5. r.written <= Len(r.text)
  BY <1>1 DEF CallInv, CallCounts
<1>6. n \in Nat \ {0} /\ r.read + n <= r.written
  BY <1>2, <1>4, CallersAre
<1>7. ReadMax \in Nat \ {0} /\ BufferSize[c] \in Nat \ {0}
  BY CallersAre
<1> HIDE DEF n, r
<1>8. chunk \in Seq(Piece) /\ Len(chunk) = n
  <2>1. \A i \in r.read + 1 .. r.read + n : r.text[i] \in Piece
    BY <1>4, <1>5, <1>6, ElementOfSeq
  <2> QED
    BY <1>4, <1>6, <2>1, SubSeqProperties, SMTT(30)
<1>9. ReadSoFar(r) \in Seq(Piece) /\ Len(ReadSoFar(r)) = r.read
  <2>1. \A i \in 1 .. r.read : r.text[i] \in Piece
    BY <1>2, <1>4, <1>5, ElementOfSeq
  <2> QED
    BY <1>4, <2>1, SubSeqProperties DEF ReadSoFar
<1>10. SubSeq(r.text, 1, r.read + n) = ReadSoFar(r) \o chunk
  <2>1. 1 \in 1 .. Len(r.text) + 1 /\ r.read \in 1 - 1 .. Len(r.text)
        /\ r.read + n \in r.read .. Len(r.text)
    BY <1>2, <1>4, <1>5, <1>6
  <2> QED
    BY <1>4, <2>1, ConcatAdjacentSubSeq DEF ReadSoFar
<1> HIDE DEF chunk
<1>11. out \in Seq(Piece) /\ Len(out) < BufferSize[c]
  <2>1. Len(r.out) < BufferSize[c]
    BY <1>1 DEF CallInv, CallCounts
  <2>2. r.out \o chunk \in Seq(Piece) /\ Len(r.out \o chunk) = Len(r.out) + n
    BY <1>4, <1>8, ConcatProperties
  <2> QED
    BY <1>4, <2>1, <2>2
<1>12. IsSubSequence(out, ReadSoFar(r) \o chunk)
  BY <1>1, <1>4, <1>8, <1>9, SubSequenceExtends DEF CallInv, CallOutput
<1>13. Len(r.text) < BufferSize[c] => out = ReadSoFar(r) \o chunk
  <2> SUFFICES ASSUME Len(r.text) < BufferSize[c] PROVE out = ReadSoFar(r) \o chunk
    OBVIOUS
  <2>1. r.out = ReadSoFar(r)
    BY <1>1 DEF CallInv, CallOutput
  <2>2. Len(r.out) + n < BufferSize[c]
    BY <1>4, <1>5, <1>6, <1>7, <1>9, <2>1
  <2> QED
    BY <2>1, <2>2
<1> HIDE DEF out
<1>14. /\ s \in CallType /\ s.phase = r.phase /\ s.child = r.child /\ s.text = r.text
       /\ s.holders = r.holders /\ s.written = r.written /\ s.read = r.read + n /\ s.out = out
  <2>1. r.read + n \in Nat
    BY <1>4, <1>6
  <2> DEFINE m == r.read + n
  <2> HIDE DEF m
  <2>2. s = [r EXCEPT !.read = m, !.out = out]
    BY DEF m
  <2> HIDE DEF s
  <2>3. /\ s \in CallType /\ s.phase = r.phase /\ s.child = r.child /\ s.text = r.text
        /\ s.holders = r.holders /\ s.written = r.written /\ s.read = m /\ s.out = out
    BY <1>1, <1>11, <2>1, <2>2 DEF CallType, m
  <2> QED
    BY <2>3 DEF m
<1> HIDE DEF s
<1>15. CallCounts(c, s)
  BY <1>1, <1>2, <1>4, <1>6, <1>11, <1>14 DEF CallInv, CallCounts
<1>16. ReadSoFar(s) = ReadSoFar(r) \o chunk
  BY <1>10, <1>14 DEF ReadSoFar
<1>17. CallInv(c, s)
  BY <1>12, <1>13, <1>14, <1>15, <1>16 DEF CallInv, CallOutput
<1> QED
  BY <1>1, <1>2, <1>3, <1>14, <1>17, OneCall DEF r

LEMMA CallsStep ==
  ASSUME RunnerInv, NEW c \in Caller, CallStep(c)
  PROVE  RunnerInv'
BY ForkStep, CountStep, ReadStep, ExitStep DEF CallStep

(* What the worker's process was to write changes with its own fork only,  *)
(* and its call leaves "returned" and "idle" by a step of the engine only. *)
LEMMA CallsKeepText ==
  ASSUME RunnerInv, NEW d \in Caller,
         (\E c \in Caller : CallStep(c)) \/ ForkShell \/ ShellEnds
  PROVE  /\ run[d].phase # "piped" => run'[d].text = run[d].text
         /\ run'[d].phase = "idle" <=> run[d].phase = "idle"
         /\ run[d].phase = "returned" => run'[d].phase = "returned"
<1>1. run \in [Caller -> CallType]
  BY DEF RunnerInv
<1>2. CASE ForkShell \/ ShellEnds
  <2>1. SameButHolders(run[d], run'[d])
    BY <1>2, InheritKeeps, ReleaseKeeps DEF ForkShell, ShellEnds
  <2> QED
    BY <2>1 DEF SameButHolders
<1>3. ASSUME NEW c \in Caller, CallStep(c)
      PROVE  /\ run[d].phase # "piped" => run'[d].text = run[d].text
             /\ run'[d].phase = "idle" <=> run[d].phase = "idle"
             /\ run[d].phase = "returned" => run'[d].phase = "returned"
  <2>1. CASE Fork(c)
    <3>1. CASE FailCall(c)
      BY <1>1, <2>1, <3>1 DEF FailCall, Fork, NoCall, CallType
    <3>2. ASSUME NEW text \in Text[c],
                 run' = [Inherit(run, c) EXCEPT ![c].phase = "forked",
                                                ![c].child = "running", ![c].text = text]
          PROVE  /\ run'[d].phase = IF d = c THEN "forked" ELSE run[d].phase
                 /\ d # c => run'[d].text = run[d].text
      <4>1. SameButHolders(run[d], Inherit(run, c)[d]) /\ CallInv(d, Inherit(run, c)[d])
        BY InheritKeeps
      <4>2. Inherit(run, c) = [e \in Caller |-> Inherit(run, c)[e]]
        BY DEF Inherit
      <4>3. run'[d] = IF d = c
                      THEN [Inherit(run, c)[d] EXCEPT !.phase = "forked", !.child = "running",
                                                      !.text = text]
                      ELSE Inherit(run, c)[d]
        BY <3>2, <4>2
      <4> QED
        BY <4>1, <4>3 DEF SameButHolders, CallInv, CallType
    <3> QED
      BY <2>1, <3>1, <3>2 DEF Fork
  <2>2. CASE ChildExits(c)
    <3>1. SameButHolders(run[d], Release(run, c)[d]) /\ Release(run, c)[d] \in CallType
      BY ReleaseKeeps
    <3>2. Release(run, c) = [e \in Caller |-> Release(run, c)[e]]
      BY DEF Release
    <3>3. run'[d] = IF d = c THEN [Release(run, c)[d] EXCEPT !.child = "zombie"]
                    ELSE Release(run, c)[d]
      BY <2>2, <3>2 DEF ChildExits
    <3> QED
      BY <3>1, <3>3 DEF SameButHolders, CallType
  <2>3. CASE CloseWrite(c) \/ ChildWrites(c) \/ EndOfPipe(c) \/ Wait(c)
    <3>1. CASE CloseWrite(c)
      BY <1>1, <3>1 DEF CloseWrite, CallType
    <3>2. CASE ChildWrites(c)
      BY <1>1, <3>2 DEF ChildWrites, CallType
    <3>3. CASE EndOfPipe(c)
      BY <1>1, <3>3 DEF EndOfPipe, CallType
    <3>4. CASE Wait(c)
      BY <1>1, <3>4 DEF Wait, CallType
    <3> QED
      BY <2>3, <3>1, <3>2, <3>3, <3>4
  <2>4. CASE Read(c)
    BY <1>1, <2>4 DEF Read, CallType
  <2> QED
    BY <1>3, <2>1, <2>2, <2>3, <2>4 DEF CallStep
<1> QED
  BY <1>2, <1>3

-----------------------------------------------------------------------------
(* The engine.  What is submitted is answered, on its way back, in the      *)
(* worker's hand or in the queue, in this order.                           *)
Intent == {"START", "STOP"}
PostRecord == [id : Nat, out : Seq(Piece), ok : BOOLEAN, wrote : Seq(Piece)]

EngineTypes ==
    /\ submitted \in Seq(Op) /\ Len(submitted) <= MaxOps
    /\ queue \in Seq(Nat) /\ job \in Nat /\ posts \in Seq(PostRecord) /\ answered \in Nat
    /\ intents \in Seq(Intent) /\ foreground \in BOOLEAN

(* The operation whose result is not posted yet. *)
InHand == IF job # 0 /\ run["worker"].phase # "idle" THEN 1 ELSE 0

OrderInv ==
    /\ answered + Len(posts) + InHand + Len(queue) = Len(submitted)
    /\ \A i \in 1 .. Len(queue) : queue[i] = answered + Len(posts) + InHand + i
    /\ job = 0 => run["worker"].phase = "idle"
    /\ job # 0 => job = answered + Len(posts) + InHand
    /\ job # 0 /\ ~RunsProcess(submitted[job]) =>
          run["worker"].text = <<>> /\ run["worker"].phase \in {"idle", "returned"}

(* Whoever has the service started last is still to stop it: overlapping    *)
(* operations send STOP in the order in which they are run, and START in   *)
(* the order in which they are submitted.                                  *)
Pending == {i \in 1 .. Len(submitted) : i = job \/ \E k \in 1 .. Len(queue) : queue[k] = i}

LastIntent == IF intents = <<>> THEN IF foreground THEN "START" ELSE "STOP"
              ELSE intents[Len(intents)]

ServiceInv == LastIntent = "START" => \E i \in Pending : StartsService(submitted[i])

(* ResultsAreTheirOwn for one result. *)
OwnResult(r, n, op) ==
    /\ r.id = n
    /\ IsSubSequence(r.out, r.wrote)
    /\ Len(r.wrote) < BufferSize["worker"] => r.out = r.wrote /\ r.ok = Succeeded(op, r.wrote)
    /\ op.kind = "install" /\ r.ok => "N" \in Tokens(r.wrote)
    /\ ~RunsProcess(op) => r.wrote = <<>>

ResultsInv == \A i \in 1 .. Len(posts) :
                  OwnResult(posts[i], answered + i, submitted[answered + i])

EngineInv == EngineTypes /\ OrderInv /\ ServiceInv /\ ResultsInv

LEMMA Lengths ==
  ASSUME EngineTypes
  PROVE  /\ Len(submitted) \in Nat /\ Len(queue) \in Nat /\ Len(posts) \in Nat
         /\ Len(intents) \in Nat /\ DOMAIN posts = 1 .. Len(posts)
         /\ DOMAIN queue = 1 .. Len(queue) /\ DOMAIN intents = 1 .. Len(intents)
         /\ \A i \in 1 .. Len(posts) : posts[i] \in PostRecord
         /\ \A i \in 1 .. Len(queue) : queue[i] \in Nat
         /\ \A i \in 1 .. Len(intents) : intents[i] \in Intent
BY LenProperties, ElementOfSeq DEF EngineTypes

LEMMA InHandIs ==
  InHand \in {0, 1} /\ (InHand = 1 <=> job # 0 /\ run["worker"].phase # "idle")
BY DEF InHand

(* The parts of the invariant say what the properties say. *)
LEMMA InvGivesProperties ==
  ASSUME RunnerInv, EngineInv
  PROVE  EngineTypeOK /\ ServiceEndsWithWork /\ ResultsAreTheirOwn
<1>1. EngineTypes /\ OrderInv
  BY DEF EngineInv
<1>2. EngineTypeOK
  <2>1. RunnerTypeOK
    <3>1. \A c \in Caller :
            /\ run[c] \in CallType /\ CallCounts(c, run[c])
            /\ shell \/ Shell \notin run[c].holders
      BY DEF RunnerInv, CallInv
    <3> SUFFICES ASSUME NEW c \in Caller
                 PROVE  /\ run[c].phase \in Phase /\ run[c].child \in {"none", "running", "zombie"}
                        /\ run[c].holders \subseteq {App, Shell} \cup Caller
                        /\ run[c].read \in 0 .. run[c].written
                        /\ run[c].written \in 0 .. Len(run[c].text)
                        /\ Len(run[c].out) < BufferSize[c]
                        /\ shell \/ Shell \notin run[c].holders
      BY DEF RunnerTypeOK, RunnerInv
    <3>2. /\ run[c].phase \in Phase /\ run[c].child \in {"none", "running", "zombie"}
          /\ run[c].holders \subseteq {App, Shell} \cup Caller
          /\ run[c].read \in Nat /\ run[c].written \in Nat /\ Len(run[c].text) \in Nat
      BY <3>1, LenProperties DEF CallType
    <3> QED
      BY <3>1, <3>2 DEF CallCounts
  <2>2. Tokens(queue) \cup {job, answered} \subseteq 0 .. Len(submitted)
    BY <1>1, Lengths, InHandIs DEF OrderInv, EngineTypes, Tokens
  <2>3. Tokens(intents) \subseteq {"START", "STOP"}
    BY <1>1, Lengths DEF Tokens, Intent
  <2> QED
    BY <1>1, <2>1, <2>2, <2>3 DEF EngineTypeOK, EngineTypes
<1>3. ServiceEndsWithWork
  <2> SUFFICES ASSUME AllAnswered, intents = <<>>, foreground
               PROVE  FALSE
    BY DEF ServiceEndsWithWork
  <2>1. Len(queue) = 0
    BY <1>1, Lengths, InHandIs DEF OrderInv, EngineTypes, AllAnswered
  <2>2. Pending = {}
    BY <1>1, <2>1, Lengths DEF Pending, AllAnswered
  <2> QED
    BY <2>2 DEF EngineInv, ServiceInv, LastIntent
<1>4. ResultsAreTheirOwn
  BY <1>1, Lengths DEF EngineInv, ResultsInv, OwnResult, ResultsAreTheirOwn
<1> QED
  BY <1>2, <1>3, <1>4

(* A step of the calls only, or of the main thread's call. *)
LEMMA EngineUnmoved ==
  ASSUME EngineInv, UNCHANGED engineVars,
         run'["worker"].phase = "idle" <=> run["worker"].phase = "idle",
         run["worker"].phase = "returned" => run'["worker"].phase = "returned",
         run["worker"].phase # "piped" => run'["worker"].text = run["worker"].text
  PROVE  EngineInv'
<1>1. /\ submitted' = submitted /\ queue' = queue /\ job' = job /\ posts' = posts
      /\ intents' = intents /\ foreground' = foreground /\ answered' = answered
  BY DEF engineVars
<1>2. EngineTypes' /\ ServiceInv' /\ ResultsInv'
  BY <1>1 DEF EngineInv, EngineTypes, ServiceInv, ResultsInv, Pending, LastIntent
<1>3. InHand' = InHand
  BY <1>1 DEF InHand
<1>4. OrderInv'
  BY <1>1, <1>3 DEF EngineInv, OrderInv
<1> QED
  BY <1>2, <1>4 DEF EngineInv

LEMMA SubmitStep ==
  ASSUME EngineInv, NEW op \in Op, Submit(op)
  PROVE  EngineInv'
<1> DEFINE n == Len(submitted)
<1>1. EngineTypes /\ OrderInv /\ ServiceInv /\ ResultsInv
  BY DEF EngineInv
<1>2. /\ n < MaxOps /\ submitted' = Append(submitted, op) /\ queue' = Append(queue, n + 1)
      /\ intents' = IF StartsService(op) THEN Append(intents, "START") ELSE intents
      /\ run' = run /\ job' = job /\ posts' = posts /\ foreground' = foreground
      /\ answered' = answered
  BY DEF Submit, runnerVars
<1>3. n \in Nat /\ Len(queue) \in Nat /\ Len(posts) \in Nat /\ Len(intents) \in Nat
  BY <1>1, Lengths
<1>4. /\ submitted' \in Seq(Op) /\ Len(submitted') = n + 1 /\ submitted'[n + 1] = op
      /\ \A i \in 1 .. n : submitted'[i] = submitted[i]
  BY <1>1, <1>2, AppendProperties DEF EngineTypes
<1>5. /\ queue' \in Seq(Nat) /\ Len(queue') = Len(queue) + 1
      /\ queue'[Len(queue) + 1] = n + 1
      /\ \A i \in 1 .. Len(queue) : queue'[i] = queue[i]
  BY <1>1, <1>2, <1>3, AppendProperties DEF EngineTypes
<1>6. Append(intents, "START") \in Seq(Intent)
      /\ Append(intents, "START") # <<>>
      /\ Len(Append(intents, "START")) = Len(intents) + 1
      /\ Append(intents, "START")[Len(intents) + 1] = "START"
  <2>1. intents \in Seq(Intent) /\ "START" \in Intent
    BY <1>1 DEF EngineTypes, Intent
  <2> QED
    BY <2>1, AppendProperties
<1>7. InHand' = InHand /\ InHand \in {0, 1}
  BY <1>2, InHandIs DEF InHand
<1>8. job \in Nat /\ answered \in Nat
  BY <1>1 DEF EngineTypes
<1> HIDE DEF n
<1>9. EngineTypes'
  <2>1. intents' \in Seq(Intent)
    BY <1>1, <1>2, <1>6 DEF EngineTypes
  <2>2. Len(submitted') <= MaxOps
    BY <1>2, <1>3, <1>4, EngineAssumption DEF n
  <2> QED
    BY <1>1, <1>2, <1>4, <1>5, <2>1, <2>2 DEF EngineTypes
<1>10. OrderInv'
  <2>1. answered + Len(posts) + InHand + Len(queue) = n
    BY <1>1 DEF OrderInv, n
  <2>2. answered' + Len(posts') + InHand' + Len(queue') = Len(submitted')
    <3>1. /\ answered' = answered /\ Len(posts') = Len(posts) /\ InHand' = InHand
          /\ Len(queue') = Len(queue) + 1 /\ Len(submitted') = n + 1
      BY <1>2, <1>4, <1>5, <1>7
    <3> QED
      BY <1>3, <1>7, <1>8, <2>1, <3>1
  <2>3. \A i \in 1 .. Len(queue') : queue'[i] = answered' + Len(posts') + InHand' + i
    <3> SUFFICES ASSUME NEW i \in 1 .. Len(queue')
                 PROVE  queue'[i] = answered + Len(posts) + InHand + i
      BY <1>2, <1>7
    <3>1. CASE i = Len(queue) + 1
      BY <1>3, <1>5, <1>7, <1>8, <2>1, <3>1
    <3>2. CASE i \in 1 .. Len(queue)
      BY <1>1, <1>5, <3>2 DEF OrderInv
    <3> QED
      BY <1>3, <1>5, <3>1, <3>2
  <2>4. job # 0 => job \in 1 .. n /\ job = answered + Len(posts) + InHand
    BY <1>1, <1>3, <1>7, <1>8, <2>1 DEF OrderInv
  <2>5. job # 0 => submitted'[job] = submitted[job]
    BY <1>4, <2>4
  <2> QED
    BY <1>1, <1>2, <1>7, <2>2, <2>3, <2>4, <2>5 DEF OrderInv
<1>11. ServiceInv'
  <2>1. Pending \subseteq Pending' /\ n + 1 \in Pending'
    <3>1. Pending \subseteq Pending'
      BY <1>2, <1>3, <1>4, <1>5 DEF Pending, n
    <3>2. n + 1 \in 1 .. Len(submitted') /\ Len(queue) + 1 \in 1 .. Len(queue')
      BY <1>3, <1>4, <1>5
    <3> QED
      BY <1>5, <3>1, <3>2 DEF Pending
  <2>2. CASE StartsService(op)
    BY <1>4, <2>1, <2>2 DEF ServiceInv
  <2>3. CASE ~StartsService(op)
    <3>1. LastIntent' = LastIntent
      BY <1>2, <2>3 DEF LastIntent
    <3>2. \A j \in Pending : submitted'[j] = submitted[j]
      BY <1>4 DEF Pending, n
    <3> QED
      BY <1>1, <2>1, <3>1, <3>2 DEF ServiceInv
  <2> QED
    BY <2>2, <2>3
<1>12. ResultsInv'
  <2>1. \A i \in 1 .. Len(posts) : submitted'[answered + i] = submitted[answered + i]
    <3> SUFFICES ASSUME NEW i \in 1 .. Len(posts) PROVE answered + i \in 1 .. n
      BY <1>4
    <3>1. answered + Len(posts) + InHand + Len(queue) = n
      BY <1>1 DEF OrderInv, n
    <3> QED
      BY <1>3, <1>7, <1>8, <3>1
  <2> QED
    BY <1>1, <1>2, <2>1 DEF ResultsInv
<1> QED
  BY <1>9, <1>10, <1>11, <1>12 DEF EngineInv

LEMMA TakeStep ==
  ASSUME RunnerInv, EngineInv, Take
  PROVE  EngineInv'
<1>1. EngineTypes /\ OrderInv /\ ServiceInv /\ ResultsInv
  BY DEF EngineInv
<1>2. /\ job = 0 /\ queue # <<>> /\ job' = Head(queue) /\ queue' = Tail(queue)
      /\ submitted' = submitted /\ posts' = posts /\ intents' = intents
      /\ foreground' = foreground /\ answered' = answered
  BY DEF Take
<1>3. /\ Len(submitted) \in Nat /\ Len(queue) \in Nat \ {0} /\ Len(posts) \in Nat
      /\ answered \in Nat
  BY <1>1, <1>2, Lengths, EmptySeq DEF EngineTypes
<1>4. /\ queue' \in Seq(Nat) /\ Len(queue') = Len(queue) - 1 /\ job' = queue[1]
      /\ \A i \in 1 .. Len(queue') : queue'[i] = queue[i + 1]
  BY <1>1, <1>2, HeadTailProperties DEF EngineTypes
<1>5. InHand = 0
  BY <1>2 DEF InHand
<1>6. job' = answered + Len(posts) + 1
  BY <1>1, <1>3, <1>4, <1>5 DEF OrderInv
<1>7. /\ run'["worker"].phase \in {"piped", "returned"}
      /\ ~RunsProcess(submitted[job']) =>
            run'["worker"].phase = "returned" /\ run'["worker"].text = <<>>
  <2>1. run \in [Caller -> CallType] /\ "worker" \in Caller
    BY CallersAre DEF RunnerInv
  <2> QED
    BY <1>2, <2>1 DEF Take, RunApt, OpenPipe, FailCall, NoCall
<1>8. InHand' = 1
  BY <1>3, <1>6, <1>7 DEF InHand
<1>9. EngineTypes'
  BY <1>1, <1>2, <1>3, <1>4, <1>6 DEF EngineTypes
<1>10. OrderInv'
  <2>1. answered' + Len(posts') + InHand' + Len(queue') = Len(submitted')
    BY <1>1, <1>2, <1>3, <1>4, <1>5, <1>8 DEF OrderInv
  <2>2. \A i \in 1 .. Len(queue') : queue'[i] = answered' + Len(posts') + InHand' + i
    <3> SUFFICES ASSUME NEW i \in 1 .. Len(queue')
                 PROVE  queue'[i] = answered + Len(posts) + 1 + i
      BY <1>2, <1>8
    <3>1. i \in Nat /\ i + 1 \in 1 .. Len(queue) /\ queue'[i] = queue[i + 1]
      BY <1>3, <1>4
    <3> QED
      BY <1>1, <1>3, <1>5, <3>1 DEF OrderInv
  <2>3. job' # 0
    BY <1>3, <1>6
  <2>4. job' = answered' + Len(posts') + InHand'
    BY <1>2, <1>3, <1>6, <1>8
  <2> QED
    BY <1>2, <1>7, <2>1, <2>2, <2>3, <2>4 DEF OrderInv
<1>11. ServiceInv'
  <2>1. Pending \subseteq Pending'
    <3> SUFFICES ASSUME NEW i \in 1 .. Len(submitted), NEW k \in 1 .. Len(queue),
                        queue[k] = i, i # job'
                 PROVE  \E m \in 1 .. Len(queue') : queue'[m] = i
      BY <1>2, <1>3 DEF Pending
    <3>1. k # 1
      BY <1>4
    <3>2. k - 1 \in 1 .. Len(queue') /\ (k - 1) + 1 = k
      BY <1>3, <1>4, <3>1
    <3> QED
      BY <1>4, <3>2
  <2>2. LastIntent' = LastIntent
    BY <1>2 DEF LastIntent
  <2> QED
    BY <1>1, <1>2, <2>1, <2>2 DEF ServiceInv
<1>12. ResultsInv'
  BY <1>1, <1>2 DEF ResultsInv
<1> QED
  BY <1>9, <1>10, <1>11, <1>12 DEF EngineInv

LEMMA SucceededIsBoolean ==
  ASSUME NEW op \in Op, NEW out
  PROVE  Succeeded(op, out) \in BOOLEAN
<1>1. CASE op.kind = "install"
  BY <1>1 DEF Succeeded
<1>2. CASE op.kind = "search"
  BY <1>2 DEF Succeeded
<1>3. CASE op.kind \in {"update", "upgrade", "remove"}
  BY <1>3 DEF Succeeded
<1> QED
  BY <1>1, <1>2, <1>3, EngineAssumption

(* A call that has returned has read everything: its result is that of its  *)
(* own text.                                                               *)
LEMMA ReturnedResult ==
  ASSUME NEW r \in CallType, CallInv("worker", r), r.phase = "returned",
         NEW n, NEW op \in Op, ~RunsProcess(op) => r.text = <<>>
  PROVE  OwnResult([id |-> n, out |-> r.out, ok |-> Succeeded(op, r.out), wrote |-> r.text],
                   n, op)
<1> DEFINE p == [id |-> n, out |-> r.out, ok |-> Succeeded(op, r.out), wrote |-> r.text]
<1>1. p.id = n /\ p.out = r.out /\ p.ok = Succeeded(op, r.out) /\ p.wrote = r.text
  OBVIOUS
<1>2. r.text \in Seq(Piece) /\ r.out \in Seq(Piece)
  BY DEF CallType
<1>3. ReadSoFar(r) = r.text
  BY <1>2, SubSeqFull DEF CallInv, CallCounts, ReadSoFar
<1>4. IsSubSequence(r.out, r.text)
      /\ (Len(r.text) < BufferSize["worker"] => r.out = r.text)
  BY <1>3 DEF CallInv, CallOutput
<1>5. Tokens(r.out) \subseteq Tokens(r.text)
  BY <1>4 DEF IsSubSequence, Tokens
<1>6. op.kind = "install" /\ p.ok => "N" \in Tokens(r.text)
  BY <1>1, <1>5 DEF Succeeded
<1> HIDE DEF p
<1>7. OwnResult(p, n, op)
  BY <1>1, <1>4, <1>6 DEF OwnResult
<1> QED
  BY <1>7 DEF p

LEMMA PostStep ==
  ASSUME RunnerInv, EngineInv, Post
  PROVE  EngineInv'
<1> DEFINE w == run["worker"]
           p == [id |-> job, out |-> w.out, ok |-> Succeeded(submitted[job], w.out),
                 wrote |-> w.text]
<1>1. EngineTypes /\ OrderInv /\ ServiceInv /\ ResultsInv
  BY DEF EngineInv
<1>2. /\ w.phase = "returned" /\ posts' = Append(posts, p)
      /\ run' = [run EXCEPT !["worker"] = NoCall]
      /\ submitted' = submitted /\ queue' = queue /\ job' = job /\ intents' = intents
      /\ foreground' = foreground /\ answered' = answered
  BY DEF Post, NativeString
<1>3. w \in CallType /\ CallInv("worker", w)
  BY CallersAre DEF RunnerInv
<1>4. run'["worker"].phase = "idle" /\ run'["worker"].text = <<>>
  BY <1>2, CallersAre DEF RunnerInv, NoCall
<1>5. /\ Len(submitted) \in Nat /\ Len(queue) \in Nat /\ Len(posts) \in Nat
      /\ answered \in Nat /\ job \in Nat /\ posts \in Seq(PostRecord)
  BY <1>1, Lengths DEF EngineTypes
<1>6. job # 0 /\ InHand = 1 /\ InHand' = 0
  BY <1>1, <1>2, <1>4 DEF InHand, OrderInv
<1>7. job = answered + Len(posts) + 1 /\ job \in 1 .. Len(submitted)
  BY <1>1, <1>5, <1>6 DEF OrderInv
<1>8. submitted[job] \in Op
  BY <1>1, <1>7, ElementOfSeq DEF EngineTypes
<1>9. ~RunsProcess(submitted[job]) => w.text = <<>>
  BY <1>1, <1>6 DEF OrderInv
<1> HIDE DEF w
<1>10. p \in PostRecord
  BY <1>3, <1>5, <1>8, SucceededIsBoolean DEF CallType, PostRecord
<1>11. OwnResult(p, job, submitted[job])
  BY <1>2, <1>3, <1>8, <1>9, ReturnedResult
<1> HIDE DEF p
<1>12. /\ posts' \in Seq(PostRecord) /\ Len(posts') = Len(posts) + 1
       /\ posts'[Len(posts) + 1] = p
       /\ \A i \in 1 .. Len(posts) : posts'[i] = posts[i]
  BY <1>2, <1>5, <1>10, AppendProperties
<1>13. EngineTypes'
  BY <1>1, <1>2, <1>12 DEF EngineTypes
<1>14. OrderInv'
  BY <1>1, <1>2, <1>4, <1>5, <1>6, <1>12 DEF OrderInv
<1>15. ServiceInv'
  BY <1>1, <1>2 DEF ServiceInv, Pending, LastIntent
<1>16. ResultsInv'
  <2> SUFFICES ASSUME NEW i \in 1 .. Len(posts')
               PROVE  OwnResult(posts'[i], answered + i, submitted[answered + i])
    BY <1>2 DEF ResultsInv
  <2>1. CASE i \in 1 .. Len(posts)
    BY <1>1, <1>12, <2>1 DEF ResultsInv
  <2>2. CASE i = Len(posts) + 1
    <3>1. answered + i = job
      BY <1>5, <1>7, <2>2
    <3> QED
      BY <1>11, <1>12, <2>2, <3>1
  <2> QED
    BY <1>5, <1>12, <2>1, <2>2
<1> QED
  BY <1>13, <1>14, <1>15, <1>16 DEF EngineInv

LEMMA FinishStep ==
  ASSUME EngineInv, Finish
  PROVE  EngineInv'
<1>1. EngineTypes /\ OrderInv /\ ServiceInv /\ ResultsInv
  BY DEF EngineInv
<1>2. /\ job # 0 /\ run["worker"].phase = "idle" /\ job' = 0
      /\ intents' = IF StopsService(submitted[job]) THEN Append(intents, "STOP") ELSE intents
      /\ run' = run /\ submitted' = submitted /\ queue' = queue /\ posts' = posts
      /\ foreground' = foreground /\ answered' = answered
  BY DEF Finish, runnerVars
<1>3. /\ Append(intents, "STOP") \in Seq(Intent) /\ Append(intents, "STOP") # <<>>
      /\ Len(Append(intents, "STOP")) = Len(intents) + 1
      /\ Append(intents, "STOP")[Len(intents) + 1] = "STOP"
  <2>1. intents \in Seq(Intent) /\ "STOP" \in Intent
    BY <1>1 DEF EngineTypes, Intent
  <2> QED
    BY <2>1, AppendProperties
<1>4. InHand = 0 /\ InHand' = 0
  BY <1>2 DEF InHand
<1>5. EngineTypes'
  BY <1>1, <1>2, <1>3 DEF EngineTypes
<1>6. OrderInv'
  BY <1>1, <1>2, <1>4 DEF OrderInv
<1>7. ServiceInv'
  <2>1. CASE StopsService(submitted[job])
    BY <1>2, <1>3, <2>1 DEF ServiceInv, LastIntent
  <2>2. CASE ~StopsService(submitted[job])
    <3>1. LastIntent' = LastIntent
      BY <1>2, <2>2 DEF LastIntent
    <3>2. ~StartsService(submitted[job])
      BY <2>2 DEF StartsService, StopsService
    <3>3. Pending \ {job} \subseteq Pending'
      BY <1>2 DEF Pending
    <3> QED
      BY <1>1, <1>2, <3>1, <3>2, <3>3 DEF ServiceInv
  <2> QED
    BY <2>1, <2>2
<1>8. ResultsInv'
  BY <1>1, <1>2 DEF ResultsInv
<1> QED
  BY <1>5, <1>6, <1>7, <1>8 DEF EngineInv

LEMMA DeliverStep ==
  ASSUME EngineInv, Deliver
  PROVE  EngineInv'
<1>1. EngineTypes /\ OrderInv /\ ServiceInv /\ ResultsInv
  BY DEF EngineInv
<1>2. /\ posts # <<>> /\ answered' = answered + 1 /\ posts' = Tail(posts)
      /\ run' = run /\ submitted' = submitted /\ queue' = queue /\ job' = job
      /\ intents' = intents /\ foreground' = foreground
  BY DEF Deliver, runnerVars
<1>3. /\ Len(posts) \in Nat \ {0} /\ posts' \in Seq(PostRecord) /\ Len(posts') = Len(posts) - 1
      /\ \A i \in 1 .. Len(posts') : posts'[i] = posts[i + 1]
  BY <1>1, <1>2, HeadTailProperties, EmptySeq DEF EngineTypes
<1>4. answered \in Nat /\ InHand' = InHand /\ InHand \in {0, 1}
  BY <1>1, <1>2, InHandIs DEF EngineTypes, InHand
<1>5. answered' + Len(posts') = answered + Len(posts)
  BY <1>2, <1>3, <1>4
<1>6. EngineTypes'
  BY <1>1, <1>2, <1>3, <1>4 DEF EngineTypes
<1>7. OrderInv'
  BY <1>1, <1>2, <1>4, <1>5 DEF OrderInv
<1>8. ServiceInv'
  BY <1>1, <1>2 DEF ServiceInv, Pending, LastIntent
<1>9. ResultsInv'
  <2> SUFFICES ASSUME NEW i \in 1 .. Len(posts')
               PROVE  OwnResult(posts'[i], answered' + i, submitted[answered' + i])
    BY <1>2 DEF ResultsInv
  <2>1. i + 1 \in 1 .. Len(posts) /\ answered' + i = answered + (i + 1)
        /\ posts'[i] = posts[i + 1]
    BY <1>2, <1>3, <1>4
  <2> QED
    BY <1>1, <2>1 DEF ResultsInv
<1> QED
  BY <1>6, <1>7, <1>8, <1>9 DEF EngineInv

LEMMA IntentStep ==
  ASSUME EngineInv, OnStartCommand
  PROVE  EngineInv'
<1>1. EngineTypes /\ OrderInv /\ ServiceInv /\ ResultsInv
  BY DEF EngineInv
<1>2. /\ intents # <<>> /\ foreground' = (Head(intents) = "START") /\ intents' = Tail(intents)
      /\ run' = run /\ submitted' = submitted /\ queue' = queue /\ job' = job
      /\ posts' = posts /\ answered' = answered
  BY DEF OnStartCommand, runnerVars
<1>3. /\ intents \in Seq(Intent) /\ Len(intents) \in Nat \ {0} /\ intents' \in Seq(Intent)
      /\ Len(intents') = Len(intents) - 1 /\ Head(intents) = intents[1]
      /\ \A i \in 1 .. Len(intents') : intents'[i] = intents[i + 1]
  BY <1>1, <1>2, HeadTailProperties, EmptySeq DEF EngineTypes
<1>4. InHand' = InHand
  BY <1>2 DEF InHand
<1>5. EngineTypes'
  BY <1>1, <1>2, <1>3 DEF EngineTypes
<1>6. OrderInv'
  BY <1>1, <1>2, <1>4 DEF OrderInv
<1>7. LastIntent' = LastIntent
  <2>1. CASE intents' = <<>>
    <3>1. Len(intents) = 1
      BY <1>3, <2>1, EmptySeq
    <3>2. intents[1] \in {"START", "STOP"}
      BY <1>3, ElementOfSeq DEF Intent
    <3> QED
      BY <1>2, <1>3, <2>1, <3>1, <3>2 DEF LastIntent
  <2>2. CASE intents' # <<>>
    <3>1. Len(intents') \in Nat \ {0}
      BY <1>3, <2>2, EmptySeq
    <3>2. intents'[Len(intents')] = intents[Len(intents)]
      BY <1>3, <3>1
    <3> QED
      BY <1>2, <2>2, <3>2 DEF LastIntent
  <2> QED
    BY <2>1, <2>2
<1>8. ServiceInv'
  BY <1>1, <1>2, <1>7 DEF ServiceInv, Pending
<1>9. ResultsInv'
  BY <1>1, <1>2 DEF ResultsInv
<1> QED
  BY <1>5, <1>6, <1>8, <1>9 DEF EngineInv

(* isInstalled is a call on the main thread and nothing else. *)
LEMMA MainCallStep ==
  ASSUME RunnerInv, EngineInv, IsInstalled \/ IsInstalledReturns
  PROVE  EngineInv'
<1>1. UNCHANGED engineVars
  BY DEF IsInstalled, IsInstalledReturns
<1>2. run'["worker"] = run["worker"]
  BY CallersAre DEF RunnerInv, IsInstalled, IsInstalledReturns, RunDpkg, OpenPipe, FailCall
<1> QED
  BY <1>1, <1>2, EngineUnmoved

(* The steps of the engine that touch a call begin it or forget it. *)
LEMMA EngineCalls ==
  ASSUME RunnerInv, Take \/ Post \/ IsInstalled \/ IsInstalledReturns
  PROVE  RunnerInv'
<1>1. "worker" \in Caller /\ "main" \in Caller
  BY CallersAre
<1>2. CASE Take
  BY <1>1, <1>2, PipeStep DEF Take, RunApt
<1>3. CASE IsInstalled
  BY <1>1, <1>3, PipeStep DEF IsInstalled, RunDpkg
<1>4. ASSUME NEW c \in Caller, run' = [run EXCEPT ![c] = NoCall], UNCHANGED shell
      PROVE  RunnerInv'
  <2>1. CallInv(c, NoCall) /\ Shell \notin NoCall.holders
    BY FreshCalls DEF NoCall
  <2> QED
    BY <1>4, <2>1, OneCall
<1> QED
  BY <1>1, <1>2, <1>3, <1>4 DEF Post, IsInstalledReturns

-----------------------------------------------------------------------------
LEMMA InitInv ==
  Init => RunnerInv /\ EngineInv
<1> SUFFICES ASSUME Init PROVE RunnerInv /\ EngineInv
  OBVIOUS
<1>1. run = [c \in Caller |-> NoCall] /\ shell = FALSE
  BY DEF Init, RunnerInit
<1>2. /\ submitted = <<>> /\ queue = <<>> /\ job = 0 /\ posts = <<>> /\ intents = <<>>
      /\ foreground = FALSE /\ answered = 0
  BY DEF Init
<1>3. RunnerInv
  <2>1. \A c \in Caller : CallInv(c, run[c]) /\ run[c].holders = {}
    BY <1>1, FreshCalls DEF NoCall
  <2> QED
    BY <1>1, <2>1 DEF RunnerInv, CallInv
<1>4. /\ Len(<<>>) = 0 /\ <<>> \in Seq(Op) /\ <<>> \in Seq(Nat)
      /\ <<>> \in Seq(PostRecord) /\ <<>> \in Seq(Intent)
  BY EmptySeq
<1>5. InHand = 0 /\ run["worker"].phase = "idle"
  BY <1>1, <1>2, CallersAre DEF InHand, NoCall
<1>6. EngineTypes
  <2>1. MaxOps \in Nat /\ Len(submitted) = 0
    BY <1>2, <1>4, EngineAssumption
  <2>2. Len(submitted) <= MaxOps
    BY <2>1
  <2> QED
    BY <1>2, <1>4, <2>2, Zenon DEF EngineTypes
<1>7. OrderInv
  BY <1>2, <1>4, <1>5 DEF OrderInv
<1>8. ServiceInv /\ ResultsInv
  BY <1>2, <1>4 DEF ServiceInv, LastIntent, ResultsInv
<1> QED
  BY <1>3, <1>6, <1>7, <1>8 DEF EngineInv

LEMMA StepInv ==
  RunnerInv /\ EngineInv /\ [Next]_vars => (RunnerInv /\ EngineInv)'
<1> SUFFICES ASSUME RunnerInv, EngineInv, [Next]_vars
             PROVE  RunnerInv' /\ EngineInv'
  OBVIOUS
<1>1. ASSUME NEW op \in Op, Submit(op)
      PROVE  RunnerInv' /\ EngineInv'
  BY <1>1, SubmitStep DEF Submit, runnerVars, RunnerInv
<1>2. CASE Take
  BY <1>2, TakeStep, EngineCalls
<1>3. CASE Post
  BY <1>3, PostStep, EngineCalls
<1>4. CASE Finish
  BY <1>4, FinishStep DEF Finish, runnerVars, RunnerInv
<1>5. CASE Deliver
  BY <1>5, DeliverStep DEF Deliver, runnerVars, RunnerInv
<1>6. CASE OnStartCommand
  BY <1>6, IntentStep DEF OnStartCommand, runnerVars, RunnerInv
<1>7. CASE IsInstalled \/ IsInstalledReturns
  BY <1>7, MainCallStep, EngineCalls
<1>8. CASE ((\E c \in Caller : CallStep(c)) \/ ForkShell \/ ShellEnds) /\ UNCHANGED engineVars
  <2>1. RunnerInv'
    BY <1>8, CallsStep, ShellStep
  <2> QED
    BY <1>8, <2>1, CallersAre, CallsKeepText, EngineUnmoved
<1>9. CASE UNCHANGED vars
  <2>1. run' = run /\ shell' = shell /\ UNCHANGED engineVars
    BY <1>9 DEF vars, runnerVars
  <2>2. RunnerInv'
    BY <2>1 DEF RunnerInv
  <2> QED
    BY <2>1, <2>2, EngineUnmoved
<1> QED
  BY <1>1, <1>2, <1>3, <1>4, <1>5, <1>6, <1>7, <1>8, <1>9 DEF Next, Worker, Main

LEMMA Invariant ==
  Spec => [](RunnerInv /\ EngineInv)
BY InitInv, StepInv, PTL DEF Spec

(* Calls and engine keep their types and their bounds: a buffer of          *)
(* process_run always has room for the terminating zero, and no number in  *)
(* the executor's queue is one that was never submitted.                   *)
THEOREM EngineTypeCorrect == Spec => []EngineTypeOK
BY Invariant, InvGivesProperties, PTL

(* The foreground service does not outlive the work, for every mix of       *)
(* overlapping operations.                                                 *)
THEOREM ServiceDoesNotLinger == Spec => []ServiceEndsWithWork
BY Invariant, InvGivesProperties, PTL

(* Every result is that of its own operation, in the order of the calls,    *)
(* for every output, size of read and size of buffer.                      *)
THEOREM ResultsBelong == Spec => []ResultsAreTheirOwn
BY Invariant, InvGivesProperties, PTL
=============================================================================
