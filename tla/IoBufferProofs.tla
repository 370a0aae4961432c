--------------------------- MODULE IoBufferProofs ---------------------------
(* The ring buffer for every capacity and every wrap of the counters: its   *)
(* invariants, and that it implements the queue of ByteQueue.  The modular *)
(* arithmetic is in the lemmas of the first part; what follows speaks of   *)
(* offsets from the tail only.                                             *)
EXTENDS IoBuffer, SequenceTheorems, TLAPS

Counter == 0 .. Modulus - 1
Offset  == 0 .. Capacity - 1

LEMMA Sizes ==
  /\ Capacity \in Nat \ {0} /\ Modulus \in Nat /\ Capacity < Modulus
  /\ (Modulus % Capacity) = 0
BY SizeAssumption

LEMMA DivideBy ==
  ASSUME NEW n \in Nat \ {0}, NEW x \in Int
  PROVE  \E k \in Int : x = k * n + (x % n) /\ x % n \in 0 .. n - 1
<1>1. x \div n \in Int /\ x = (x \div n) * n + (x % n) /\ x % n \in 0 .. n - 1
  OBVIOUS
<1> QED
  BY <1>1

LEMMA RemainderIs ==
  ASSUME NEW n \in Nat \ {0}, NEW k \in Int, NEW r \in 0 .. n - 1
  PROVE  (k * n + r) % n = r
OBVIOUS

LEMMA Distribute ==
  ASSUME NEW n \in Int, NEW a \in Int, NEW b \in Int
  PROVE  (a + b) * n = a * n + b * n /\ (a - b) * n = a * n - b * n
OBVIOUS

-----------------------------------------------------------------------------
(* Counters.  Sums and differences wrap around once at most. *)
LEMMA PlusIs ==
  ASSUME NEW a \in Counter, NEW n \in Counter
  PROVE  Plus(a, n) = IF a + n < Modulus THEN a + n ELSE a + n - Modulus
BY Sizes DEF Plus, Counter

LEMMA MinusIs ==
  ASSUME NEW a \in Counter, NEW b \in Counter
  PROVE  Minus(a, b) = IF a >= b THEN a - b ELSE a - b + Modulus
BY Sizes DEF Minus, Counter

LEMMA CounterTypes ==
  ASSUME NEW a \in Counter, NEW b \in Counter
  PROVE  Plus(a, b) \in Counter /\ Minus(a, b) \in Counter /\ Minus(a, a) = 0
<1>1. Plus(a, b) = IF a + b < Modulus THEN a + b ELSE a + b - Modulus
  BY PlusIs
<1>2. Minus(a, b) = IF a >= b THEN a - b ELSE a - b + Modulus
  BY MinusIs
<1>3. Minus(a, a) = IF a >= a THEN a - a ELSE a - a + Modulus
  BY MinusIs
<1> QED
  BY <1>1, <1>2, <1>3, Sizes DEF Counter

(* The head advances by n. *)
LEMMA MinusOfPlus ==
  ASSUME NEW h \in Counter, NEW t \in Counter, NEW n \in Counter,
         Minus(h, t) + n < Modulus
  PROVE  Minus(Plus(h, n), t) = Minus(h, t) + n
<1>1. Plus(h, n) \in Counter
  BY CounterTypes
<1>2. Plus(h, n) = IF h + n < Modulus THEN h + n ELSE h + n - Modulus
  BY PlusIs
<1>3. Minus(h, t) = IF h >= t THEN h - t ELSE h - t + Modulus
  BY MinusIs
<1>4. Minus(Plus(h, n), t) = IF Plus(h, n) >= t THEN Plus(h, n) - t
                             ELSE Plus(h, n) - t + Modulus
  BY <1>1, MinusIs
<1> QED
  BY <1>2, <1>3, <1>4, Sizes DEF Counter

(* The tail catches up with r, which lies between the two. *)
LEMMA MinusBetween ==
  ASSUME NEW h \in Counter, NEW t \in Counter, NEW r \in Counter,
         Minus(r, t) <= Minus(h, t)
  PROVE  Minus(h, r) = Minus(h, t) - Minus(r, t)
BY MinusIs, Sizes DEF Counter

LEMMA PlusOfMinus ==
  ASSUME NEW h \in Counter, NEW t \in Counter
  PROVE  Plus(t, Minus(h, t)) = h
<1>1. Minus(h, t) = IF h >= t THEN h - t ELSE h - t + Modulus
  BY MinusIs
<1>2. Plus(t, Minus(h, t)) = IF t + Minus(h, t) < Modulus THEN t + Minus(h, t)
                             ELSE t + Minus(h, t) - Modulus
  BY CounterTypes, PlusIs
<1> QED
  BY <1>1, <1>2, Sizes DEF Counter

LEMMA MinusOfTail ==
  ASSUME NEW t \in Counter, NEW n \in Counter
  PROVE  Minus(Plus(t, n), t) = n
<1>1. Minus(t, t) = 0
  BY CounterTypes
<1> QED
  BY <1>1, MinusOfPlus, Sizes DEF Counter

-----------------------------------------------------------------------------
(* Slots.  The two halves of a copy are the slots of successive counters:   *)
(* Modulus is a multiple of Capacity, so the slots go on at the wrap.      *)
LEMMA PlaceIsSlot ==
  ASSUME NEW c \in Counter, NEW n \in Offset
  PROVE  Place(c, n) = SlotOf(Plus(c, n)) /\ Place(c, n) \in Offset
<1> DEFINE s == SlotOf(c)
<1>1. Capacity \in Nat \ {0} /\ c \in Int /\ Modulus \in Int /\ n \in Int /\ n \in Counter
  BY Sizes DEF Counter, Offset
<1>2. PICK q \in Int : Modulus = q * Capacity
  <2>1. PICK q \in Int : Modulus = q * Capacity + (Modulus % Capacity)
    BY <1>1, DivideBy
  <2>2. q * Capacity \in Int
    BY <1>1
  <2> QED
    BY <2>1, <2>2, Sizes
<1>3. PICK k \in Int : c = k * Capacity + s /\ s \in 0 .. Capacity - 1
  <2>1. PICK k \in Int : c = k * Capacity + (c % Capacity) /\ c % Capacity \in 0 .. Capacity - 1
    BY <1>1, DivideBy
  <2> QED
    BY <2>1 DEF SlotOf
<1>4. /\ Place(c, n) = IF s + n < Capacity THEN s + n ELSE s + n - Capacity
      /\ Place(c, n) \in 0 .. Capacity - 1
  BY <1>1, <1>3 DEF Place, Offset
<1> HIDE DEF s
<1>5. PICK j \in {k, k + 1} : c + n = j * Capacity + Place(c, n)
  <2>1. (k + 1) * Capacity = k * Capacity + Capacity
    BY <1>1, Distribute
  <2> QED
    BY <1>1, <1>3, <1>4, <2>1
<1>6. c + n - Modulus = (j - q) * Capacity + Place(c, n)
  <2>1. (j - q) * Capacity = j * Capacity - q * Capacity
    BY <1>1, Distribute
  <2> QED
    BY <1>1, <1>2, <1>4, <1>5, <2>1
<1>7. PICK m \in Int : Plus(c, n) = m * Capacity + Place(c, n)
  <2>1. Plus(c, n) = c + n \/ Plus(c, n) = c + n - Modulus
    BY <1>1, PlusIs
  <2>2. j \in Int /\ j - q \in Int
    OBVIOUS
  <2> QED
    BY <1>5, <1>6, <2>1, <2>2
<1> QED
  BY <1>1, <1>4, <1>7, RemainderIs DEF SlotOf, Offset

(* A copy that starts n bytes further on. *)
LEMMA PlaceShift ==
  ASSUME NEW t \in Counter, NEW n \in Nat, NEW j \in Nat, n + j < Capacity
  PROVE  Place(Plus(t, n), j) = Place(t, n + j)
<1>1. n \in Counter /\ j \in Counter /\ n + j \in Counter /\ j \in Offset /\ n + j \in Offset
  BY Sizes DEF Counter, Offset
<1>2. Plus(t, n) \in Counter
  BY <1>1, CounterTypes
<1>3. Plus(Plus(t, n), j) = Plus(t, n + j)
  BY <1>1, <1>2, PlusIs, Sizes DEF Counter
<1>4. Place(Plus(t, n), j) = SlotOf(Plus(Plus(t, n), j))
  BY <1>1, <1>2, PlaceIsSlot
<1>5. Place(t, n + j) = SlotOf(Plus(t, n + j))
  BY <1>1, PlaceIsSlot
<1> QED
  BY <1>3, <1>4, <1>5

(* Within one turn of the ring no slot comes twice. *)
LEMMA PlacesDiffer ==
  ASSUME NEW c \in Counter, NEW i \in Offset, NEW j \in Offset, i # j
  PROVE  Place(c, i) # Place(c, j)
<1>1. SlotOf(c) \in Offset
  BY Sizes DEF SlotOf, Counter, Offset
<1> QED
  BY <1>1, Sizes DEF Place, Offset

(* What lies between a tail and a head: as many bytes as the difference    *)
(* says, each where a copy that starts at the tail finds it.               *)
LEMMA ContentsAre ==
  ASSUME NEW d \in [Offset -> Byte], NEW h \in Counter, NEW t \in Counter,
         Minus(h, t) <= Capacity,
         NEW c, c = [i \in 1 .. Minus(h, t) |-> d[SlotOf(Plus(t, i - 1))]]
  PROVE  /\ c \in Seq(Byte) /\ Len(c) = Minus(h, t)
         /\ \A i \in 1 .. Minus(h, t) : c[i] = d[Place(t, i - 1)]
<1>1. Minus(h, t) \in Nat
  BY CounterTypes DEF Counter
<1>2. ASSUME NEW i \in 1 .. Minus(h, t)
      PROVE  d[SlotOf(Plus(t, i - 1))] = d[Place(t, i - 1)] /\ d[Place(t, i - 1)] \in Byte
  <2>1. i - 1 \in Offset
    BY <1>1, Sizes DEF Offset
  <2> QED
    BY <2>1, PlaceIsSlot
<1>3. c \in [1 .. Minus(h, t) -> Byte]
  BY <1>2
<1>4. c \in Seq(Byte) /\ Len(c) = Minus(h, t)
  BY <1>1, <1>3
<1> QED
  BY <1>2, <1>4

-----------------------------------------------------------------------------
(* The bytes between tail and head. *)
Used == Minus(head, tail)

(* What the producer has copied lies behind the head, and a write is of    *)
(* one byte at least.                                                      *)
Producing ==
    wpc = "copy" =>
        /\ Len(src) > 0
        /\ \A i \in 0 .. written - 1 : data[Place(head, i)] = src[i + 1]

(* What the consumer copies lies before the head, those it has are still   *)
(* in their slots, and the head it saw has not been passed by the tail.    *)
Consuming ==
    /\ rpc \in {"read", "peek"} =>
         /\ want \in 1 .. Used /\ Len(dst) <= want
         /\ \A i \in 0 .. Len(dst) - 1 : dst[i + 1] = data[Place(tail, i)]
    /\ rpc = "clear" => Minus(rhead, tail) <= Used

BufferInv == TypeOK /\ NeverOverfull /\ Producing /\ Consuming

LEMMA InvTypes ==
  ASSUME BufferInv
  PROVE  /\ data \in [Offset -> Byte] /\ head \in Counter /\ tail \in Counter
         /\ rhead \in Counter /\ Used \in 0 .. Capacity
         /\ src \in Seq(Byte) /\ Len(src) \in 0 .. Capacity - Used
         /\ dst \in Seq(Byte) /\ Len(dst) \in Nat /\ written \in 0 .. Len(src)
<1>1. head \in Counter /\ tail \in Counter
  BY DEF BufferInv, TypeOK, Counter
<1>2. Used \in Nat
  BY <1>1, CounterTypes, Sizes DEF Used, Counter
<1>3. Len(src) \in Nat /\ Len(dst) \in Nat
  BY LenProperties DEF BufferInv, TypeOK
<1>4. Used + Len(src) <= Capacity
  BY DEF BufferInv, NeverOverfull, Used
<1>5. Used \in 0 .. Capacity /\ Len(src) \in 0 .. Capacity - Used
  BY <1>2, <1>3, <1>4, Sizes
<1> QED
  BY <1>1, <1>3, <1>5 DEF BufferInv, TypeOK, Counter, Offset

(* Byte j of the copy into the buffer, seen from the tail. *)
LEMMA WritePlace ==
  ASSUME BufferInv, NEW j \in 0 .. Len(src) - 1
  PROVE  /\ Used + j \in Offset /\ j \in Offset
         /\ Place(head, j) = Place(tail, Used + j) /\ Place(head, j) \in Offset
<1> USE InvTypes, Sizes
<1>1. Used + j \in Offset /\ j \in Offset /\ Used + j < Capacity /\ Used \in Nat /\ j \in Nat
  BY DEF Offset
<1>2. Plus(tail, Used) = head
  BY PlusOfMinus DEF Used
<1>3. Place(Plus(tail, Used), j) = Place(tail, Used + j)
  BY <1>1, PlaceShift
<1> QED
  BY <1>1, <1>2, <1>3, PlaceIsSlot

(* A copy into the buffer meets none of the published bytes. *)
LEMMA CopiesApart ==
  ASSUME BufferInv, NEW j \in 0 .. Len(src) - 1, NEW i \in 0 .. Used - 1
  PROVE  i \in Offset /\ Place(head, j) # Place(tail, i) /\ Place(tail, i) \in Offset
<1>1. i \in Offset /\ Used + j \in Offset /\ i # Used + j
  BY WritePlace, InvTypes, Sizes, SMTT(30) DEF Offset
<1>2. Place(tail, i) # Place(tail, Used + j)
  BY <1>1, InvTypes, PlacesDiffer
<1> QED
  BY <1>1, <1>2, WritePlace, InvTypes, PlaceIsSlot

-----------------------------------------------------------------------------
LEMMA InitBuffer == Init => BufferInv
<1> SUFFICES ASSUME Init
             PROVE  BufferInv
  OBVIOUS
<1> USE Sizes DEF Init
<1>1. Minus(0, 0) = 0
  BY CounterTypes DEF Counter
<1>2. TypeOK
  BY DEF TypeOK
<1>3. NeverOverfull
  BY <1>1 DEF NeverOverfull
<1> QED
  BY <1>2, <1>3 DEF BufferInv, Producing, Consuming

LEMMA WriteBeginKeeps ==
  ASSUME BufferInv, NEW n \in 1 .. MaxLen, NEW bytes \in [1 .. n -> Byte], WriteBegin(bytes)
  PROVE  BufferInv'
<1> DEFINE len == Clamp(Len(bytes), FreeSpace)
<1> USE InvTypes, Sizes
<1>1. bytes \in Seq(Byte) /\ Len(bytes) = n /\ n \in Nat
  BY MaxLenAssumption
<1>2. len \in 1 .. n /\ len <= Capacity - Used
  BY <1>1 DEF WriteBegin, Clamp, FreeSpace, Used
<1>3. /\ src' = SubSeq(bytes, 1, len) /\ wpc' = "copy" /\ written' = 0
      /\ UNCHANGED <<data, head, tail, rpc, rhead, want, dst, got>>
  BY DEF WriteBegin, bufVars, consVars
<1> HIDE DEF len
<1>4. src' \in Seq(Byte) /\ Len(src') = len
  BY <1>1, <1>2, <1>3, SubSeqProperties
<1>5. TypeOK'
  BY <1>2, <1>3, <1>4 DEF BufferInv, TypeOK
<1>6. NeverOverfull'
  BY <1>2, <1>3, <1>4 DEF NeverOverfull, Used
<1>7. Producing' /\ Consuming'
  BY <1>2, <1>3, <1>4 DEF BufferInv, Producing, Consuming, Used
<1> QED
  BY <1>5, <1>6, <1>7 DEF BufferInv

(* A byte is stored: neither the bytes stored before it nor those that the  *)
(* consumer may be copying are touched.                                    *)
LEMMA WriteByteKeeps ==
  ASSUME BufferInv, WriteByte
  PROVE  BufferInv' /\ \A i \in 0 .. Used - 1 : data'[Place(tail, i)] = data[Place(tail, i)]
<1> USE InvTypes, Sizes
<1>1. /\ written \in 0 .. Len(src) - 1 /\ written' = written + 1
      /\ data' = [data EXCEPT ![Place(head, written)] = src[written + 1]]
      /\ UNCHANGED <<head, tail, wpc, src, rpc, rhead, want, dst, got>>
  BY DEF WriteByte, consVars
<1>2. src[written + 1] \in Byte
  BY <1>1, ElementOfSeq
<1>3. Place(head, written) \in Offset
  BY <1>1, WritePlace
<1>4. TypeOK'
  BY <1>1, <1>2, <1>3 DEF BufferInv, TypeOK, Offset
<1>5. \A i \in 0 .. Used - 1 : data'[Place(tail, i)] = data[Place(tail, i)]
  BY <1>1, CopiesApart
<1>6. ASSUME NEW i \in 0 .. written' - 1
      PROVE  data'[Place(head, i)] = src[i + 1]
  <2>1. CASE i = written
    BY <1>1, <1>3, <2>1
  <2>2. CASE i # written
    <3>1. i \in 0 .. written - 1 /\ i \in 0 .. Len(src) - 1
      BY <1>1, <2>2
    <3>2. i \in Offset /\ written \in Offset
      BY <1>1, <3>1, WritePlace
    <3>3. Place(head, i) # Place(head, written) /\ Place(head, i) \in Offset
      BY <2>2, <3>2, PlacesDiffer, PlaceIsSlot
    <3>4. wpc = "copy"
      BY DEF WriteByte
    <3> QED
      BY <1>1, <3>1, <3>3, <3>4 DEF BufferInv, Producing
  <2> QED
    BY <2>1, <2>2
<1>7. Producing'
  BY <1>1, <1>6 DEF BufferInv, Producing
<1>8. Consuming'
  BY <1>1, <1>5 DEF BufferInv, Consuming, Used
<1>9. NeverOverfull'
  BY <1>1 DEF BufferInv, NeverOverfull
<1> QED
  BY <1>4, <1>5, <1>7, <1>8, <1>9 DEF BufferInv

(* The store of head publishes what was written. *)
LEMMA WriteEndKeeps ==
  ASSUME BufferInv, WriteEnd
  PROVE  BufferInv' /\ Used' = Used + Len(src)
<1> USE InvTypes, Sizes
<1>1. /\ head' = Plus(head, Len(src)) /\ src' = <<>> /\ written' = 0 /\ wpc' = "idle"
      /\ UNCHANGED <<data, tail, rpc, rhead, want, dst, got>>
  BY DEF WriteEnd, consVars
<1>2. Len(src) \in Counter /\ head' \in Counter
  <2>1. Len(src) \in Counter
    BY DEF Counter
  <2> QED
    BY <1>1, <2>1, CounterTypes
<1>3. Used' = Used + Len(src)
  BY <1>1, <1>2, MinusOfPlus DEF Used
<1>4. src' \in Seq(Byte) /\ Len(src') = 0
  BY <1>1, EmptySeq
<1>5. TypeOK'
  BY <1>1, <1>2, <1>4 DEF BufferInv, TypeOK, Counter
<1>6. NeverOverfull'
  BY <1>3, <1>4 DEF NeverOverfull, Used
<1>7. Producing'
  BY <1>1 DEF Producing
<1>8. Consuming'
  <2>0. Minus(rhead, tail) \in Counter
    BY CounterTypes
  <2>1. Minus(rhead, tail) \in Nat /\ Used \in Nat /\ Used <= Used'
    BY <1>3, <2>0 DEF Counter
  <2>2. 1 .. Used \subseteq 1 .. Used'
    BY <1>3
  <2>3. rpc = "clear" => Minus(rhead, tail) <= Used'
    BY <1>3, <2>1 DEF BufferInv, Consuming
  <2> QED
    BY <1>1, <2>2, <2>3 DEF BufferInv, Consuming
<1> QED
  BY <1>8, <1>3, <1>5, <1>6, <1>7 DEF BufferInv

-----------------------------------------------------------------------------
LEMMA ReadBeginKeeps ==
  ASSUME BufferInv, NEW op \in {"read", "peek"}, NEW n \in 1 .. MaxLen, ReadBegin(op, n)
  PROVE  BufferInv'
<1> USE InvTypes, Sizes, MaxLenAssumption
<1>1. /\ want' \in 1 .. Used /\ rpc' = op /\ rhead' = head /\ dst' = <<>>
      /\ UNCHANGED <<data, head, tail, wpc, src, written, got>>
  BY DEF ReadBegin, Clamp, Available, Used, bufVars, prodVars
<1>2. dst' \in Seq(Byte) /\ Len(dst') = 0
  BY <1>1, EmptySeq
<1>3. TypeOK'
  BY <1>1, <1>2, SMTT(30) DEF BufferInv, TypeOK
<1> QED
  BY <1>1, <1>2, <1>3 DEF BufferInv, NeverOverfull, Producing, Consuming, Used

LEMMA ReadByteKeeps ==
  ASSUME BufferInv, ReadByte
  PROVE  BufferInv'
<1> USE InvTypes, Sizes
<1> DEFINE n == Len(dst)
<1>1. /\ rpc \in {"read", "peek"} /\ n < want /\ want \in 1 .. Used
      /\ dst' = Append(dst, data[Place(tail, n)])
      /\ \A i \in 0 .. n - 1 : dst[i + 1] = data[Place(tail, i)]
      /\ UNCHANGED <<data, head, tail, wpc, src, written, rpc, rhead, want, got>>
  BY DEF ReadByte, bufVars, prodVars, BufferInv, Consuming
<1>2. n \in Offset
  BY <1>1 DEF Offset
<1>3. data[Place(tail, n)] \in Byte
  BY <1>2, PlaceIsSlot
<1>4. /\ dst' \in Seq(Byte) /\ Len(dst') = n + 1 /\ dst'[n + 1] = data[Place(tail, n)]
      /\ \A i \in 1 .. n : dst'[i] = dst[i]
  BY <1>1, <1>3, AppendProperties
<1>5. TypeOK'
  BY <1>1, <1>4 DEF BufferInv, TypeOK
<1>6. \A i \in 0 .. Len(dst') - 1 : dst'[i + 1] = data[Place(tail, i)]
  BY <1>1, <1>4
<1>7. Consuming'
  BY <1>1, <1>4, <1>6 DEF Consuming, Used
<1> QED
  BY <1>1, <1>5, <1>7 DEF BufferInv, NeverOverfull, Producing

(* The store of tail gives room for the n oldest bytes.                    *)
LEMMA TailMoves ==
  ASSUME BufferInv, NEW n \in 0 .. Used, tail' = Plus(tail, n), head' = head
  PROVE  tail' \in Counter /\ Used' = Used - n
<1> USE InvTypes, Sizes
<1>1. n \in Counter
  BY DEF Counter
<1>2. Minus(Plus(tail, n), tail) = n /\ Plus(tail, n) \in Counter
  BY <1>1, MinusOfTail, CounterTypes
<1>3. Minus(head, Plus(tail, n)) = Minus(head, tail) - n
  BY <1>2, MinusBetween DEF Used
<1> QED
  BY <1>2, <1>3 DEF Used

LEMMA ReadEndKeeps ==
  ASSUME BufferInv, ReadEnd
  PROVE  BufferInv'
<1> USE InvTypes, Sizes
<1>1. /\ want \in 1 .. Used /\ tail' = Plus(tail, want) /\ got' = dst
      /\ rpc' = "idle" /\ rhead' = 0 /\ want' = 0 /\ dst' = <<>>
      /\ UNCHANGED <<data, head, wpc, src, written>>
  BY DEF ReadEnd, prodVars, BufferInv, Consuming
<1>2. want \in 0 .. Used
  BY <1>1
<1>3. tail' \in Counter /\ Used' = Used - want
  BY <1>1, <1>2, TailMoves
<1>4. dst' \in Seq(Byte)
  BY <1>1, EmptySeq
<1>5. TypeOK'
  BY <1>1, <1>3, <1>4 DEF BufferInv, TypeOK, Counter
<1>6. NeverOverfull'
  BY <1>1, <1>3 DEF NeverOverfull, Used
<1> QED
  BY <1>1, <1>5, <1>6 DEF BufferInv, Producing, Consuming

LEMMA PeekEndKeeps ==
  ASSUME BufferInv, PeekEnd
  PROVE  BufferInv'
<1> USE InvTypes, Sizes
<1>1. /\ got' = dst /\ rpc' = "idle" /\ rhead' = 0 /\ want' = 0 /\ dst' = <<>>
      /\ UNCHANGED <<data, head, tail, wpc, src, written>>
  BY DEF PeekEnd, bufVars, prodVars
<1>2. dst' \in Seq(Byte)
  BY <1>1, EmptySeq
<1>3. TypeOK'
  BY <1>1, <1>2 DEF BufferInv, TypeOK
<1> QED
  BY <1>1, <1>3 DEF BufferInv, NeverOverfull, Producing, Consuming

LEMMA ClearBeginKeeps ==
  ASSUME BufferInv, ClearBegin
  PROVE  BufferInv'
<1> USE InvTypes, Sizes
<1>1. /\ rpc' = "clear" /\ rhead' = head
      /\ UNCHANGED <<data, head, tail, wpc, src, written, want, dst, got>>
  BY DEF ClearBegin, bufVars, prodVars
<1>2. TypeOK'
  BY <1>1 DEF BufferInv, TypeOK
<1>3. Consuming'
  BY <1>1 DEF Consuming, Used
<1> QED
  BY <1>1, <1>2, <1>3 DEF BufferInv, NeverOverfull, Producing

(* What was published when clear read the head is dropped; what has been   *)
(* published since stays.                                                  *)
LEMMA ClearEndKeeps ==
  ASSUME BufferInv, ClearEnd
  PROVE  /\ BufferInv'
         /\ Minus(rhead, tail) \in 0 .. Used /\ tail' = Plus(tail, Minus(rhead, tail))
         /\ Used' = Used - Minus(rhead, tail)
<1> USE InvTypes, Sizes
<1>1. /\ tail' = rhead /\ rpc' = "idle" /\ rhead' = 0
      /\ UNCHANGED <<data, head, wpc, src, written, want, dst, got>>
  BY DEF ClearEnd, prodVars
<1>2. Minus(rhead, tail) \in Counter /\ Minus(rhead, tail) <= Used
  BY CounterTypes DEF ClearEnd, BufferInv, Consuming
<1>3. Minus(rhead, tail) \in 0 .. Used
  BY <1>2 DEF Counter
<1>4. tail' = Plus(tail, Minus(rhead, tail))
  BY <1>1, PlusOfMinus
<1>5. Used' = Used - Minus(rhead, tail)
  BY <1>1, <1>3, <1>4, TailMoves
<1>6. TypeOK'
  BY <1>1 DEF BufferInv, TypeOK, Counter
<1>7. NeverOverfull'
  BY <1>1, <1>3, <1>5 DEF NeverOverfull, Used
<1>8. Producing' /\ Consuming'
  BY <1>1 DEF BufferInv, Producing, Consuming
<1> QED
  BY <1>3, <1>4, <1>5, <1>6, <1>7, <1>8 DEF BufferInv

-----------------------------------------------------------------------------
LEMMA StepBuffer == BufferInv /\ [Next]_vars => BufferInv'
<1> SUFFICES ASSUME BufferInv, [Next]_vars
             PROVE  BufferInv'
  OBVIOUS
<1>1. CASE UNCHANGED vars
  BY <1>1 DEF vars, bufVars, prodVars, consVars, BufferInv, TypeOK, NeverOverfull,
              Producing, Consuming, Used
<1>2. CASE Next
  BY <1>2, WriteBeginKeeps, WriteByteKeeps, WriteEndKeeps, ReadBeginKeeps, ReadByteKeeps,
     ReadEndKeeps, PeekEndKeeps, ClearBeginKeeps, ClearEndKeeps
     DEF Next
<1> QED
  BY <1>1, <1>2

(* The strengthening: what each side has copied so far and has yet to copy  *)
(* lies on its own side of the head.                                       *)
THEOREM BufferInvariant == Spec => []BufferInv
<1> QED
  BY InitBuffer, StepBuffer, PTL DEF Spec

(* Counters, slots and copies keep their types, for every capacity and     *)
(* every width of the counters.                                            *)
THEOREM BufferTypeCorrect == Spec => []TypeOK
<1>1. BufferInv => TypeOK
  BY DEF BufferInv
<1> QED
  BY <1>1, BufferInvariant, PTL

(* The bytes held and those being written never exceed the capacity,       *)
(* however often the counters have wrapped around.                         *)
THEOREM BufferNeverOverfull == Spec => []NeverOverfull
<1>1. BufferInv => NeverOverfull
  BY DEF BufferInv
<1> QED
  BY <1>1, BufferInvariant, PTL

(* Producer and consumer never touch the same slot: the copies outside any  *)
(* lock are free of races.                                                 *)
THEOREM BufferHasNoRace == Spec => []NoRace
<1>1. ASSUME BufferInv
      PROVE  NoRace
  <2>1. ASSUME NEW j \in 0 .. Len(src) - 1, NEW i \in 0 .. want - 1,
               rpc \in {"read", "peek"}
        PROVE  Place(head, j) # Place(tail, i)
    <3>1. i \in 0 .. Used - 1
      BY <1>1, <2>1, InvTypes DEF BufferInv, Consuming
    <3> QED
      BY <1>1, <3>1, CopiesApart
  <2> QED
    BY <2>1 DEF NoRace
<1> QED
  BY <1>1, BufferInvariant, PTL

-----------------------------------------------------------------------------
(* The refinement. *)
LEMMA QueueNow ==
  ASSUME BufferInv
  PROVE  /\ Contents \in Seq(Byte) /\ Len(Contents) = Used
         /\ \A i \in 1 .. Used : Contents[i] = data[Place(tail, i - 1)]
BY InvTypes, ContentsAre DEF Contents, Used

LEMMA QueueNext ==
  ASSUME BufferInv'
  PROVE  /\ Contents' \in Seq(Byte) /\ Len(Contents') = Used'
         /\ \A i \in 1 .. Used' : Contents'[i] = data'[Place(tail', i - 1)]
<1>1. data' \in [Offset -> Byte] /\ head' \in Counter /\ tail' \in Counter /\ src' \in Seq(Byte)
  BY DEF BufferInv, TypeOK, Offset, Counter
<1>2. Len(src') \in Nat /\ Minus(head', tail') \in Counter
  BY <1>1, LenProperties, CounterTypes
<1>3. Minus(head', tail') <= Capacity
  BY <1>2, Sizes DEF BufferInv, NeverOverfull, Counter
<1> QED
  BY <1>1, <1>3, ContentsAre DEF Contents, Used

(* The store of tail drops the n oldest bytes. *)
LEMMA OldestDropped ==
  ASSUME BufferInv, BufferInv', NEW n \in 0 .. Used,
         data' = data, tail' = Plus(tail, n), Used' = Used - n
  PROVE  Contents' = SubSeq(Contents, n + 1, Len(Contents))
<1> DEFINE rest == SubSeq(Contents, n + 1, Len(Contents))
<1> USE InvTypes, Sizes
<1>1. /\ rest \in Seq(Byte) /\ Len(rest) = Used'
      /\ \A i \in 1 .. Used' : rest[i] = Contents[n + i]
  BY QueueNow, SubSeqProperties
<1>2. ASSUME NEW i \in 1 .. Used'
      PROVE  Contents'[i] = rest[i]
  <2>1. n + (i - 1) < Capacity /\ n \in Nat /\ i - 1 \in Nat /\ n + i \in 1 .. Used
    OBVIOUS
  <2>2. Place(tail', i - 1) = Place(tail, n + (i - 1))
    BY <2>1, PlaceShift
  <2>3. Contents'[i] = data[Place(tail, n + i - 1)]
    BY <2>1, <2>2, QueueNext
  <2> QED
    BY <1>1, <2>1, <2>3, QueueNow, SMTT(30)
<1> HIDE DEF rest
<1>3. Contents' = rest
  BY <1>1, <1>2, QueueNext, SeqEqual
<1> QED
  BY <1>3 DEF rest

(* A read that has all it wants holds the oldest bytes. *)
LEMMA CopyIsPrefix ==
  ASSUME BufferInv, rpc \in {"read", "peek"}, Len(dst) = want
  PROVE  want \in 1 .. Len(Contents) /\ dst = SubSeq(Contents, 1, want)
<1> USE InvTypes, Sizes
<1>1. want \in 1 .. Used /\ \A i \in 0 .. want - 1 : dst[i + 1] = data[Place(tail, i)]
  BY DEF BufferInv, Consuming
<1>2. /\ SubSeq(Contents, 1, want) \in Seq(Byte) /\ Len(SubSeq(Contents, 1, want)) = want
      /\ \A i \in 1 .. want : SubSeq(Contents, 1, want)[i] = Contents[i]
  BY <1>1, QueueNow, SubSeqProperties
<1>3. \A i \in 1 .. want : dst[i] = Contents[i]
  BY <1>1, QueueNow
<1> QED
  BY <1>1, <1>2, <1>3, QueueNow, SeqEqual

LEMMA WriteByteStutters ==
  ASSUME BufferInv, WriteByte
  PROVE  UNCHANGED Q!qvars
<1>1. BufferInv' /\ \A i \in 0 .. Used - 1 : data'[Place(tail, i)] = data[Place(tail, i)]
  BY WriteByteKeeps
<1>2. Used' = Used /\ tail' = tail /\ got' = got
  BY DEF WriteByte, consVars, Used
<1>3. \A i \in 1 .. Used : Contents'[i] = Contents[i]
  BY <1>1, <1>2, QueueNow, QueueNext, InvTypes, SMTT(30)
<1>4. Contents' = Contents
  BY <1>1, <1>2, <1>3, QueueNow, QueueNext, SeqEqual
<1> QED
  BY <1>2, <1>4 DEF Q!qvars

LEMMA WriteEndPuts ==
  ASSUME BufferInv, WriteEnd
  PROVE  Q!Next
<1> USE InvTypes, Sizes
<1>1. BufferInv' /\ Used' = Used + Len(src) /\ data' = data /\ tail' = tail /\ got' = got
  BY WriteEndKeeps DEF WriteEnd, consVars
<1>2. \A i \in 0 .. Len(src) - 1 : data[Place(head, i)] = src[i + 1]
  BY DEF WriteEnd, BufferInv, Producing
<1>3. /\ Contents \o src \in Seq(Byte) /\ Len(Contents \o src) = Used'
      /\ \A i \in 1 .. Used' : (Contents \o src)[i] =
              IF i <= Used THEN Contents[i] ELSE src[i - Used]
  <2>1. Contents \in Seq(Byte) /\ Len(Contents) = Used
    BY QueueNow
  <2> HIDE DEF Contents
  <2> QED
    BY <1>1, <2>1, ConcatProperties
<1>4. ASSUME NEW i \in 1 .. Used'
      PROVE  Contents'[i] = (Contents \o src)[i]
  <2>1. Used' \in Nat /\ Used \in Nat /\ i \in Nat /\ i >= 1 /\ i <= Used'
    BY <1>1
  <2>2. CASE i <= Used
    <3>1. Contents[i] = data[Place(tail, i - 1)]
      BY <2>1, <2>2, QueueNow
    <3>2. Contents'[i] = data[Place(tail, i - 1)]
      BY <1>1, QueueNext
    <3> QED
      BY <1>3, <2>2, <3>1, <3>2
  <2>3. CASE i > Used
    <3> DEFINE j == i - Used - 1
    <3>1. j \in 0 .. Len(src) - 1 /\ i - 1 = Used + j /\ i - Used = j + 1
      BY <1>1, <2>3
    <3>2. Place(head, j) = Place(tail, i - 1)
      BY <3>1, WritePlace
    <3>3. Contents'[i] = src[i - Used]
      BY <1>1, <1>2, <3>1, <3>2, QueueNext, ZenonT(40)
    <3> QED
      BY <1>3, <2>3, <3>3
  <2>4. i <= Used \/ i > Used
    BY <2>1
  <2> QED
    BY <2>2, <2>3, <2>4, Zenon
<1>5. Contents' = Contents \o src
  BY <1>1, <1>3, <1>4, QueueNext, SeqEqual
<1>6. Q!Put(src)
  BY <1>1, <1>5, QueueNow DEF Q!Put
<1>7. Len(src) \in 1 .. Capacity /\ src \in [1 .. Len(src) -> Byte]
  BY LenProperties DEF WriteEnd, BufferInv, Producing
<1> QED
  BY <1>6, <1>7 DEF Q!Next

LEMMA ReadEndTakes ==
  ASSUME BufferInv, ReadEnd
  PROVE  Q!Next
<1>1. want \in 1 .. Len(Contents) /\ dst = SubSeq(Contents, 1, want)
  BY CopyIsPrefix DEF ReadEnd
<1>2. BufferInv' /\ got' = dst /\ data' = data /\ tail' = Plus(tail, want) /\ head' = head
  BY ReadEndKeeps DEF ReadEnd
<1>3. want \in 0 .. Used
  BY <1>1, QueueNow, InvTypes
<1>4. Contents' = SubSeq(Contents, want + 1, Len(Contents))
  BY <1>2, <1>3, TailMoves, OldestDropped
<1>5. Q!Take(want)
  BY <1>1, <1>2, <1>4 DEF Q!Take, Q!Prefix, Q!Rest
<1> QED
  BY <1>1, <1>5 DEF Q!Next

LEMMA PeekEndPeeks ==
  ASSUME BufferInv, PeekEnd
  PROVE  Q!Next
<1>1. want \in 1 .. Len(Contents) /\ dst = SubSeq(Contents, 1, want)
  BY CopyIsPrefix DEF PeekEnd
<1>2. got' = dst /\ Contents' = Contents
  BY DEF PeekEnd, bufVars, Contents
<1>3. Q!Peek(want)
  BY <1>1, <1>2 DEF Q!Peek, Q!Prefix
<1> QED
  BY <1>1, <1>3 DEF Q!Next

LEMMA ClearEndDiscards ==
  ASSUME BufferInv, ClearEnd
  PROVE  [Q!Next]_(Q!qvars)
<1> DEFINE n == Minus(rhead, tail)
<1>1. /\ BufferInv' /\ n \in 0 .. Used /\ tail' = Plus(tail, n) /\ Used' = Used - n
      /\ data' = data /\ got' = got
  BY ClearEndKeeps DEF ClearEnd
<1> HIDE DEF n
<1>2. Contents' = SubSeq(Contents, n + 1, Len(Contents))
  BY <1>1, OldestDropped
<1>3. CASE n = 0
  BY <1>1, <1>2, <1>3, QueueNow, SubSeqFull DEF Q!qvars
<1>4. CASE n # 0
  <2>1. n \in 1 .. Len(Contents)
    BY <1>1, <1>4, QueueNow, InvTypes
  <2>2. Q!Discard(n)
    BY <1>1, <1>2 DEF Q!Discard, Q!Rest
  <2> QED
    BY <2>1, <2>2 DEF Q!Next
<1> QED
  BY <1>3, <1>4

LEMMA StepRefines == BufferInv /\ [Next]_vars => [Q!Next]_(Q!qvars)
<1> SUFFICES ASSUME BufferInv, [Next]_vars
             PROVE  [Q!Next]_(Q!qvars)
  OBVIOUS
<1>1. ASSUME UNCHANGED <<data, head, tail, got>>
      PROVE  UNCHANGED Q!qvars
  BY <1>1 DEF Q!qvars, Contents
<1>2. CASE UNCHANGED vars
  BY <1>1, <1>2 DEF vars, bufVars, consVars
<1>3. ASSUME NEW n \in 1 .. MaxLen, NEW bytes \in [1 .. n -> Byte], WriteBegin(bytes)
      PROVE  UNCHANGED Q!qvars
  BY <1>1, <1>3 DEF WriteBegin, bufVars, consVars
<1>4. ASSUME NEW op \in {"read", "peek"}, NEW n \in 1 .. MaxLen, ReadBegin(op, n)
      PROVE  UNCHANGED Q!qvars
  BY <1>1, <1>4 DEF ReadBegin, bufVars
<1>5. CASE ReadByte \/ ClearBegin
  BY <1>1, <1>5 DEF ReadByte, ClearBegin, bufVars
<1> QED
  BY <1>2, <1>3, <1>4, <1>5, WriteByteStutters, WriteEndPuts, ReadEndTakes, PeekEndPeeks,
     ClearEndDiscards
     DEF Next

(* The ring implements the queue of ByteQueue for every capacity, every     *)
(* width of the counters and every length of the calls: a write takes      *)
(* effect with the store of head, a read or a clear with that of tail.     *)
THEOREM BufferImplementsQueue == Spec => ImplementsQueue
<1>1. Init => Q!Init
  <2> SUFFICES ASSUME Init
               PROVE  Contents = <<>> /\ got = <<>>
    BY DEF Q!Init
  <2>1. BufferInv /\ Used = 0
    BY InitBuffer, CounterTypes, Sizes DEF Init, Used, Counter
  <2> QED
    BY <2>1, QueueNow, EmptySeq DEF Init
<1> QED
  BY <1>1, BufferInvariant, StepRefines, PTL DEF Spec, ImplementsQueue, Q!Spec
=============================================================================
