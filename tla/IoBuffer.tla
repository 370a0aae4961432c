------------------------------ MODULE IoBuffer ------------------------------
(***************************************************************************)
(* terminal/io_buffer.c: a ring of Capacity bytes shared by one producer   *)
(* thread, which calls io_buffer_write, and one consumer thread, which     *)
(* calls io_buffer_read, io_buffer_peek and io_buffer_clear.  A call loads *)
(* the other side's counter, copies byte by byte, and stores its own       *)
(* counter, each in a step of its own.  head and tail are size_t counters: *)
(* they are never reduced to an index and wrap around at Modulus.          *)
(***************************************************************************)
EXTENDS Integers, Sequences

CONSTANTS Byte,      \* byte values
          Capacity,  \* the power of two io_buffer_init rounds up to
          Modulus,   \* 2^64, a larger power of two
          MaxLen     \* bound: the length a caller asks for

ASSUME SizeAssumption ==
    /\ Capacity \in Nat \ {0} /\ Modulus \in Nat
    /\ Capacity < Modulus /\ Modulus % Capacity = 0
ASSUME MaxLenAssumption == MaxLen \in Nat \ {0}
ASSUME ByteAssumption == Byte # {}

VARIABLES data, head, tail,  \* the buffer
          wpc, src, written,     \* producer: the bytes it writes, how many it has
          rpc, rhead, want, dst, \* consumer: the head it saw, how many
                                 \* bytes it copies, those it has
          got                    \* what the consumer was given last

bufVars  == <<data, head, tail>>
prodVars == <<wpc, src, written>>
consVars == <<rpc, rhead, want, dst, got>>
vars == <<bufVars, prodVars, consVars>>

(* Mutant: a counter that does not wrap. *)
PlainPlus(a, b) == a + b

(* size_t arithmetic, and counter & mask. *)
Plus(a, b)  == (a + b) % Modulus
Minus(a, b) == (a - b) % Modulus
SlotOf(c)   == c % Capacity

(* Mutant: the second memcpy starts one byte late. *)
PlaceOffByOne(c, i) ==
    LET first == Capacity - SlotOf(c)
    IN  IF i < first THEN SlotOf(c) + i ELSE i - first + 1

(* Where byte i of a copy that starts at counter c lies: the first memcpy   *)
(* reaches to the end of the array, the second starts over.                *)
Place(c, i) ==
    LET first == Capacity - SlotOf(c)
    IN  IF i < first THEN SlotOf(c) + i ELSE i - first

(* Mutants: a length that is not clamped; one slot too many. *)
Unclamped(len, avail) == len
FreeSpacePlusOne == Capacity - Minus(head, tail) + 1

(* if (len > avail) len = avail. *)
Clamp(len, avail) == IF len > avail THEN avail ELSE len

FreeSpace == Capacity - Minus(head, tail)
Available == Minus(head, tail)

Init ==
    /\ data \in [0 .. Capacity - 1 -> Byte]    \* malloc does not clear
    /\ head = 0 /\ tail = 0
    /\ wpc = "idle" /\ src = <<>> /\ written = 0
    /\ rpc = "idle" /\ rhead = 0 /\ want = 0 /\ dst = <<>>
    /\ got = <<>>

-----------------------------------------------------------------------------
(* io_buffer_write. *)
WriteBegin(bytes) ==
    /\ wpc = "idle"
    /\ LET len == Clamp(Len(bytes), FreeSpace)
       IN  /\ len > 0
           /\ src' = SubSeq(bytes, 1, len)
    /\ wpc' = "copy" /\ written' = 0
    /\ UNCHANGED <<bufVars, consVars>>

WriteByte ==
    /\ wpc = "copy" /\ written < Len(src)
    /\ data' = [data EXCEPT ![Place(head, written)] = src[written + 1]]
    /\ written' = written + 1
    /\ UNCHANGED <<head, tail, wpc, src, consVars>>

WriteEnd ==
    /\ wpc = "copy" /\ written = Len(src)
    /\ head' = Plus(head, Len(src))
    /\ wpc' = "idle" /\ src' = <<>> /\ written' = 0
    /\ UNCHANGED <<data, tail, consVars>>

-----------------------------------------------------------------------------
(* io_buffer_read, io_buffer_peek and io_buffer_clear. *)
ReadBegin(op, n) ==
    /\ rpc = "idle"
    /\ want' = Clamp(n, Available)
    /\ want' > 0
    /\ rpc' = op /\ rhead' = head /\ dst' = <<>>
    /\ UNCHANGED <<bufVars, prodVars, got>>

ReadByte ==
    /\ rpc \in {"read", "peek"} /\ Len(dst) < want
    /\ dst' = Append(dst, data[Place(tail, Len(dst))])
    /\ UNCHANGED <<bufVars, prodVars, rpc, rhead, want, got>>

ReadEnd ==
    /\ rpc = "read" /\ Len(dst) = want
    /\ tail' = Plus(tail, want)
    /\ got' = dst
    /\ rpc' = "idle" /\ rhead' = 0 /\ want' = 0 /\ dst' = <<>>
    /\ UNCHANGED <<data, head, prodVars>>

PeekEnd ==
    /\ rpc = "peek" /\ Len(dst) = want
    /\ got' = dst
    /\ rpc' = "idle" /\ rhead' = 0 /\ want' = 0 /\ dst' = <<>>
    /\ UNCHANGED <<bufVars, prodVars>>

ClearBegin ==
    /\ rpc = "idle"
    /\ rpc' = "clear" /\ rhead' = head
    /\ UNCHANGED <<bufVars, prodVars, want, dst, got>>

ClearEnd ==
    /\ rpc = "clear"
    /\ tail' = rhead
    /\ rpc' = "idle" /\ rhead' = 0
    /\ UNCHANGED <<data, head, prodVars, want, dst, got>>

Next ==
    \/ \E n \in 1 .. MaxLen : \E bytes \in [1 .. n -> Byte] : WriteBegin(bytes)
    \/ WriteByte \/ WriteEnd
    \/ \E op \in {"read", "peek"}, n \in 1 .. MaxLen : ReadBegin(op, n)
    \/ ReadByte \/ ReadEnd \/ PeekEnd
    \/ ClearBegin \/ ClearEnd

Spec == Init /\ [][Next]_vars

-----------------------------------------------------------------------------
(* Type invariant. *)
TypeOK ==
    /\ data \in [0 .. Capacity - 1 -> Byte]
    /\ head \in 0 .. Modulus - 1 /\ tail \in 0 .. Modulus - 1
    /\ wpc \in {"idle", "copy"} /\ written \in 0 .. Len(src)
    /\ src \in Seq(Byte) /\ dst \in Seq(Byte) /\ got \in Seq(Byte)
    /\ rpc \in {"idle", "read", "peek", "clear"}
    /\ rhead \in 0 .. Modulus - 1 /\ want \in 0 .. Capacity

(* The bytes in the buffer and those being written never exceed its size,  *)
(* also when the counters have wrapped around.                             *)
NeverOverfull == Minus(head, tail) + Len(src) <= Capacity

(* Producer and consumer never touch a slot at the same time: the copies   *)
(* need no lock.                                                           *)
NoRace ==
    LET writing == IF wpc = "copy" THEN {Place(head, i) : i \in 0 .. Len(src) - 1} ELSE {}
        reading == IF rpc \in {"read", "peek"}
                   THEN {Place(tail, i) : i \in 0 .. want - 1} ELSE {}
    IN  writing \cap reading = {}

(* The published bytes, oldest first. *)
Contents == [i \in 1 .. Minus(head, tail) |-> data[SlotOf(Plus(tail, i - 1))]]

Q == INSTANCE ByteQueue WITH queue <- Contents

(* The ring implements the queue: every byte written is read once, in       *)
(* order, unless it is cleared; a write takes effect with the store of     *)
(* head, a read or a clear with the store of tail.                         *)
ImplementsQueue == Q!Spec
=============================================================================
