----------------------------- MODULE ByteQueue -----------------------------
(* What a byte buffer between one producer and one consumer promises: a    *)
(* queue of at most Capacity bytes.  Bytes are put at the end and taken    *)
(* from the front, each once and in order; got is what the consumer was    *)
(* given last.                                                             *)
EXTENDS Integers, Sequences

CONSTANTS Byte, Capacity

VARIABLES queue, got

qvars == <<queue, got>>

Prefix(n) == SubSeq(queue, 1, n)
Rest(n)   == SubSeq(queue, n + 1, Len(queue))

Init == queue = <<>> /\ got = <<>>

Put(bytes) ==
    /\ Len(queue) + Len(bytes) <= Capacity
    /\ queue' = queue \o bytes
    /\ UNCHANGED got

Take(n) ==
    /\ got' = Prefix(n)
    /\ queue' = Rest(n)

Peek(n) ==
    /\ got' = Prefix(n)
    /\ UNCHANGED queue

Discard(n) ==
    /\ queue' = Rest(n)
    /\ UNCHANGED got

Next ==
    \/ \E n \in 1 .. Capacity : \E bytes \in [1 .. n -> Byte] : Put(bytes)
    \/ \E n \in 1 .. Len(queue) : Take(n) \/ Peek(n) \/ Discard(n)

Spec == Init /\ [][Next]_qvars
=============================================================================
