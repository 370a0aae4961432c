-------------------------------- MODULE Md5 --------------------------------
(***************************************************************************)
(* crypto/md5.c, but for what md5_transform computes of a block.  lo and   *)
(* hi together are the count of bits; the carry into hi lies beyond the    *)
(* messages fed here.                                                      *)
(***************************************************************************)
EXTENDS Digest

CONSTANTS Chunk,     \* the lengths md5_update is called with
          MaxMessage \* bound: the longest message

VARIABLES ctx, fed   \* md5_ctx_t; how many bytes it was fed

vars == <<ctx, fed>>

Init == /\ ctx = [lo |-> 0, buffer |-> [i \in 0 .. Block - 1 |-> Unknown], blocks |-> <<>>]
        /\ fed = 0

(* memcpy of bytes into the buffer, from position at. *)
Copied(c, at, bytes) ==
    [c EXCEPT !.buffer = [i \in 0 .. Block - 1 |->
        IF i \in at .. at + Len(bytes) - 1 THEN bytes[i - at + 1] ELSE @[i]]]

(* The loop over whole blocks; the rest is copied to the buffer's front. *)
Whole(c, bytes) ==
    LET n == Len(bytes) \div Block
        through == FoldLeft(LAMBDA acc, k :
                        Transform(acc, [i \in 0 .. Block - 1 |-> bytes[(k - 1) * Block + i + 1]]),
                        c, [k \in 1 .. n |-> k])
    IN  Copied(through, 0, SubSeq(bytes, n * Block + 1, Len(bytes)))

(* md5_update: used is taken from lo, which counts bits. *)
Updated(c, bytes) ==
    LET used  == c.lo % Block
        avail == Block - used
        d     == [c EXCEPT !.lo = @ + 8 * Len(bytes)]
        full  == Copied(d, used, SubSeq(bytes, 1, avail))
    IN  IF used = 0 THEN Whole(d, bytes)
        ELSE IF Len(bytes) < avail THEN Copied(d, used, bytes)
        ELSE Whole(Transform(full, full.buffer), SubSeq(bytes, avail + 1, Len(bytes)))

(* md5_final: the blocks digested. *)
Final(c) ==
    LET used  == (c.lo % Block) + 1
        begun == Copied(c, used - 1, <<128>>)
        next  == IF used > LengthAt
                 THEN LET full == Copied(begun, used, Zeros(Block - used))
                      IN  Copied(Transform(full, full.buffer), 0, Zeros(LengthAt))
                 ELSE Copied(begun, used, Zeros(LengthAt - used))
        last  == Copied(next, LengthAt, LittleEndian(c.lo))
    IN  Transform(last, last.buffer).blocks

Update(n) ==
    /\ fed + n <= MaxMessage
    /\ ctx' = Updated(ctx, [i \in 1 .. n |-> MessageByte(fed + i)])
    /\ fed' = fed + n

Next == \E n \in Chunk : Update(n)

Spec == Init /\ [][Next]_vars

-----------------------------------------------------------------------------
(* The digest is that of the message fed, whatever the calls that fed it:  *)
(* the checksum md5.c is there to verify.                                  *)
Md5OfTheMessage == FlattenSeq(Final(ctx)) = Padded(fed, LittleEndian)
=============================================================================
