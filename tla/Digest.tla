------------------------------- MODULE Digest -------------------------------
(***************************************************************************)
(* crypto/sha256.c, but for what sha256_transform computes of a block: a   *)
(* context remembers the blocks it was given, and two messages have one    *)
(* digest when their blocks are the same.  Byte i of the message is the    *)
(* number 1000 + i; 0 to 255 are bytes of the padding.  Messages are       *)
(* shorter than 2^28 bytes.                                                *)
(***************************************************************************)
EXTENDS Integers, Sequences, SequencesExt

CONSTANT Block         \* the 64 bytes of a block; more than the length takes

ASSUME BlockAssumption == Block \in Nat /\ Block > 8

LengthAt    == Block - 8   \* where the eight bytes of the length begin
MessageByte(i) == 1000 + i
Message(n)  == [i \in 1 .. n |-> MessageByte(i)]
Unknown     == 9999    \* a byte nobody has written
Zeros(n)    == [i \in 1 .. n |-> 0]
Byte(n, k)  == IF k > 3 THEN 0 ELSE (n \div 256^k) % 256

(* sha256_init: the buffer is on the stack and keeps what was there. *)
ShaInit == [data |-> [i \in 0 .. Block - 1 |-> Unknown], datalen |-> 0, bitlen |-> 0,
            blocks |-> <<>>]

Transform(ctx, data) ==
    [ctx EXCEPT !.blocks = Append(@, [i \in 1 .. Block |-> data[i - 1]])]

(* A turn of sha256_update's loop. *)
ShaByte(ctx, b) ==
    LET c == [ctx EXCEPT !.data[ctx.datalen] = b, !.datalen = @ + 1]
    IN  IF c.datalen < Block THEN c
        ELSE [Transform(c, c.data) EXCEPT !.bitlen = @ + 8 * Block, !.datalen = 0]

(* Mutant: the length is put where the padding's first byte may be. *)
ShaFitsLoose(ctx) == ctx.datalen <= LengthAt

(* Whether the padding and the length go into the block begun. *)
ShaFits(ctx) == ctx.datalen < LengthAt

(* sha256_final: the blocks digested. *)
ShaFinal(ctx) ==
    LET end    == IF ShaFits(ctx) THEN LengthAt ELSE Block
        padded == [i \in 0 .. Block - 1 |->
                     IF i = ctx.datalen THEN 128
                     ELSE IF i > ctx.datalen /\ i < end THEN 0 ELSE ctx.data[i]]
        next   == IF ShaFits(ctx) THEN [ctx EXCEPT !.data = padded]
                  ELSE [Transform(ctx, padded) EXCEPT
                          !.data = [i \in 0 .. Block - 1 |->
                                      IF i < LengthAt THEN 0 ELSE padded[i]]]
        bits   == ctx.bitlen + 8 * ctx.datalen
    IN  Transform(next, [i \in 0 .. Block - 1 |->
                           IF i < LengthAt THEN next.data[i] ELSE Byte(bits, Block - 1 - i)]).blocks

Sha256(message) == ShaFinal(FoldLeft(ShaByte, ShaInit, message))

-----------------------------------------------------------------------------
(* What FIPS 180-4 and RFC 1321 give to the block function: the message, a *)
(* bit that is set, as many zeros as fill a block but for eight bytes, and *)
(* the length in bits in those.                                            *)
Padded(n, Length(_)) ==
    LET zeros == (LengthAt - 1 - n) % Block
    IN  Message(n) \o <<128>> \o Zeros(zeros) \o Length(8 * n)
BigEndian(bits)    == [k \in 1 .. 8 |-> Byte(bits, 8 - k)]
LittleEndian(bits) == [k \in 1 .. 8 |-> Byte(bits, k - 1)]
=============================================================================
