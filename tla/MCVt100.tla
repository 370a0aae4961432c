------------------------------ MODULE MCVt100 ------------------------------
(* Bounds for Vt100: small screens, and the byte strings of a read.  Most   *)
(* strings are whole sequences; the fragments make a sequence arrive in     *)
(* several reads, or be cut short by the next one.                          *)
EXTENDS Vt100

SmallSizes == {<<2, 2>>, <<1, 2>>, <<2, 1>>}
MCChunk ==
    {<<120>>, <<8>>, <<9>>, <<10>>, <<13>>}
    \cup {Csi(<<>>, f) : f \in (65 .. 72) \cup {74, 75, 76, 77, 80, 83, 84, 100, 114, 115, 117}}
    \cup {Csi(<<50>>, f) : f \in {71, 76, 80, 100, 114}}
    \cup {Csi(<<49>>, f) : f \in {74, 75}}
    \cup {Csi(<<49, Semicolon, 50>>, f) : f \in {102, 114}}
    \cup {Csi(<<50, Semicolon, 50>>, 114)}
    \cup {<<ESC, c>> : c \in {55, 56, 77}}
    \cup {<<ESC, LeftBracket, 50>>, <<Semicolon, 50, 72>>, <<CAN>>}
=============================================================================
