-------------------------- MODULE MCNativeLibrary --------------------------
(* Bounds for NativeLibrary: two entries of history, two aliases of three   *)
(* names, one variable of two; lines with every kind of character that the  *)
(* tokenizer tells apart.                                                   *)
EXTENDS NativeLibrary

MCCommand  == {<<>>, <<"a">>, <<"a", "", "b">>}
MCExpansion == {<<"b">>, <<"a", " ", "\"", " ", "\"">>}
MCDefaults == <<[name |-> "ll", value |-> <<"b">>]>>
MCChar     == {"a", " ", "'", "\\", "|", "\""}
MCRootfs   == <<"", "data", "r">>
MCSibling  == [name |-> "rx", rest |-> "x"]
=============================================================================
