-------------------------- MODULE MCPackageEngine --------------------------
(* Bounds for PackageEngine: two operations, one of them perhaps refused,   *)
(* whose output is short enough for the buffer or too long for it; grep -q  *)
(* writes nothing to the main thread's pipe.                                *)
EXTENDS PackageEngine

MCOp ==
    {[kind |-> "upgrade", pkgs |-> <<>>]}
    \cup {[kind |-> "install", pkgs |-> p] : p \in {<<"nmap">>, <<"nmap", ";">>}}
MCText == [worker |-> {<<"E">>, <<"o", "o", "N">>}, main |-> {<<>>}]
MCBufferSize == [worker |-> 2, main |-> 1]
=============================================================================
