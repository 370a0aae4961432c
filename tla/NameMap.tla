------------------------------- MODULE NameMap -------------------------------
(* What a table of names promises: a partial function of at most MaxEntries *)
(* names, empty at first, where setting a name replaces its value, a new    *)
(* name is refused only when the table is full, and removing a name touches *)
(* no other.  It can be emptied, and it can be given its default contents.  *)
EXTENDS Integers, FiniteSets

CONSTANTS Name, Value, MaxEntries, Default

VARIABLE map

Nothing == [n \in {} |-> 0]

Init == map = Nothing

Set(n, v) ==
    /\ n \in DOMAIN map \/ Cardinality(DOMAIN map) < MaxEntries
    /\ map' = [m \in DOMAIN map \cup {n} |-> IF m = n THEN v ELSE map[m]]

Unset(n) ==
    /\ n \in DOMAIN map
    /\ map' = [m \in DOMAIN map \ {n} |-> map[m]]

Reset == map' = Default \/ map' = Nothing

Next ==
    \/ \E n \in Name, v \in Value : Set(n, v)
    \/ \E n \in Name : Unset(n)
    \/ Reset

Spec == Init /\ [][Next]_map
=============================================================================
