------------------------------ MODULE KeyTable ------------------------------
(***************************************************************************)
(* The table of shell/alias_engine.c: an array of names and values, filled *)
(* from the front, searched from the front.  shell/env_manager.c has the   *)
(* same code for another table.                                            *)
(***************************************************************************)
EXTENDS Integers, Sequences

CONSTANTS Name, Value,
          MaxEntries,   \* MAX_ALIASES, MAX_ENV_ENTRIES
          Defaults      \* the entries alias_init adds, one by one

Entry == [name : Name, value : Value]
(* No name occurs twice. *)
Unique(t) == \A i, j \in DOMAIN t : t[i].name = t[j].name => i = j

(* What the constants must be; the modules that use a table assume it. *)
TableAssumption ==
    /\ MaxEntries \in Nat \ {0}
    /\ Defaults \in Seq(Entry) /\ Len(Defaults) <= MaxEntries /\ Unique(Defaults)

VARIABLE table

Names(t) == {t[i].name : i \in DOMAIN t}

(* The first entry of that name; asked only for names that are there. *)
Position(t, n) ==
    CHOOSE i \in DOMAIN t : t[i].name = n /\ \A j \in DOMAIN t : j < i => t[j].name # n

(* alias_get *)
Get(t, n) == t[Position(t, n)].value

(* alias_set: the value of a known name is replaced in its place, a new    *)
(* name is refused when the table is full.                                 *)
With(t, n, v) ==
    IF n \in Names(t) THEN [t EXCEPT ![Position(t, n)] = [name |-> n, value |-> v]]
    ELSE IF Len(t) < MaxEntries THEN Append(t, [name |-> n, value |-> v]) ELSE t

(* Mutant: the entries behind it stay where they are. *)
WithoutMoving(t, n) == IF n \notin Names(t) THEN t ELSE SubSeq(t, 1, Len(t) - 1)

(* alias_unset: the entries behind it move up by one. *)
Without(t, n) ==
    IF n \notin Names(t) THEN t
    ELSE [i \in 1 .. Len(t) - 1 |-> IF i < Position(t, n) THEN t[i] ELSE t[i + 1]]

Init      == table = <<>>
Set(n, v) == table' = With(table, n, v)
Unset(n)  == table' = Without(table, n)
AddDefaults == table' = Defaults
Destroy     == table' = <<>>

Next ==
    \/ \E n \in Name, v \in Value : Set(n, v)
    \/ \E n \in Name : Unset(n)
    \/ AddDefaults
    \/ Destroy

Spec == Init /\ [][Next]_table

-----------------------------------------------------------------------------
(* What the table stands for. *)
MapOf(t) == [n \in Names(t) |-> Get(t, n)]

Map == INSTANCE NameMap WITH map <- MapOf(table), Default <- MapOf(Defaults)

(* No name is in the table twice, and the table is never overfull. *)
TableOK == table \in Seq(Entry) /\ Len(table) <= MaxEntries /\ Unique(table)

(* The array behaves as a partial function of names. *)
TableIsAMap == Map!Spec

(* Each call does to the function what its name says, to its name and no   *)
(* other, whatever moves in the array; it does nothing only when a set     *)
(* finds the table full or an unset finds no such name.                    *)
CallKept ==
    /\ \A n \in Name, v \in Value : Set(n, v) =>
          \/ Map!Set(n, v)
          \/ n \notin Names(table) /\ Len(table) = MaxEntries /\ UNCHANGED table
    /\ \A n \in Name : Unset(n) =>
          Map!Unset(n) \/ (n \notin Names(table) /\ UNCHANGED table)
EachCallKept == [][CallKept]_table
=============================================================================
