--------------------------- MODULE HistoryManager ---------------------------
(***************************************************************************)
(* shell/history_manager.c: the commands typed, oldest first, at most max  *)
(* of them; the position of the up and down keys, -1 when they were not    *)
(* used; and the file, one line per entry.  A command is a sequence of     *)
(* lines (more than one when it holds a line break); <<>> is the empty     *)
(* string and "" an empty line.  Lines are shorter than the 4095 bytes of  *)
(* history_load's buffer and end in no carriage return.                    *)
(***************************************************************************)
EXTENDS Integers, Sequences, SequencesExt

CONSTANTS Command,     \* commands, <<>> among them
          MaxHistory,  \* bound: the largest max_entries
          Torn         \* what is left of a line that was cut short

ASSUME HistoryAssumption ==
    /\ MaxHistory \in Nat \ {0} /\ Torn # ""
    /\ <<>> \in Command /\ <<"">> \notin Command
    /\ \A c \in Command : c \in Seq(Range(c))

VARIABLES hist,      \* history_t: [entries, position, max]
          histReady, \* g_history_init
          file,      \* the lines of the history file
          saving     \* history_save is between its fopen and its fclose

histVars == <<hist, histReady, file, saving>>

Empty(max) == [entries |-> <<>>, position |-> -1, max |-> max]

(* Mutant: the oldest entry makes room one entry too late. *)
AddEvictsLate(h, cmd) ==
    IF cmd = <<>> THEN h
    ELSE IF h.entries # <<>> /\ Last(h.entries) = cmd THEN [h EXCEPT !.position = -1]
    ELSE LET kept == IF Len(h.entries) > h.max THEN Tail(h.entries) ELSE h.entries
         IN  [h EXCEPT !.entries = Append(kept, cmd), !.position = -1]

(* history_add: an empty command does not even reset the position. *)
Add(h, cmd) ==
    IF cmd = <<>> THEN h
    ELSE IF h.entries # <<>> /\ Last(h.entries) = cmd THEN [h EXCEPT !.position = -1]
    ELSE LET kept == IF Len(h.entries) >= h.max THEN Tail(h.entries) ELSE h.entries
         IN  [h EXCEPT !.entries = Append(kept, cmd), !.position = -1]

(* Mutant: the up key wraps around. *)
PrevWraps(h) ==
    IF h.entries = <<>> THEN h
    ELSE [h EXCEPT !.position = IF @ <= 0 THEN Len(h.entries) - 1 ELSE @ - 1]

(* history_prev. *)
Prev(h) ==
    IF h.entries = <<>> THEN h
    ELSE LET from == IF h.position < 0 THEN Len(h.entries) ELSE h.position
         IN  [h EXCEPT !.position = IF from > 0 THEN from - 1 ELSE from]

(* history_next: past the newest entry the navigation is over. *)
NextEntry(h) ==
    IF h.position < 0 THEN h
    ELSE [h EXCEPT !.position = IF @ + 1 >= Len(h.entries) THEN -1 ELSE @ + 1]

(* What both return: the entry at the position, or the empty string. *)
Shown(h) == IF h.position < 0 THEN <<>> ELSE h.entries[h.position + 1]

(* A turn of history_save's loop: the entry and a line break. *)
WriteEntry(lines, entry) == lines \o entry

(* Mutant: the newest entry first, as the up key shows them. *)
LinesNewestFirst(h) == FoldLeft(WriteEntry, <<>>, Reverse(h.entries))

(* history_save's output. *)
Lines(h) == FoldLeft(WriteEntry, <<>>, h.entries)

(* A turn of history_load's loop: a line that is not empty is added. *)
LoadLine(h, line) == IF line = "" THEN h ELSE Add(h, <<line>>)

(* history_load *)
Load(h, lines) == FoldLeft(LoadLine, h, lines)

HistInit ==
    /\ hist = Empty(0) /\ histReady = FALSE
    /\ file = <<>> /\ saving = FALSE

(* nativeHistoryInit: with no room asked for it fails, and every other call *)
(* is ignored until it succeeds.                                           *)
HistoryInit(max) ==
    /\ ~saving
    /\ histReady' = (max > 0)
    /\ hist' = IF max > 0 THEN Load(Empty(max), file) ELSE hist
    /\ UNCHANGED <<file, saving>>

(* nativeHistoryAdd, nativeHistoryPrev, nativeHistoryNext. *)
HistoryCall(new) ==
    /\ histReady /\ ~saving
    /\ hist' = new
    /\ UNCHANGED <<histReady, file, saving>>

HistoryAdd(cmd) == HistoryCall(Add(hist, cmd))
HistoryPrev     == HistoryCall(Prev(hist))
HistoryNext     == HistoryCall(NextEntry(hist))
HistoryClear    == HistoryCall(Empty(hist.max))

(* nativeHistorySave: fopen truncates the file, fclose ends the writing. *)
SaveBegin ==
    /\ histReady /\ ~saving
    /\ saving' = TRUE
    /\ UNCHANGED <<hist, histReady, file>>

SaveEnd ==
    /\ saving
    /\ file' = Lines(hist) /\ saving' = FALSE
    /\ UNCHANGED <<hist, histReady>>

(* What a save that did not end may leave: nothing, some of the lines, and *)
(* the beginning of the next.                                              *)
Cut(lines) ==
    LET some(k) == SubSeq(lines, 1, k)
    IN  {some(k) : k \in 0 .. Len(lines)}
        \cup {Append(some(k), Torn) : k \in 0 .. Len(lines) - 1}

(* The process dies. *)
Crash ==
    /\ hist' = Empty(0) /\ histReady' = FALSE /\ saving' = FALSE
    /\ file' \in IF saving THEN Cut(Lines(hist)) ELSE {file}

-----------------------------------------------------------------------------
(* The lines that commands consist of, and what may be left of one. *)
Text == {Torn} \cup UNION {Range(c) : c \in Command}

HistTypeOK ==
    /\ hist \in [entries : Seq(Seq(Text)), position : Int, max : 0 .. MaxHistory]
    /\ Len(hist.entries) <= hist.max
    /\ hist.position \in -1 .. Len(hist.entries) - 1
    /\ file \in Seq(Text)
    /\ histReady \in BOOLEAN /\ saving \in BOOLEAN

(* The history after n presses of the up key and then m of the down key. *)
Up(h, i)   == Prev(h)
Down(h, i) == NextEntry(h)
Presses(h, n, m) ==
    FoldLeft(Down, FoldLeft(Up, h, [i \in 1 .. n |-> i]), [i \in 1 .. m |-> i])

(* The up key goes through the entries from the newest to the oldest and   *)
(* stays there, the down key takes the same way back and ends with the     *)
(* empty line, wherever additions and evictions have left the table.       *)
HistoryNavigation ==
    LET h == [hist EXCEPT !.position = -1]
        n == Len(h.entries)
    IN  /\ \A k \in 1 .. n : /\ Shown(Presses(h, k, 0)) = h.entries[n - k + 1]
                            /\ \A j \in 1 .. k - 1 :
                                 Shown(Presses(h, k, j)) = h.entries[n - k + 1 + j]
                            /\ Presses(h, k, k) = h
        /\ n > 0 => Presses(h, n + 1, 0) = Presses(h, n, 0)

(* A history of one-line commands comes back from its file as it was, and  *)
(* no reload brings two equal entries next to each other.                  *)
SavedHistoryReloads ==
    hist.max > 0 =>
        LET again == Load(Empty(hist.max), Lines(hist)).entries
        IN  /\ (\A i \in DOMAIN hist.entries : Len(hist.entries[i]) = 1) => again = hist.entries
            /\ \A i \in 1 .. Len(again) - 1 : again[i] # again[i + 1]
=============================================================================
