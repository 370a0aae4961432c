------------------------------- MODULE Vt100 -------------------------------
(***************************************************************************)
(* terminal/vt100.c: the screen that the escape parser's actions draw on.  *)
(* The cells lie in one flat array, row after row; rows and columns count  *)
(* from 0.  A cell that was never written and one that was erased look the *)
(* same.  The alternate screen is never read, the dirty flag only told to  *)
(* Java; both are left out.  A write or a move that leaves the array sets  *)
(* fault, and the behaviour ends there: what the program does next is      *)
(* undefined.                                                              *)
(***************************************************************************)
EXTENDS EscapeParser, Integers, Folds

CONSTANTS Size,     \* sizes <<cols, rows>> the terminal may be given
          Chunk,    \* byte strings a call of vt100_feed may be given
          MaxNumber \* bound: the largest parameter left to be continued

ASSUME SizeAssumption ==
    Size # {} /\ Size \subseteq (Nat \ {0}) \X (Nat \ {0})
ASSUME ChunkAssumption == Chunk \subseteq Seq(0 .. 255)

VARIABLES vt,      \* vt100_t, a record
          shrunk   \* history: a resize has made the screen smaller

vars == <<vt, shrunk>>

NoStyle     == [fg |-> <<"NONE">>, bg |-> <<"NONE">>, on |-> {}]
DefaultAttr == [fg |-> <<"16", 37>>, bg |-> <<"16", 40>>, on |-> {}]
Space       == 32
Blank       == [ch |-> Space, attr |-> NoStyle]

Total(v)  == v.rows * v.cols
Cursor(v) == v.row * v.cols + v.col
Fault(v, what) == [v EXCEPT !.fault = what]

(* vt100_init. *)
NewScreen(cols, rows) ==
    [parser |-> InitialParser, cols |-> cols, rows |-> rows,
     row |-> 0, col |-> 0, savedRow |-> 0, savedCol |-> 0,
     top |-> 0, bot |-> rows - 1,
     cells |-> [i \in 0 .. rows * cols - 1 |-> Blank],
     attr |-> DefaultAttr, fault |-> "none"]

-----------------------------------------------------------------------------
(* Mutant: a row that may be one too large. *)
CursorMoveLoose(v, row, col) ==
    [v EXCEPT !.row = IF row < 0 THEN 0 ELSE IF row > v.rows THEN v.rows ELSE row,
              !.col = IF col < 0 THEN 0 ELSE IF col >= v.cols THEN v.cols - 1 ELSE col]

(* cursor_move. *)
CursorMove(v, row, col) ==
    [v EXCEPT !.row = IF row < 0 THEN 0 ELSE IF row >= v.rows THEN v.rows - 1 ELSE row,
              !.col = IF col < 0 THEN 0 ELSE IF col >= v.cols THEN v.cols - 1 ELSE col]

(* Mutant: the last line of the region stays as it was. *)
ScrollUpKeepsLast(v, top, bot, n) ==
    IF n <= 0 \/ top > bot THEN v
    ELSE [v EXCEPT !.cells = [i \in DOMAIN @ |->
             IF i \in top * v.cols .. (bot - n + 1) * v.cols - 1 THEN @[i + n * v.cols]
             ELSE @[i]]]

(* screen_scroll_up: rows top..bot move up by n, blank rows follow. *)
ScrollUp(v, top, bot, n) ==
    IF n <= 0 \/ top > bot THEN v
    ELSE [v EXCEPT !.cells = [i \in DOMAIN @ |->
             IF i \notin top * v.cols .. (bot + 1) * v.cols - 1 THEN @[i]
             ELSE IF i + n * v.cols < (bot + 1) * v.cols THEN @[i + n * v.cols]
             ELSE Blank]]

(* screen_scroll_down: rows top..bot move down by n, blank rows lead. *)
ScrollDown(v, top, bot, n) ==
    IF n <= 0 \/ top > bot THEN v
    ELSE [v EXCEPT !.cells = [i \in DOMAIN @ |->
             IF i \notin top * v.cols .. (bot + 1) * v.cols - 1 THEN @[i]
             ELSE IF i - n * v.cols >= top * v.cols THEN @[i - n * v.cols]
             ELSE Blank]]

(* '\n', and the line feed of a wrap. *)
LineFeed(v) ==
    IF v.row < v.bot THEN [v EXCEPT !.row = @ + 1] ELSE ScrollUp(v, v.top, v.bot, 1)

(* ESC M. *)
ReverseIndex(v) ==
    IF v.row > v.top THEN [v EXCEPT !.row = @ - 1] ELSE ScrollDown(v, v.top, v.bot, 1)

(* Characters are told apart only from the space. *)
Glyph(c) == IF c = Space THEN Space ELSE 120

(* ESC_ACTION_PRINT: the wrap is made when the next character arrives. *)
PutChar(v, c) ==
    LET w == IF v.col >= v.cols THEN LineFeed([v EXCEPT !.col = 0]) ELSE v
    IN  IF Cursor(w) >= Total(w) THEN Fault(w, "print")
        ELSE [w EXCEPT !.cells[Cursor(w)] = [ch |-> Glyph(c), attr |-> w.attr],
                       !.col = @ + 1]

(* ESC_ACTION_EXECUTE: BS, HT, LF, VT, FF, CR; the other controls do nothing. *)
Execute(v, c) ==
    CASE c = 8           -> [v EXCEPT !.col = IF @ > 0 THEN @ - 1 ELSE @]
      [] c = 9           -> LET next == (v.col \div 8) * 8 + 8
                            IN  [v EXCEPT !.col = IF next < v.cols THEN next ELSE v.cols - 1]
      [] c \in {10, 11, 12} -> LineFeed(v)
      [] c = 13          -> [v EXCEPT !.col = 0]
      [] OTHER           -> v

SaveCursor(v)    == [v EXCEPT !.savedRow = v.row, !.savedCol = v.col]
RestoreCursor(v) == [v EXCEPT !.row = v.savedRow, !.col = v.savedCol]

-----------------------------------------------------------------------------
(* The loop of both erase functions over cells from .. to - 1. *)
Erase(v, from, to) ==
    IF from < to /\ to > Total(v) THEN Fault(v, "erase")
    ELSE [v EXCEPT !.cells = [i \in DOMAIN @ |-> IF i \in from .. to - 1 THEN Blank ELSE @[i]]]

(* erase_in_display. *)
EraseInDisplay(v, mode) ==
    CASE mode = 0 -> Erase(v, Cursor(v), Total(v))
      [] mode = 1 -> Erase(v, 0, Cursor(v) + 1)
      [] mode \in {2, 3} -> Erase(v, 0, Total(v))
      [] OTHER -> v

(* Mutant: the end of the line is reckoned from the cursor. *)
EraseInLineLong(v, mode) ==
    LET row == v.row * v.cols
    IN  CASE mode = 0 -> Erase(v, row + v.col, row + v.col + v.cols)
          [] mode = 1 -> Erase(v, row, row + v.col + 1)
          [] mode = 2 -> Erase(v, row, row + v.cols)
          [] OTHER    -> v

(* erase_in_line. *)
EraseInLine(v, mode) ==
    LET row == v.row * v.cols
    IN  CASE mode = 0 -> Erase(v, row + v.col, row + v.cols)
          [] mode = 1 -> Erase(v, row, row + v.col + 1)
          [] mode = 2 -> Erase(v, row, row + v.cols)
          [] OTHER    -> v

(* CSI P: cols - n - col cells move left by n, and the last n are blanked *)
(* but keep their attributes.                                             *)
DeleteChars(v, n) ==
    LET row == v.row * v.cols    end == v.cols - n
    IN  IF end < v.col \/ row + v.cols > Total(v) THEN Fault(v, "delete")
        ELSE [v EXCEPT !.cells = [i \in DOMAIN @ |->
                 CASE i \in row + v.col .. row + end - 1    -> @[i + n]
                   [] i \in row + end .. row + v.cols - 1   -> [@[i] EXCEPT !.ch = Space]
                   [] OTHER                                 -> @[i]]]

(* Mutant: a bottom margin that is not clamped. *)
SetScrollRegionLoose(v, p0, p1) ==
    CursorMove([v EXCEPT !.top = p0 - 1, !.bot = p1 - 1], 0, 0)

(* CSI r: the bottom defaults to row 1, not to the last one. *)
SetScrollRegion(v, p0, p1) ==
    CursorMove([v EXCEPT !.top = p0 - 1,
                         !.bot = IF p1 - 1 >= v.rows THEN v.rows - 1 ELSE p1 - 1], 0, 0)

StyleOf == [c \in {1, 3, 4, 5, 7} |->
    CASE c = 1 -> "bold" [] c = 3 -> "italic" [] c = 4 -> "underline"
      [] c = 5 -> "blink" [] c = 7 -> "reverse"]
StyleOff(c) == IF c = 22 THEN "bold" ELSE StyleOf[c - 20]

(* What one parameter c of CSI m does; colour is what was read behind it.  *)
Styled(attr, c, colour) ==
    CASE c = 0 -> DefaultAttr
      [] c \in DOMAIN StyleOf -> [attr EXCEPT !.on = @ \cup {StyleOf[c]}]
      [] c \in {22, 23, 24, 25, 27} -> [attr EXCEPT !.on = @ \ {StyleOff(c)}]
      [] c \in (30 .. 37) \cup (90 .. 97) -> [attr EXCEPT !.fg = <<"16", c>>]
      [] c \in (40 .. 47) \cup (100 .. 107) -> [attr EXCEPT !.bg = <<"16", c>>]
      [] c = 38 -> [attr EXCEPT !.fg = colour]
      [] c = 48 -> [attr EXCEPT !.bg = colour]
      [] OTHER -> attr

(* A turn of handle_sgr's loop, at position i; acc.last is the position of *)
(* the last parameter an extended colour has used up.                      *)
SgrStep(acc, i) ==
    LET c     == acc.params[i]
        found == DecodeColor(acc.params, i)
    IN  IF i <= acc.last THEN acc
        ELSE IF c \in {38, 48}
        THEN [acc EXCEPT !.attr = Styled(@, c, found.color), !.last = found.last]
        ELSE [acc EXCEPT !.attr = Styled(@, c, <<"NONE">>)]

(* handle_sgr: no parameter is one that is 0. *)
Sgr(attr, params) ==
    LET ps == IF params = <<>> THEN <<0>> ELSE params
    IN  FoldLeft(SgrStep, [attr |-> attr, last |-> 0, params |-> ps],
                 [i \in 1 .. Len(ps) |-> i]).attr

(* handle_csi; the final bytes are A..H, J..M, P, S, T, d, f, m, r, s, u. *)
HandleCsi(v, final) ==
    LET p0 == GetParam(v.parser, 1, 1)
        p1 == GetParam(v.parser, 2, 1)
        mode == GetParam(v.parser, 1, 0)
    IN  CASE final = 65 -> CursorMove(v, v.row - p0, v.col)
          [] final = 66 -> CursorMove(v, v.row + p0, v.col)
          [] final = 67 -> CursorMove(v, v.row, v.col + p0)
          [] final = 68 -> CursorMove(v, v.row, v.col - p0)
          [] final = 69 -> CursorMove(v, v.row + p0, 0)
          [] final = 70 -> CursorMove(v, v.row - p0, 0)
          [] final = 71 -> CursorMove(v, v.row, p0 - 1)
          [] final \in {72, 102} -> CursorMove(v, p0 - 1, p1 - 1)
          [] final = 74 -> EraseInDisplay(v, mode)
          [] final = 75 -> EraseInLine(v, mode)
          [] final = 76 -> ScrollDown(v, v.row, v.bot, p0)
          [] final = 77 -> ScrollUp(v, v.row, v.bot, p0)
          [] final = 80 -> DeleteChars(v, p0)
          [] final = 83 -> ScrollUp(v, v.top, v.bot, p0)
          [] final = 84 -> ScrollDown(v, v.top, v.bot, p0)
          [] final = 100 -> CursorMove(v, p0 - 1, v.col)
          [] final = 109 -> [v EXCEPT !.attr = Sgr(@, v.parser.params)]
          [] final = 114 -> SetScrollRegion(v, p0, p1)
          [] final = 115 -> SaveCursor(v)
          [] final = 117 -> RestoreCursor(v)
          [] OTHER -> v

(* ESC 7, ESC 8 and ESC M. *)
HandleEsc(v, c) ==
    CASE c = 55 -> SaveCursor(v)
      [] c = 56 -> RestoreCursor(v)
      [] c = 77 -> ReverseIndex(v)
      [] OTHER  -> v

-----------------------------------------------------------------------------
(* What a finished sequence leaves in the parser is cleared before it is   *)
(* read again.                                                             *)
Settled(p) == IF p.state = "GROUND" THEN InitialParser ELSE p

(* vt100_action, called by escape_parser_feed. *)
FeedByte(v, c) ==
    LET step == ParserFeed(v.parser, c)
        w == [v EXCEPT !.parser = step.parser]
        x == CASE step.action = "PRINT"        -> PutChar(w, c)
               [] step.action = "EXECUTE"      -> Execute(w, c)
               [] step.action = "CSI_DISPATCH" -> HandleCsi(w, c)
               [] step.action = "ESC_DISPATCH" -> HandleEsc(w, c)
               [] OTHER                        -> w
    IN  IF v.fault # "none" THEN v ELSE [x EXCEPT !.parser = Settled(@)]

FeedBytes(v, bytes) == FoldLeft(FeedByte, v, bytes)

Init ==
    /\ \E s \in Size : vt = NewScreen(s[1], s[2])
    /\ shrunk = FALSE

(* vt100_feed. *)
Feed(bytes) ==
    /\ vt.fault = "none"
    /\ vt' = FeedBytes(vt, bytes)
    /\ vt'.parser.current <= MaxNumber
    /\ UNCHANGED shrunk

(* Mutant: rows are copied at the new width. *)
ResizedAtNewWidth(v, cols, rows) ==
    [i \in 0 .. rows * cols - 1 |->
        IF i \in DOMAIN v.cells THEN v.cells[i] ELSE Blank]

(* What fits of the old screen. *)
ResizedCells(v, cols, rows) ==
    [i \in 0 .. rows * cols - 1 |->
        LET r == i \div cols    c == i % cols
        IN  IF r < v.rows /\ c < v.cols THEN v.cells[r * v.cols + c] ELSE Blank]

(* vt100_resize: the saved cursor stays as it is. *)
Resize(cols, rows) ==
    /\ vt.fault = "none"
    /\ vt' = [vt EXCEPT !.cells = ResizedCells(vt, cols, rows),
                        !.cols = cols, !.rows = rows,
                        !.row = IF @ >= rows THEN rows - 1 ELSE @,
                        !.col = IF @ >= cols THEN cols - 1 ELSE @,
                        !.top = 0, !.bot = rows - 1]
    /\ shrunk' = (shrunk \/ cols < vt.cols \/ rows < vt.rows)

(* nativeVt100Init: the old screen is freed and a new one made. *)
Reinit(cols, rows) ==
    /\ vt.fault = "none"
    /\ vt' = NewScreen(cols, rows)
    /\ shrunk' = FALSE

Next ==
    \/ \E bytes \in Chunk : Feed(bytes)
    \/ \E s \in Size : Resize(s[1], s[2]) \/ Reinit(s[1], s[2])

Spec == Init /\ [][Next]_vars

-----------------------------------------------------------------------------
(* Types: margins and saved cursor may lie outside the screen.             *)
TypeOK ==
    /\ vt.parser.state \in ParserState
    /\ Len(vt.parser.params) <= MaxParams /\ Len(vt.parser.osc) <= OscMaxLen
    /\ <<vt.cols, vt.rows>> \in Size
    /\ DOMAIN vt.cells = 0 .. Total(vt) - 1
    /\ vt.row \in Nat /\ vt.col \in Nat /\ vt.savedRow \in Nat /\ vt.savedCol \in Nat
    /\ vt.top \in Nat /\ vt.bot \in 0 .. vt.rows - 1
    /\ vt.fault \in {"none", "print", "erase", "delete"} /\ shrunk \in BOOLEAN

(* While the screen has never been made smaller, the cursor is on it, or   *)
(* just past the end of a row; a character is never written outside the    *)
(* cells, and an erase only by the one cell that follows a last row whose  *)
(* wrap is pending.  (After a shrink the saved cursor may be restored to a *)
(* row that is gone.)                                                      *)
WritesStayOnScreen ==
    ~shrunk => /\ vt.row < vt.rows /\ vt.col <= vt.cols
               /\ vt.fault # "print"
               /\ vt.fault = "erase" => Cursor(vt) = Total(vt)

Line(v, r)  == [c \in 0 .. v.cols - 1 |-> v.cells[r * v.cols + c]]
Lines(v, rs) == [r \in rs |-> Line(v, r)]
Region(v)   == [k \in 1 .. v.bot - v.top + 1 |-> Line(v, v.top + k - 1)]
Ready       == vt.fault = "none" /\ vt.parser.state = "GROUND"
Csi(params, final) == <<ESC, LeftBracket>> \o params \o <<final>>

(* Scrolling shifts whole lines within the margins and nothing else: CSI S *)
(* drops lines at the top and adds blank ones at the bottom, CSI T does    *)
(* the reverse, a line feed on the bottom margin is CSI S, and no line     *)
(* outside the margins changes.                                            *)
RegionScrolls ==
    Ready => \A n \in 1 .. 2 :
        LET up     == FeedBytes(vt, Csi(<<48 + n>>, 83))
            down   == FeedBytes(vt, Csi(<<48 + n>>, 84))
            feed   == FeedBytes(vt, <<10>>)
            height == Len(Region(vt))
            blank  == [k \in 1 .. IF n < height THEN n ELSE height |->
                          [c \in 0 .. vt.cols - 1 |-> Blank]]
            others == (0 .. vt.rows - 1) \ (vt.top .. vt.bot)
        IN  /\ Region(up) = SubSeq(Region(vt), n + 1, height) \o blank
            /\ Region(down) = blank \o SubSeq(Region(vt), 1, height - n)
            /\ vt.row = vt.bot => feed = FeedBytes(vt, Csi(<<49>>, 83))
            /\ \A v \in {up, down, feed} : Lines(v, others) = Lines(vt, others)

(* With the cursor on the screen, erasing a line never reaches another     *)
(* line, and what CSI 0 K and CSI 1 K erase is together what CSI 2 K does; *)
(* likewise for the display.                                               *)
EraseHalvesMakeWhole ==
    Ready /\ vt.row < vt.rows /\ vt.col < vt.cols =>
        /\ \A final \in {74, 75} :
              FeedBytes(vt, Csi(<<48>>, final) \o Csi(<<49>>, final))
                  = FeedBytes(vt, Csi(<<50>>, final))
        /\ \A mode \in 48 .. 50 :
              LET others == (0 .. vt.rows - 1) \ {vt.row}
              IN  Lines(FeedBytes(vt, Csi(<<mode>>, 75)), others) = Lines(vt, others)

(* A resize keeps every row's text in its row, as far as it fits, though   *)
(* the rows lie elsewhere in the new array; making the screen larger and   *)
(* then as it was before restores every cell.                              *)
ResizeKeepsRows ==
    \A s \in Size :
        LET w == [vt EXCEPT !.cols = s[1], !.rows = s[2], !.cells = ResizedCells(vt, s[1], s[2])]
        IN  /\ \A r \in 0 .. vt.rows - 1, c \in 0 .. vt.cols - 1 :
                 r < w.rows /\ c < w.cols => Line(w, r)[c] = Line(vt, r)[c]
            /\ s[1] >= vt.cols /\ s[2] >= vt.rows =>
                 ResizedCells(w, vt.cols, vt.rows) = vt.cells

Decimal(n) == IF n = 0 THEN <<>> ELSE IF n < 10 THEN <<48 + n>>
              ELSE <<48 + (n \div 10), 48 + (n % 10)>>
JoinNumber(text, n) == text \o <<Semicolon>> \o Decimal(n)
Joined(ps) == IF ps = <<>> THEN <<>> ELSE FoldLeft(JoinNumber, Decimal(Head(ps)), Tail(ps))
NextParser(p, c) == ParserFeed(p, c).parser
ParserAfter(p, bytes) == FoldLeft(NextParser, p, bytes)

(* A control sequence with any list of numbers is dispatched on its final  *)
(* byte with those numbers, as many as there is room for, whether or not   *)
(* a number is left out; a string command ends at BEL or at ESC \\ as long *)
(* as the buffer has room for the ESC.  (Read on a fresh screen.)           *)
SequencesParsed ==
    vt = NewScreen(vt.cols, vt.rows) =>
    /\ \A ps \in UNION {[1 .. n -> {0, 2, 31}] : n \in 0 .. MaxParams + 1} :
         LET p == ParserAfter(vt.parser, <<ESC, LeftBracket>> \o Joined(ps))
             end == ParserFeed(p, 72)
         IN  /\ end.action = "CSI_DISPATCH" /\ end.parser.state = "GROUND"
             /\ \A i \in 1 .. MaxParams :
                  GetParam(end.parser, i, 0) = IF i <= Len(ps) THEN ps[i] ELSE 0
    /\ \A body \in UNION {[1 .. n -> {10, 48, Backslash}] : n \in 0 .. OscMaxLen} :
         LET p == ParserAfter(vt.parser, <<ESC, RightBracket>> \o body)
         IN  /\ p.state = "OSC_STRING"
             /\ ParserAfter(p, <<BEL>>).state = "GROUND"
             /\ ParserAfter(p, <<ESC, Backslash>>).state =
                    IF Len(body) < OscMaxLen THEN "GROUND" ELSE "OSC_STRING"

(* The sub-parameters of an extended colour are never taken for styles of  *)
(* their own, and those behind it keep their meaning: CSI m with two lists *)
(* joined does what the two sequences do one after the other.              *)
SgrComposes ==
    vt = NewScreen(vt.cols, vt.rows) =>
    \A before \in {<<>>, <<1, 33>>, <<4, 7, 104>>},
       colour \in {<<38, 5, n>> : n \in {1, 31}} \cup {<<48, 2, 1, 4, 31>>},
       rest \in {<<1>>, <<0>>, <<22, 41>>, <<38, 5, 7>>} :
        LET a == Sgr(vt.attr, before)
            b == Sgr(a, colour)
        IN  /\ b.on = a.on
            /\ colour[1] = 38 => b.bg = a.bg
            /\ colour[1] = 48 => b.fg = a.fg
            /\ Sgr(a, colour \o rest) = Sgr(b, rest)
=============================================================================
