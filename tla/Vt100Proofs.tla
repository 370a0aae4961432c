---------------------------- MODULE Vt100Proofs ----------------------------
(* Safety of the screen for every size, every byte string and every number  *)
(* of parameters: what one byte does keeps the types, and as long as the    *)
(* screen has not been made smaller, keeps the cursor and the writes on it. *)
EXTENDS Vt100, SequenceTheorems, TLAPS

Fields == {"parser", "cols", "rows", "row", "col", "savedRow", "savedCol", "top", "bot",
           "cells", "attr", "fault"}

ParserType == [state : ParserState, params : Seq(Nat), current : Nat, osc : Seq(Nat)]

ParserOK(p) ==
    p \in ParserType /\ Len(p.params) <= MaxParams /\ Len(p.osc) <= OscMaxLen

IsScreen(v) ==
    /\ v = [f \in Fields |-> v[f]]
    /\ ParserOK(v.parser)
    /\ <<v.cols, v.rows>> \in Size
    /\ v.cells = [i \in 0 .. Total(v) - 1 |-> v.cells[i]]
    /\ v.row \in Nat /\ v.col \in Nat /\ v.savedRow \in Nat /\ v.savedCol \in Nat
    /\ v.top \in Nat /\ v.bot \in 0 .. v.rows - 1
    /\ v.fault \in {"none", "print", "erase", "delete"}

(* The cursor and its saved copy are on the screen, or wait past the end of *)
(* a row; of the writes only that of the cell after the last one is lost.  *)
OnScreen(v) ==
    /\ v.row < v.rows /\ v.col <= v.cols /\ v.savedRow < v.rows /\ v.savedCol <= v.cols
    /\ v.fault # "print" /\ (v.fault = "erase" => Cursor(v) = Total(v))

Good(v) == IsScreen(v) /\ (~shrunk => OnScreen(v))

(* A screen the next operation can be made on. *)
Usable(v) == Good(v) /\ v.fault = "none"

LEMMA SizesAre ==
  ASSUME NEW v, IsScreen(v)
  PROVE  v.cols \in Nat \ {0} /\ v.rows \in Nat \ {0}
BY SizeAssumption DEF IsScreen

(* Where the cells lie. *)
LEMMA CellPlaces ==
  ASSUME NEW cols \in Nat \ {0}, NEW rows \in Nat \ {0}, NEW row \in Nat, NEW col \in Nat,
         row < rows
  PROVE  /\ row * cols \in Nat /\ rows * cols \in Nat
         /\ row * cols + cols <= rows * cols
         /\ col < cols => row * cols + col < rows * cols
         /\ col <= cols => row * cols + col <= rows * cols
<1>1. row * cols \in Nat /\ rows * cols \in Nat
  OBVIOUS
<1>2. (rows - (row + 1)) \in Nat
  OBVIOUS
<1>3. (rows - (row + 1)) * cols \in Nat
  BY <1>2
<1>4. rows * cols = row * cols + cols + (rows - (row + 1)) * cols
  OBVIOUS
<1> QED
  BY <1>1, <1>3, <1>4

-----------------------------------------------------------------------------
(* The parser. *)
LEMMA ParserFields ==
  ASSUME NEW p, ParserOK(p), NEW ps \in Seq(Nat), Len(ps) <= MaxParams, NEW n \in Nat,
         NEW o \in Seq(Nat), Len(o) <= OscMaxLen
  PROVE  /\ ParserOK([p EXCEPT !.params = ps, !.current = n])
         /\ ParserOK([p EXCEPT !.current = n]) /\ ParserOK([p EXCEPT !.osc = o])
<1>1. ASSUME NEW q, q \in {[p EXCEPT !.params = ps, !.current = n],
                           [p EXCEPT !.current = n], [p EXCEPT !.osc = o]}
      PROVE  ParserOK(q)
  <2>1. p \in ParserType
    BY DEF ParserOK
  <2>2. q \in ParserType /\ q.params \in {p.params, ps} /\ q.osc \in {p.osc, o}
    BY <1>1, <2>1 DEF ParserType
  <2> QED
    BY <2>2 DEF ParserOK
<1> QED
  BY <1>1

LEMMA PushOK ==
  ASSUME NEW p, ParserOK(p)
  PROVE  ParserOK(PushParam(p)) /\ PushParam(p).state = p.state
<1>1. /\ p.params \in Seq(Nat) /\ p.current \in Nat /\ Len(p.params) \in Nat
      /\ Append(p.params, p.current) \in Seq(Nat)
      /\ Len(Append(p.params, p.current)) = Len(p.params) + 1
  BY AppendProperties, LenProperties DEF ParserOK, ParserType
<1> DEFINE ps == IF Len(p.params) < MaxParams THEN Append(p.params, p.current) ELSE p.params
<1>2. ps \in Seq(Nat) /\ Len(ps) <= MaxParams
  BY <1>1, ParserAssumption DEF ParserOK
<1>3. PushParam(p) = [p EXCEPT !.params = ps, !.current = 0]
  BY DEF PushParam
<1> HIDE DEF ps
<1>4. <<>> \in Seq(Nat) /\ Len(<<>>) <= OscMaxLen
  BY EmptySeq, ParserAssumption
<1>5. ParserOK([p EXCEPT !.params = ps, !.current = 0])
  BY <1>2, <1>4, ParserFields
<1> QED
  BY <1>3, <1>5 DEF ParserOK, ParserType

LEMMA ClearOK ==
  ASSUME NEW p, ParserOK(p)
  PROVE  ParserOK(ClearParams(p))
<1>1. <<>> \in Seq(Nat) /\ Len(<<>>) <= MaxParams /\ Len(<<>>) <= OscMaxLen
  BY EmptySeq, ParserAssumption
<1> QED
  BY <1>1, ParserFields DEF ClearParams

LEMMA StateOK ==
  ASSUME NEW p, ParserOK(p), NEW s \in ParserState, NEW act
  PROVE  ParserOK(Quiet(p, s).parser) /\ ParserOK(Emit(p, s, act).parser)
BY DEF ParserOK, ParserType, Quiet, Emit

LEMMA ParserStep ==
  ASSUME NEW p, ParserOK(p), NEW c \in Nat
  PROVE  ParserOK(ParserFeed(p, c).parser)
<1> USE DEF ParserState
<1>0. <<>> \in Seq(Nat) /\ Len(<<>>) <= MaxParams /\ Len(<<>>) <= OscMaxLen
  BY EmptySeq, ParserAssumption
<1>1. ParserOK(PushParam(p)) /\ ParserOK(ClearParams(p)) /\ p.state \in ParserState
  BY PushOK, ClearOK DEF ParserOK, ParserType
<1>2. ParserOK(InGround(p, c).parser)
  BY <1>1, StateOK DEF InGround
<1>3. ParserOK(InEscape(p, c).parser)
  <2> DEFINE q == ClearParams(p)
             r == [q EXCEPT !.osc = <<>>]
  <2>1. <<>> \in Seq(Nat) /\ Len(<<>>) <= MaxParams /\ Len(<<>>) <= OscMaxLen
    BY EmptySeq, ParserAssumption
  <2>2. ParserOK(q)
    BY <1>1
  <2> HIDE DEF q
  <2>3. ParserOK(r)
    BY <2>1, <2>2, ParserFields
  <2> HIDE DEF r
  <2>4. /\ ParserOK(Quiet(q, "CSI_ENTRY").parser) /\ ParserOK(Quiet(r, "OSC_STRING").parser)
        /\ ParserOK(Quiet(q, "DCS_ENTRY").parser) /\ ParserOK(Quiet(q, "ESCAPE").parser)
        /\ ParserOK(Emit(q, "GROUND", "ESC_DISPATCH").parser)
    BY <2>2, <2>3, StateOK
  <2> QED
    BY <2>4 DEF InEscape, q, r
<1>4. ParserOK(InCsiEntry(p, c).parser)
  <2> DEFINE r == [p EXCEPT !.current = c - 48]
  <2>1. c \in Digit => ParserOK(r)
    <3>1. c \in Digit => c - 48 \in Nat
      BY DEF Digit
    <3> QED
      BY <1>0, <3>1, ParserFields
  <2> HIDE DEF r
  <2>2. /\ c \in Digit => ParserOK(Quiet(r, "CSI_PARAM").parser)
        /\ ParserOK(Quiet(PushParam(p), "CSI_PARAM").parser)
        /\ ParserOK(Emit(p, "GROUND", "CSI_DISPATCH").parser)
        /\ ParserOK(Quiet(p, "CSI_INTERMEDIATE").parser)
        /\ ParserOK(Quiet(p, "CSI_ENTRY").parser)
    BY <1>1, <2>1, StateOK
  <2> QED
    BY <2>2 DEF InCsiEntry, r
<1>5. ParserOK(InCsiParam(p, c).parser)
  <2> DEFINE r == [p EXCEPT !.current = @ * 10 + (c - 48)]
  <2>1. c \in Digit => ParserOK(r)
    <3>1. p.current \in Nat
      BY DEF ParserOK, ParserType
    <3>2. c \in Digit => p.current * 10 + (c - 48) \in Nat
      BY <3>1 DEF Digit
    <3> QED
      BY <1>0, <3>2, ParserFields
  <2> HIDE DEF r
  <2>2. /\ c \in Digit => ParserOK(Quiet(r, "CSI_PARAM").parser)
        /\ ParserOK(Quiet(PushParam(p), "CSI_PARAM").parser)
        /\ ParserOK(Emit(PushParam(p), "GROUND", "CSI_DISPATCH").parser)
        /\ ParserOK(Quiet(PushParam(p), "CSI_INTERMEDIATE").parser)
        /\ ParserOK(Emit(p, "GROUND", "EXECUTE").parser)
        /\ ParserOK(Quiet(p, "CSI_PARAM").parser)
    BY <1>1, <2>1, StateOK
  <2> QED
    BY <2>2 DEF InCsiParam, r
<1>6. ParserOK(InCsiIntermediate(p, c).parser) /\ ParserOK(InCsiIgnore(p, c).parser)
  BY StateOK DEF InCsiIntermediate, InCsiIgnore
<1>7. ParserOK(InOscString(p, c).parser)
  <2> DEFINE o == IF Len(p.osc) < OscMaxLen THEN Append(p.osc, OscByte(c)) ELSE p.osc
             r == [p EXCEPT !.osc = o]
  <2>1. OscByte(c) \in Nat
    BY DEF OscByte, ESC
  <2>2. /\ p.osc \in Seq(Nat) /\ Len(p.osc) \in Nat /\ Append(p.osc, OscByte(c)) \in Seq(Nat)
        /\ Len(Append(p.osc, OscByte(c))) = Len(p.osc) + 1
    BY <2>1, AppendProperties, LenProperties DEF ParserOK, ParserType
  <2>3. o \in Seq(Nat) /\ Len(o) <= OscMaxLen
    BY <2>2, ParserAssumption DEF ParserOK
  <2> HIDE DEF o
  <2>4. ParserOK(r)
    BY <1>0, <2>3, ParserFields
  <2> HIDE DEF r
  <2>5. ParserOK(Quiet(r, "OSC_STRING").parser)
        /\ ParserOK(Emit(p, "GROUND", "OSC_DISPATCH").parser)
    BY <2>4, StateOK
  <2> QED
    BY <2>5 DEF InOscString, r, o
<1>8. ParserOK(InDcs(p, c).parser)
  BY StateOK DEF InDcs
<1>9. ParserOK(Emit(p, p.state, "EXECUTE").parser)
  BY <1>1, StateOK
<1> QED
  BY <1>1, <1>2, <1>3, <1>4, <1>5, <1>6, <1>7, <1>8, <1>9 DEF ParserFeed

LEMMA SettledOK ==
  ASSUME NEW p, ParserOK(p)
  PROVE  ParserOK(Settled(p)) /\ ParserOK(InitialParser)
<1>1. <<>> \in Seq(Nat) /\ Len(<<>>) = 0
  BY EmptySeq
<1>2. ParserOK(InitialParser)
  BY <1>1, ParserAssumption DEF ParserOK, ParserType, ParserState, InitialParser
<1> QED
  BY <1>2 DEF Settled

LEMMA ParamIs ==
  ASSUME NEW p, ParserOK(p), NEW i \in Nat \ {0}
  PROVE  GetParam(p, i, 1) \in Nat \ {0} /\ GetParam(p, i, 0) \in Nat
<1>1. i <= Len(p.params) => p.params[i] \in Nat
  BY ElementOfSeq, LenProperties DEF ParserOK, ParserType
<1>2. Len(p.params) \in Nat
  BY LenProperties DEF ParserOK, ParserType
<1> QED
  BY <1>1, <1>2 DEF GetParam

-----------------------------------------------------------------------------
(* The operations on the screen.  In each: what it leaves alone, and that a *)
(* good screen stays good.                                                 *)
LEMMA CursorSet ==
  ASSUME NEW v, Usable(v), NEW row \in Nat, NEW col \in Nat,
         ~shrunk => row < v.rows /\ col <= v.cols
  PROVE  /\ Usable([v EXCEPT !.row = row]) /\ Usable([v EXCEPT !.row = row, !.col = col])
         /\ Usable([v EXCEPT !.col = col])
         /\ Usable([v EXCEPT !.savedRow = row, !.savedCol = col])
<1>1. ASSUME NEW w, w \in {[v EXCEPT !.row = row], [v EXCEPT !.row = row, !.col = col],
                           [v EXCEPT !.col = col],
                           [v EXCEPT !.savedRow = row, !.savedCol = col]}
      PROVE  Usable(w)
  <2>1. v = [f \in Fields |-> v[f]]
    BY DEF Usable, Good, IsScreen
  <2>2. /\ w = [f \in Fields |-> w[f]] /\ w.parser = v.parser /\ w.cols = v.cols
        /\ w.rows = v.rows /\ w.top = v.top /\ w.bot = v.bot /\ w.cells = v.cells
        /\ w.fault = v.fault /\ w.row \in {v.row, row} /\ w.col \in {v.col, col}
        /\ w.savedRow \in {v.savedRow, row} /\ w.savedCol \in {v.savedCol, col}
    BY <1>1, <2>1 DEF Fields
  <2>3. Total(w) = Total(v)
    BY <2>2 DEF Total
  <2>4. IsScreen(w)
    BY <2>2, <2>3 DEF Usable, Good, IsScreen
  <2> QED
    BY <2>2, <2>4 DEF Usable, Good, OnScreen
<1> QED
  BY <1>1

LEMMA CellsSet ==
  ASSUME NEW v, Usable(v), NEW cells, cells = [i \in DOMAIN v.cells |-> cells[i]],
         NEW col \in Nat, ~shrunk => col <= v.cols
  PROVE  Usable([v EXCEPT !.cells = cells]) /\ Usable([v EXCEPT !.cells = cells, !.col = col])
<1>1. ASSUME NEW w, w \in {[v EXCEPT !.cells = cells], [v EXCEPT !.cells = cells, !.col = col]}
      PROVE  Usable(w)
  <2>1. v = [f \in Fields |-> v[f]] /\ DOMAIN v.cells = 0 .. Total(v) - 1
    BY DEF Usable, Good, IsScreen
  <2>2. /\ w = [f \in Fields |-> w[f]] /\ w.parser = v.parser /\ w.cols = v.cols
        /\ w.rows = v.rows /\ w.top = v.top /\ w.bot = v.bot /\ w.cells = cells
        /\ w.fault = v.fault /\ w.row = v.row /\ w.col \in {v.col, col}
        /\ w.savedRow = v.savedRow /\ w.savedCol = v.savedCol
    BY <1>1, <2>1 DEF Fields
  <2>3. Total(w) = Total(v)
    BY <2>2 DEF Total
  <2>4. w.cells = [i \in 0 .. Total(w) - 1 |-> w.cells[i]]
    BY <2>1, <2>2, <2>3
  <2>5. IsScreen(w)
    BY <2>2, <2>4 DEF Usable, Good, IsScreen
  <2> QED
    BY <2>2, <2>5 DEF Usable, Good, OnScreen
<1> QED
  BY <1>1

LEMMA FaultSet ==
  ASSUME NEW v, Usable(v), NEW what \in {"print", "erase", "delete"},
         ~shrunk => what # "print" /\ (what = "erase" => Cursor(v) = Total(v))
  PROVE  Good(Fault(v, what))
<1> DEFINE w == Fault(v, what)
<1>1. v = [f \in Fields |-> v[f]]
  BY DEF Usable, Good, IsScreen
<1>2. /\ w = [f \in Fields |-> w[f]] /\ w.parser = v.parser /\ w.cols = v.cols
      /\ w.rows = v.rows /\ w.top = v.top /\ w.bot = v.bot /\ w.cells = v.cells
      /\ w.fault = what /\ w.row = v.row /\ w.col = v.col
      /\ w.savedRow = v.savedRow /\ w.savedCol = v.savedCol
  BY <1>1 DEF Fields, Fault
<1> HIDE DEF w
<1>3. Total(w) = Total(v) /\ Cursor(w) = Cursor(v)
  BY <1>2 DEF Total, Cursor
<1>4. IsScreen(w)
  BY <1>2, <1>3 DEF Usable, Good, IsScreen
<1>5. Good(w)
  BY <1>2, <1>3, <1>4 DEF Usable, Good, OnScreen
<1> QED
  BY <1>5 DEF w

LEMMA OtherSet ==
  ASSUME NEW v, Good(v), NEW p, ParserOK(p), NEW a
  PROVE  /\ Good([v EXCEPT !.parser = p]) /\ [v EXCEPT !.parser = p].fault = v.fault
         /\ [v EXCEPT !.parser = p].parser = p
         /\ Good([v EXCEPT !.attr = a]) /\ [v EXCEPT !.attr = a].fault = v.fault
<1>1. v = [f \in Fields |-> v[f]]
  BY DEF Good, IsScreen
<1>2. ASSUME NEW w, w \in {[v EXCEPT !.parser = p], [v EXCEPT !.attr = a]}
      PROVE  Good(w) /\ w.fault = v.fault
  <2>1. /\ w = [f \in Fields |-> w[f]] /\ w.parser \in {v.parser, p} /\ w.cols = v.cols
        /\ w.rows = v.rows /\ w.top = v.top /\ w.bot = v.bot /\ w.cells = v.cells
        /\ w.fault = v.fault /\ w.row = v.row /\ w.col = v.col
        /\ w.savedRow = v.savedRow /\ w.savedCol = v.savedCol
    BY <1>1, <1>2 DEF Fields
  <2>2. Total(w) = Total(v) /\ Cursor(w) = Cursor(v)
    BY <2>1 DEF Total, Cursor
  <2>3. IsScreen(w)
    BY <2>1, <2>2 DEF Good, IsScreen
  <2> QED
    BY <2>1, <2>2, <2>3 DEF Good, OnScreen
<1>3. [v EXCEPT !.parser = p].parser = p
  BY <1>1 DEF Fields
<1> QED
  BY <1>2, <1>3

LEMMA UsableHas ==
  ASSUME NEW v, Usable(v)
  PROVE  /\ v.cols \in Nat \ {0} /\ v.rows \in Nat \ {0} /\ v.row \in Nat /\ v.col \in Nat
         /\ v.savedRow \in Nat /\ v.savedCol \in Nat /\ v.top \in Nat
         /\ v.bot \in 0 .. v.rows - 1 /\ v.fault = "none" /\ ParserOK(v.parser)
         /\ Total(v) \in Nat /\ Cursor(v) \in Nat
         /\ ~shrunk => /\ v.row < v.rows /\ v.col <= v.cols
                       /\ v.savedRow < v.rows /\ v.savedCol <= v.cols
<1>1. IsScreen(v) /\ v.cols \in Nat \ {0} /\ v.rows \in Nat \ {0}
  BY SizesAre DEF Usable, Good
<1>2. v.row \in Nat /\ v.col \in Nat
  BY <1>1 DEF IsScreen
<1>3. Total(v) \in Nat /\ Cursor(v) \in Nat
  BY <1>1, <1>2 DEF Total, Cursor
<1> QED
  BY <1>1, <1>3 DEF IsScreen, Usable, Good, OnScreen

LEMMA CursorMoveOK ==
  ASSUME NEW v, Usable(v), NEW row \in Int, NEW col \in Int
  PROVE  Usable(CursorMove(v, row, col))
<1> DEFINE r == IF row < 0 THEN 0 ELSE IF row >= v.rows THEN v.rows - 1 ELSE row
           c == IF col < 0 THEN 0 ELSE IF col >= v.cols THEN v.cols - 1 ELSE col
<1>1. r \in Nat /\ r < v.rows /\ c \in Nat /\ c <= v.cols
  BY UsableHas
<1>2. CursorMove(v, row, col) = [v EXCEPT !.row = r, !.col = c]
  BY DEF CursorMove
<1> HIDE DEF r, c
<1>3. Usable([v EXCEPT !.row = r, !.col = c])
  BY <1>1, CursorSet
<1> QED
  BY <1>2, <1>3

LEMMA ScrollOK ==
  ASSUME NEW v, Usable(v), NEW top, NEW bot, NEW n
  PROVE  Usable(ScrollUp(v, top, bot, n)) /\ Usable(ScrollDown(v, top, bot, n))
<1> DEFINE up == [i \in DOMAIN v.cells |->
                    IF i \notin top * v.cols .. (bot + 1) * v.cols - 1 THEN v.cells[i]
                    ELSE IF i + n * v.cols < (bot + 1) * v.cols THEN v.cells[i + n * v.cols]
                    ELSE Blank]
           down == [i \in DOMAIN v.cells |->
                    IF i \notin top * v.cols .. (bot + 1) * v.cols - 1 THEN v.cells[i]
                    ELSE IF i - n * v.cols >= top * v.cols THEN v.cells[i - n * v.cols]
                    ELSE Blank]
<1>1. /\ ScrollUp(v, top, bot, n) \in {v, [v EXCEPT !.cells = up]}
      /\ ScrollDown(v, top, bot, n) \in {v, [v EXCEPT !.cells = down]}
  BY DEF ScrollUp, ScrollDown
<1>2. up = [i \in DOMAIN v.cells |-> up[i]] /\ down = [i \in DOMAIN v.cells |-> down[i]]
  OBVIOUS
<1> HIDE DEF up, down
<1>3. 0 \in Nat /\ 0 <= v.cols
  BY UsableHas
<1>4. Usable([v EXCEPT !.cells = up]) /\ Usable([v EXCEPT !.cells = down])
  BY <1>2, <1>3, CellsSet
<1> QED
  BY <1>1, <1>4

LEMMA LineFeedOK ==
  ASSUME NEW v, Usable(v)
  PROVE  /\ Usable(LineFeed(v)) /\ Usable(ReverseIndex(v))
         /\ LineFeed(v).cols = v.cols /\ LineFeed(v).col = v.col
<1>1. ScrollUp(v, v.top, v.bot, 1).cols = v.cols /\ ScrollUp(v, v.top, v.bot, 1).col = v.col
  <2>1. v = [f \in Fields |-> v[f]]
    BY DEF Usable, Good, IsScreen
  <2> QED
    BY <2>1 DEF ScrollUp, Fields
<1>2. Usable(ScrollUp(v, v.top, v.bot, 1)) /\ Usable(ScrollDown(v, v.top, v.bot, 1))
  BY ScrollOK
<1>3. v.row < v.bot => /\ Usable([v EXCEPT !.row = @ + 1])
                       /\ [v EXCEPT !.row = @ + 1].cols = v.cols
                       /\ [v EXCEPT !.row = @ + 1].col = v.col
  <2> DEFINE r == v.row + 1
  <2>1. v = [f \in Fields |-> v[f]]
    BY DEF Usable, Good, IsScreen
  <2>2. v.row < v.bot => r \in Nat /\ r < v.rows
    BY UsableHas
  <2>3. v.col \in Nat /\ (~shrunk => v.col <= v.cols)
    BY UsableHas
  <2> HIDE DEF r
  <2>4. v.row < v.bot => Usable([v EXCEPT !.row = r])
    BY <2>2, <2>3, CursorSet
  <2>5. [v EXCEPT !.row = r].cols = v.cols /\ [v EXCEPT !.row = r].col = v.col
    BY <2>1 DEF Fields
  <2> QED
    BY <2>4, <2>5 DEF r
<1>4. v.row > v.top => Usable([v EXCEPT !.row = @ - 1])
  <2> DEFINE r == v.row - 1
  <2>1. v.row > v.top => r \in Nat /\ (~shrunk => r < v.rows)
    BY UsableHas
  <2>2. v.col \in Nat /\ (~shrunk => v.col <= v.cols)
    BY UsableHas
  <2> HIDE DEF r
  <2>3. v.row > v.top => Usable([v EXCEPT !.row = r])
    BY <2>1, <2>2, CursorSet
  <2> QED
    BY <2>3 DEF r
<1> QED
  BY <1>1, <1>2, <1>3, <1>4 DEF LineFeed, ReverseIndex

(* A character is written on the screen: a wrap that was pending is made    *)
(* before.                                                                 *)
LEMMA PutCharOK ==
  ASSUME NEW v, Usable(v), NEW c
  PROVE  Good(PutChar(v, c))
<1> DEFINE w == IF v.col >= v.cols THEN LineFeed([v EXCEPT !.col = 0]) ELSE v
           g == [ch |-> Glyph(c), attr |-> w.attr]
           cells == [w.cells EXCEPT ![Cursor(w)] = g]
           col == w.col + 1
<1>1. Usable(w) /\ w.col < w.cols
  <2>1. CASE v.col >= v.cols
    <3> DEFINE u == [v EXCEPT !.col = 0]
    <3>1. v = [f \in Fields |-> v[f]] /\ v.cols \in Nat \ {0} /\ v.row \in Nat
          /\ (~shrunk => v.row < v.rows)
      BY UsableHas DEF Usable, Good, IsScreen
    <3>2. u.col = 0 /\ u.cols = v.cols
      BY <3>1 DEF Fields
    <3>3. 0 \in Nat /\ 0 <= v.cols
      BY <3>1
    <3>4. Usable(u)
      BY <3>1, <3>3, CursorSet
    <3> HIDE DEF u
    <3>5. Usable(LineFeed(u)) /\ LineFeed(u).cols = u.cols /\ LineFeed(u).col = u.col
      BY <3>4, LineFeedOK
    <3>6. w = LineFeed(u)
      BY <2>1 DEF u
    <3> QED
      BY <3>1, <3>2, <3>5, <3>6
  <2>2. CASE ~(v.col >= v.cols)
    <3>1. w = v /\ v.col \in Nat /\ v.cols \in Nat
      BY <2>2, UsableHas
    <3> QED
      BY <2>2, <3>1
  <2> QED
    BY <2>1, <2>2
<1>2. PutChar(v, c) = IF Cursor(w) >= Total(w) THEN Fault(w, "print")
                      ELSE [w EXCEPT !.cells = cells, !.col = col]
  BY DEF PutChar
<1> HIDE DEF w, g
<1>3. /\ w.cols \in Nat \ {0} /\ w.rows \in Nat \ {0} /\ w.row \in Nat /\ w.col \in Nat
      /\ (~shrunk => w.row < w.rows)
  BY <1>1, UsableHas
<1>4. ~shrunk => ~(Cursor(w) >= Total(w))
  BY <1>1, <1>3, CellPlaces DEF Cursor, Total
<1>5. Cursor(w) >= Total(w) => Good(Fault(w, "print"))
  BY <1>1, <1>4, FaultSet
<1>6. cells = [i \in DOMAIN w.cells |-> cells[i]]
  <2>1. w.cells = [i \in 0 .. Total(w) - 1 |-> w.cells[i]]
    BY <1>1 DEF Usable, Good, IsScreen
  <2> QED
    BY <2>1
<1>7. col \in Nat /\ col <= w.cols
  BY <1>1, <1>3
<1> HIDE DEF cells, col
<1>8. Good([w EXCEPT !.cells = cells, !.col = col])
  BY <1>1, <1>6, <1>7, CellsSet DEF Usable
<1> QED
  BY <1>2, <1>5, <1>8

LEMMA ExecuteOK ==
  ASSUME NEW v, Usable(v), NEW c
  PROVE  Usable(Execute(v, c))
<1>1. /\ v.row \in Nat /\ v.col \in Nat /\ v.cols \in Nat \ {0}
      /\ (~shrunk => v.row < v.rows /\ v.col <= v.cols)
  BY UsableHas
<1>2. ASSUME NEW col \in Nat, ~shrunk => col <= v.cols
      PROVE  Usable([v EXCEPT !.col = col])
  BY <1>1, <1>2, CursorSet
<1>3. Usable([v EXCEPT !.col = IF @ > 0 THEN @ - 1 ELSE @])
  <2> DEFINE col == IF v.col > 0 THEN v.col - 1 ELSE v.col
  <2>1. col \in Nat /\ (~shrunk => col <= v.cols)
    BY <1>1
  <2> HIDE DEF col
  <2>2. Usable([v EXCEPT !.col = col])
    BY <1>2, <2>1
  <2> QED
    BY <2>2 DEF col
<1>4. LET next == (v.col \div 8) * 8 + 8
      IN  Usable([v EXCEPT !.col = IF next < v.cols THEN next ELSE v.cols - 1])
  <2> DEFINE next == (v.col \div 8) * 8 + 8
             col == IF next < v.cols THEN next ELSE v.cols - 1
  <2>1. next \in Nat
    BY <1>1
  <2> HIDE DEF next
  <2>2. col \in Nat /\ col <= v.cols
    BY <1>1, <2>1
  <2> HIDE DEF col
  <2>3. Usable([v EXCEPT !.col = col])
    BY <1>2, <2>2
  <2> QED
    BY <2>3 DEF col, next
<1>5. Usable([v EXCEPT !.col = 0])
  BY <1>1, <1>2
<1>6. Usable(LineFeed(v))
  BY LineFeedOK
<1> QED
  BY <1>3, <1>4, <1>5, <1>6 DEF Execute

LEMMA SavedOK ==
  ASSUME NEW v, Usable(v)
  PROVE  Usable(SaveCursor(v)) /\ Usable(RestoreCursor(v))
BY UsableHas, CursorSet DEF SaveCursor, RestoreCursor

LEMMA EraseOK ==
  ASSUME NEW v, Usable(v), NEW from \in Nat, NEW to \in Nat,
         ~shrunk => (to > Total(v) => Cursor(v) = Total(v))
  PROVE  Good(Erase(v, from, to))
<1> DEFINE cells == [i \in DOMAIN v.cells |-> IF i \in from .. to - 1 THEN Blank
                                              ELSE v.cells[i]]
<1>1. Erase(v, from, to) = IF from < to /\ to > Total(v) THEN Fault(v, "erase")
                           ELSE [v EXCEPT !.cells = cells]
  BY DEF Erase
<1>2. to > Total(v) => Good(Fault(v, "erase"))
  BY FaultSet
<1>3. cells = [i \in DOMAIN v.cells |-> cells[i]]
  OBVIOUS
<1> HIDE DEF cells
<1>4. Good([v EXCEPT !.cells = cells])
  <2>1. v.col \in Nat /\ (~shrunk => v.col <= v.cols)
    BY UsableHas
  <2> QED
    BY <1>3, <2>1, CellsSet DEF Usable
<1> QED
  BY <1>1, <1>2, <1>4

LEMMA EraseModesOK ==
  ASSUME NEW v, Usable(v), NEW mode
  PROVE  Good(EraseInDisplay(v, mode)) /\ Good(EraseInLine(v, mode))
<1>1. /\ v.cols \in Nat \ {0} /\ v.rows \in Nat \ {0} /\ v.row \in Nat /\ v.col \in Nat
      /\ Total(v) \in Nat /\ Cursor(v) \in Nat
      /\ (~shrunk => v.row < v.rows /\ v.col <= v.cols)
  BY UsableHas
<1>2. v.row * v.cols \in Nat /\ Total(v) = v.rows * v.cols
      /\ Cursor(v) = v.row * v.cols + v.col
      /\ (~shrunk => v.row * v.cols + v.cols <= Total(v) /\ Cursor(v) <= Total(v))
  BY <1>1, CellPlaces DEF Total, Cursor
<1> DEFINE row == v.row * v.cols
<1>3. row \in Nat /\ Cursor(v) = row + v.col
      /\ (~shrunk => row + v.cols <= Total(v) /\ Cursor(v) <= Total(v))
  BY <1>2
<1> HIDE DEF row
<1>4. /\ Good(Erase(v, Cursor(v), Total(v))) /\ Good(Erase(v, 0, Total(v)))
      /\ Good(Erase(v, 0, Cursor(v) + 1))
  <2>1. Total(v) > Total(v) => FALSE
    BY <1>1
  <2>2. Cursor(v) + 1 \in Nat /\ (~shrunk => (Cursor(v) + 1 > Total(v) => Cursor(v) = Total(v)))
    BY <1>1, <1>3
  <2> QED
    BY <1>1, <2>1, <2>2, EraseOK
<1>5. /\ Good(Erase(v, row + v.col, row + v.cols)) /\ Good(Erase(v, row, row + v.cols))
      /\ Good(Erase(v, row, row + v.col + 1))
  <2>1. /\ row + v.col \in Nat /\ row + v.cols \in Nat
        /\ (~shrunk => (row + v.cols > Total(v) => Cursor(v) = Total(v)))
    BY <1>1, <1>3
  <2>2. /\ row + v.col + 1 \in Nat
        /\ (~shrunk => (row + v.col + 1 > Total(v) => Cursor(v) = Total(v)))
    BY <1>1, <1>3
  <2> QED
    BY <1>3, <2>1, <2>2, EraseOK
<1>6. Good(v)
  BY DEF Usable
<1>7. Good(EraseInDisplay(v, mode))
  BY <1>4, <1>6 DEF EraseInDisplay
<1>8. Good(EraseInLine(v, mode))
  BY <1>5, <1>6 DEF EraseInLine, row
<1> QED
  BY <1>7, <1>8

LEMMA DeleteOK ==
  ASSUME NEW v, Usable(v), NEW n
  PROVE  Good(DeleteChars(v, n))
<1> DEFINE row == v.row * v.cols
           end == v.cols - n
           cells == [i \in DOMAIN v.cells |->
                        CASE i \in row + v.col .. row + end - 1  -> v.cells[i + n]
                          [] i \in row + end .. row + v.cols - 1 ->
                                 [v.cells[i] EXCEPT !.ch = Space]
                          [] OTHER                               -> v.cells[i]]
<1>1. DeleteChars(v, n) = IF end < v.col \/ row + v.cols > Total(v) THEN Fault(v, "delete")
                          ELSE [v EXCEPT !.cells = cells]
  BY DEF DeleteChars
<1>2. Good(Fault(v, "delete"))
  BY FaultSet
<1>3. cells = [i \in DOMAIN v.cells |-> cells[i]]
  OBVIOUS
<1> HIDE DEF cells
<1>4. Good([v EXCEPT !.cells = cells])
  <2>1. v.col \in Nat /\ (~shrunk => v.col <= v.cols)
    BY UsableHas
  <2> QED
    BY <1>3, <2>1, CellsSet DEF Usable
<1> QED
  BY <1>1, <1>2, <1>4

LEMMA RegionOK ==
  ASSUME NEW v, Usable(v), NEW p0 \in Nat \ {0}, NEW p1 \in Nat \ {0}
  PROVE  Usable(SetScrollRegion(v, p0, p1))
<1> DEFINE top == p0 - 1
           bot == IF p1 - 1 >= v.rows THEN v.rows - 1 ELSE p1 - 1
           w == [v EXCEPT !.top = top, !.bot = bot]
<1>1. SetScrollRegion(v, p0, p1) = CursorMove(w, 0, 0)
  BY DEF SetScrollRegion
<1>2. top \in Nat /\ bot \in 0 .. v.rows - 1
  BY UsableHas
<1>3. v = [f \in Fields |-> v[f]]
  BY DEF Usable, Good, IsScreen
<1> HIDE DEF top, bot
<1>4. /\ w = [f \in Fields |-> w[f]] /\ w.parser = v.parser /\ w.cols = v.cols
      /\ w.rows = v.rows /\ w.top = top /\ w.bot = bot /\ w.cells = v.cells
      /\ w.fault = v.fault /\ w.row = v.row /\ w.col = v.col
      /\ w.savedRow = v.savedRow /\ w.savedCol = v.savedCol
  BY <1>3 DEF Fields
<1> HIDE DEF w
<1>5. Total(w) = Total(v) /\ Cursor(w) = Cursor(v)
  BY <1>4 DEF Total, Cursor
<1>6. IsScreen(w)
  BY <1>2, <1>4, <1>5 DEF Usable, Good, IsScreen
<1>7. Usable(w)
  BY <1>4, <1>6 DEF Usable, Good, OnScreen
<1> QED
  BY <1>1, <1>7, CursorMoveOK

LEMMA CsiOK ==
  ASSUME NEW v, Usable(v), NEW final
  PROVE  Good(HandleCsi(v, final))
<1> DEFINE p0 == GetParam(v.parser, 1, 1)
           p1 == GetParam(v.parser, 2, 1)
           mode == GetParam(v.parser, 1, 0)
           attr == Sgr(v.attr, v.parser.params)
<1>1. p0 \in Nat \ {0} /\ p1 \in Nat \ {0} /\ v.row \in Nat /\ v.col \in Nat
  BY UsableHas, ParamIs
<1> HIDE DEF p0, p1, mode, attr
<1>2. \A r, c \in Int : Good(CursorMove(v, r, c))
  BY CursorMoveOK DEF Usable
<1>3. /\ Good(CursorMove(v, v.row - p0, v.col)) /\ Good(CursorMove(v, v.row + p0, v.col))
      /\ Good(CursorMove(v, v.row, v.col + p0)) /\ Good(CursorMove(v, v.row, v.col - p0))
      /\ Good(CursorMove(v, v.row + p0, 0)) /\ Good(CursorMove(v, v.row - p0, 0))
      /\ Good(CursorMove(v, v.row, p0 - 1)) /\ Good(CursorMove(v, p0 - 1, p1 - 1))
      /\ Good(CursorMove(v, p0 - 1, v.col))
  BY <1>1, <1>2
<1>4. Good(EraseInDisplay(v, mode)) /\ Good(EraseInLine(v, mode)) /\ Good(DeleteChars(v, p0))
  BY EraseModesOK, DeleteOK
<1>5. /\ Good(ScrollUp(v, v.row, v.bot, p0)) /\ Good(ScrollDown(v, v.row, v.bot, p0))
      /\ Good(ScrollUp(v, v.top, v.bot, p0)) /\ Good(ScrollDown(v, v.top, v.bot, p0))
  BY ScrollOK DEF Usable
<1>6. Good(SetScrollRegion(v, p0, p1)) /\ Good(SaveCursor(v)) /\ Good(RestoreCursor(v))
  BY <1>1, RegionOK, SavedOK DEF Usable
<1>7. Good(v) /\ Good([v EXCEPT !.attr = attr])
  BY UsableHas, OtherSet DEF Usable
<1> QED
  BY <1>3, <1>4, <1>5, <1>6, <1>7 DEF HandleCsi, p0, p1, mode, attr

LEMMA EscOK ==
  ASSUME NEW v, Usable(v), NEW c
  PROVE  Good(HandleEsc(v, c))
BY SavedOK, LineFeedOK DEF HandleEsc, Usable

LEMMA ByteIs ==
  ASSUME NEW v, NEW c \in Nat
  PROVE  LET step == ParserFeed(v.parser, c)
             w == [v EXCEPT !.parser = step.parser]
             x == CASE step.action = "PRINT"        -> PutChar(w, c)
                    [] step.action = "EXECUTE"      -> Execute(w, c)
                    [] step.action = "CSI_DISPATCH" -> HandleCsi(w, c)
                    [] step.action = "ESC_DISPATCH" -> HandleEsc(w, c)
                    [] OTHER                        -> w
         IN  FeedByte(v, c) = IF v.fault # "none" THEN v
                              ELSE [x EXCEPT !.parser = Settled(x.parser)]
BY DEF FeedByte

LEMMA ByteOK ==
  ASSUME NEW v, Good(v), NEW c \in Nat
  PROVE  Good(FeedByte(v, c))
<1> SUFFICES ASSUME v.fault = "none" PROVE Good(FeedByte(v, c))
  BY DEF FeedByte
<1> DEFINE step == ParserFeed(v.parser, c)
           w == [v EXCEPT !.parser = step.parser]
           x == CASE step.action = "PRINT"        -> PutChar(w, c)
                  [] step.action = "EXECUTE"      -> Execute(w, c)
                  [] step.action = "CSI_DISPATCH" -> HandleCsi(w, c)
                  [] step.action = "ESC_DISPATCH" -> HandleEsc(w, c)
                  [] OTHER                        -> w
<1>1. FeedByte(v, c) = [x EXCEPT !.parser = Settled(x.parser)]
  BY DEF FeedByte
<1>2. ParserOK(step.parser)
  BY ParserStep DEF Good, IsScreen
<1> HIDE DEF step
<1>3. Usable(w)
  BY <1>2, OtherSet DEF Usable
<1> HIDE DEF w
<1>4. /\ Good(PutChar(w, c)) /\ Good(Execute(w, c)) /\ Good(HandleCsi(w, c))
      /\ Good(HandleEsc(w, c)) /\ Good(w)
  BY <1>3, PutCharOK, ExecuteOK, CsiOK, EscOK DEF Usable
<1>5. Good(x)
  BY <1>4
<1> HIDE DEF x
<1>6. ParserOK(Settled(x.parser))
  BY <1>5, SettledOK DEF Good, IsScreen
<1>7. Good([x EXCEPT !.parser = Settled(x.parser)])
  <2> DEFINE p == Settled(x.parser)
  <2> HIDE DEF p
  <2>1. ParserOK(p)
    BY <1>6 DEF p
  <2>2. Good([x EXCEPT !.parser = p])
    BY <1>5, <2>1, OtherSet
  <2> QED
    BY <2>2 DEF p
<1> QED
  BY <1>1, <1>7

Feeding == INSTANCE FoldFacts WITH Step <- FeedByte, Good <- Good

LEMMA BytesOK ==
  ASSUME NEW v, Good(v), NEW bytes \in Seq(Nat)
  PROVE  Good(FeedBytes(v, bytes))
<1>1. \A u : \A c \in Nat : Good(u) => Good(FeedByte(u, c))
  BY ByteOK
<1>2. Good(Feeding!Folded(v, bytes))
  BY <1>1, Feeding!FoldedKeeps
<1>3. Feeding!Folded(v, bytes) = FeedBytes(v, bytes)
  BY DEF Feeding!Folded, FeedBytes, FoldLeft, Feeding!FoldLeft, MapThenFoldSet,
         Feeding!MapThenFoldSet, Max, Feeding!Max
<1> QED
  BY <1>2, <1>3

-----------------------------------------------------------------------------
(* The invariant, and the operations that set the size. *)
VtInv == Good(vt) /\ shrunk \in BOOLEAN

LEMMA NewScreenOK ==
  ASSUME NEW cols, NEW rows, <<cols, rows>> \in Size
  PROVE  /\ IsScreen(NewScreen(cols, rows)) /\ OnScreen(NewScreen(cols, rows))
<1> DEFINE v == NewScreen(cols, rows)
           cells == [i \in 0 .. rows * cols - 1 |-> Blank]
<1>1. cols \in Nat \ {0} /\ rows \in Nat \ {0}
  BY SizeAssumption
<1>2. cells = [i \in 0 .. rows * cols - 1 |-> cells[i]]
  OBVIOUS
<1>3. /\ v = [f \in Fields |-> v[f]] /\ v.parser = InitialParser /\ v.cols = cols
      /\ v.rows = rows /\ v.top = 0 /\ v.bot = rows - 1 /\ v.cells = cells
      /\ v.fault = "none" /\ v.row = 0 /\ v.col = 0 /\ v.savedRow = 0 /\ v.savedCol = 0
  BY DEF NewScreen, Fields
<1> HIDE DEF cells, v
<1>4. ParserOK(InitialParser)
  <2>1. <<>> \in Seq(Nat) /\ Len(<<>>) = 0
    BY EmptySeq
  <2> QED
    BY <2>1, ParserAssumption DEF ParserOK, ParserType, ParserState, InitialParser
<1>5. v.cells = [i \in 0 .. Total(v) - 1 |-> v.cells[i]]
  BY <1>2, <1>3 DEF Total
<1>6. IsScreen(v)
  BY <1>1, <1>3, <1>4, <1>5 DEF IsScreen
<1>7. OnScreen(v)
  BY <1>1, <1>3 DEF OnScreen
<1> QED
  BY <1>6, <1>7 DEF v

LEMMA VtInit == Init => VtInv
<1> SUFFICES ASSUME NEW s \in Size, vt = NewScreen(s[1], s[2]), shrunk = FALSE
             PROVE  VtInv
  BY DEF Init
<1>1. s = <<s[1], s[2]>>
  BY SizeAssumption
<1>2. IsScreen(vt)
  BY <1>1, NewScreenOK
<1>3. OnScreen(vt)
  BY <1>1, NewScreenOK
<1> QED
  BY <1>2, <1>3 DEF VtInv, Good

LEMMA VtFeed ==
  ASSUME VtInv, NEW bytes \in Chunk, Feed(bytes)
  PROVE  VtInv'
<1>1. bytes \in Seq(0 .. 255)
  BY ChunkAssumption
<1>2. bytes \in Seq(Nat)
  <2>1. Len(bytes) \in Nat /\ bytes = [i \in 1 .. Len(bytes) |-> bytes[i]]
        /\ \A i \in 1 .. Len(bytes) : bytes[i] \in 0 .. 255
    BY <1>1, LenProperties, ElementOfSeq
  <2>2. \A i \in 1 .. Len(bytes) : bytes[i] \in Nat
    <3>1. \A n \in 0 .. 255 : n \in Nat
      OBVIOUS
    <3>2. \A i \in 1 .. Len(bytes) : bytes[i] \in 0 .. 255
      BY <2>1
    <3> QED
      BY <3>1, <3>2, Zenon
  <2> QED
    BY <2>1, <2>2, IsASeq
<1>3. Good(FeedBytes(vt, bytes))
  BY <1>2, BytesOK DEF VtInv
<1> DEFINE w == FeedBytes(vt, bytes)
<1>4. vt' = w /\ shrunk' = shrunk
  BY DEF Feed
<1>5. Good(w)
  BY <1>3
<1> HIDE DEF w
<1> QED
  BY <1>4, <1>5 DEF VtInv, Good, IsScreen, OnScreen, Total, Cursor

LEMMA VtResize ==
  ASSUME VtInv, NEW cols, NEW rows, <<cols, rows>> \in Size, Resize(cols, rows)
  PROVE  VtInv'
<1> DEFINE cells == ResizedCells(vt, cols, rows)
           w == [vt EXCEPT !.cells = cells, !.cols = cols, !.rows = rows,
                           !.row = IF @ >= rows THEN rows - 1 ELSE @,
                           !.col = IF @ >= cols THEN cols - 1 ELSE @,
                           !.top = 0, !.bot = rows - 1]
<1>1. IsScreen(vt) /\ vt.fault = "none" /\ cols \in Nat \ {0} /\ rows \in Nat \ {0}
  BY SizeAssumption DEF VtInv, Good, Resize
<1>2. cells = [i \in 0 .. rows * cols - 1 |-> cells[i]]
  BY DEF ResizedCells
<1> HIDE DEF cells
<1>3. vt = [f \in Fields |-> vt[f]]
  BY <1>1 DEF IsScreen
<1>4. /\ w = [f \in Fields |-> w[f]] /\ w.parser = vt.parser /\ w.cols = cols
      /\ w.rows = rows /\ w.top = 0 /\ w.bot = rows - 1 /\ w.cells = cells
      /\ w.fault = vt.fault
      /\ w.row = (IF vt.row >= rows THEN rows - 1 ELSE vt.row)
      /\ w.col = (IF vt.col >= cols THEN cols - 1 ELSE vt.col)
      /\ w.savedRow = vt.savedRow /\ w.savedCol = vt.savedCol
  BY <1>3 DEF Fields
<1>5. vt' = w /\ shrunk' = (shrunk \/ cols < vt.cols \/ rows < vt.rows)
  BY DEF Resize, cells
<1> HIDE DEF w
<1>6. w.cells = [i \in 0 .. Total(w) - 1 |-> w.cells[i]]
  BY <1>2, <1>4 DEF Total
<1>7. vt.row \in Nat /\ vt.col \in Nat /\ vt.savedRow \in Nat /\ vt.savedCol \in Nat
      /\ ParserOK(vt.parser) /\ vt.cols \in Nat /\ vt.rows \in Nat
  BY <1>1, SizesAre DEF IsScreen
<1>8. w.row \in 0 .. rows - 1 /\ w.col \in 0 .. cols - 1
  BY <1>1, <1>4, <1>7
<1>9. IsScreen(w)
  <2>1. /\ w.row \in Nat /\ w.col \in Nat /\ w.savedRow \in Nat /\ w.savedCol \in Nat
        /\ w.top \in Nat /\ w.bot \in 0 .. w.rows - 1 /\ ParserOK(w.parser)
    BY <1>1, <1>4, <1>7, <1>8
  <2>2. <<w.cols, w.rows>> \in Size /\ w.fault = "none" /\ w = [f \in Fields |-> w[f]]
    BY <1>1, <1>4
  <2> QED
    BY <1>6, <2>1, <2>2 DEF IsScreen
<1>10. ~shrunk' => OnScreen(w)
  <2> SUFFICES ASSUME ~shrunk' PROVE OnScreen(w)
    OBVIOUS
  <2>0. ~shrunk /\ ~(cols < vt.cols) /\ ~(rows < vt.rows)
    BY <1>5, Zenon
  <2>1. ~shrunk /\ cols >= vt.cols /\ rows >= vt.rows
    BY <1>1, <1>7, <2>0
  <2>2. OnScreen(vt)
    BY <2>1 DEF VtInv, Good
  <2>3. vt.savedRow < vt.rows /\ vt.savedCol <= vt.cols
    BY <2>2 DEF OnScreen
  <2>4. w.savedRow < w.rows /\ w.savedCol <= w.cols /\ w.row < w.rows /\ w.col <= w.cols
    BY <1>1, <1>4, <1>7, <1>8, <2>1, <2>3
  <2> QED
    BY <1>1, <1>4, <2>4 DEF OnScreen
<1>11. shrunk' \in BOOLEAN
  BY <1>5 DEF VtInv
<1> QED
  BY <1>5, <1>9, <1>10, <1>11 DEF VtInv, Good, IsScreen, OnScreen, Total, Cursor

LEMMA VtReinit ==
  ASSUME NEW cols, NEW rows, <<cols, rows>> \in Size, Reinit(cols, rows)
  PROVE  VtInv'
<1> DEFINE w == NewScreen(cols, rows)
<1>1. vt' = w /\ shrunk' = FALSE
  BY DEF Reinit
<1>2. IsScreen(w) /\ OnScreen(w)
  BY NewScreenOK
<1> HIDE DEF w
<1> QED
  BY <1>1, <1>2 DEF VtInv, Good, IsScreen, OnScreen, Total, Cursor

LEMMA VtStep == VtInv /\ [Next]_vars => VtInv'
<1> SUFFICES ASSUME VtInv, [Next]_vars PROVE VtInv'
  OBVIOUS
<1>1. CASE \E bytes \in Chunk : Feed(bytes)
  BY <1>1, VtFeed
<1>2. CASE \E s \in Size : Resize(s[1], s[2]) \/ Reinit(s[1], s[2])
  <2>1. PICK s \in Size : Resize(s[1], s[2]) \/ Reinit(s[1], s[2])
    BY <1>2
  <2>2. <<s[1], s[2]>> \in Size
    BY SizeAssumption
  <2> QED
    BY <2>1, <2>2, VtResize, VtReinit
<1>3. CASE UNCHANGED vars
  BY <1>3 DEF vars, VtInv, Good, IsScreen, OnScreen, Total, Cursor
<1> QED
  BY <1>1, <1>2, <1>3 DEF Next

THEOREM ScreenInvariant == Spec => []VtInv
BY VtInit, VtStep, PTL DEF Spec

(* The types, for any sizes, any bytes and any bounds of the parser. *)
THEOREM ScreenTypeCorrect == Spec => []TypeOK
<1>1. VtInv => TypeOK
  <2> SUFFICES ASSUME VtInv PROVE TypeOK
    OBVIOUS
  <2>1. IsScreen(vt) /\ shrunk \in BOOLEAN
    BY DEF VtInv, Good
  <2>2. DOMAIN vt.cells = 0 .. Total(vt) - 1
    BY <2>1 DEF IsScreen
  <2> QED
    BY <2>1, <2>2 DEF TypeOK, IsScreen, ParserOK, ParserType
<1> QED
  BY <1>1, ScreenInvariant, PTL

(* As long as no resize has made the screen smaller, no character is        *)
(* written outside the cells, and no erase goes further than the one cell   *)
(* behind a last row whose wrap is pending.                                 *)
THEOREM WritesAreOnScreen == Spec => []WritesStayOnScreen
<1>1. VtInv => WritesStayOnScreen
  BY DEF VtInv, Good, OnScreen, WritesStayOnScreen
<1> QED
  BY <1>1, ScreenInvariant, PTL

-----------------------------------------------------------------------------
(* What a resize keeps. *)
LEMMA DivMod ==
  ASSUME NEW n \in Nat \ {0}, NEW i \in Nat
  PROVE  i \div n \in Nat /\ i % n \in 0 .. n - 1 /\ i = (i \div n) * n + (i % n)
<1>1. i % n \in 0 .. n - 1
  OBVIOUS
<1>2. i = (i \div n) * n + (i % n)
  OBVIOUS
<1>3. i \div n \in Nat
  OBVIOUS
<1> QED
  BY <1>1, <1>2, <1>3

LEMMA DivUnique ==
  ASSUME NEW n \in Nat \ {0}, NEW r \in Nat, NEW c \in 0 .. n - 1
  PROVE  (r * n + c) \div n = r /\ (r * n + c) % n = c
<1>1. (r * n + c) \div n = r
  OBVIOUS
<1>2. (r * n + c) % n = c
  OBVIOUS
<1> QED
  BY <1>1, <1>2

(* The cell at a place of the new array. *)
LEMMA ResizedAt ==
  ASSUME NEW v, NEW cols \in Nat \ {0}, NEW rows \in Nat \ {0},
         NEW r \in Nat, r < rows, NEW c \in 0 .. cols - 1
  PROVE  ResizedCells(v, cols, rows)[r * cols + c] =
             IF r < v.rows /\ c < v.cols THEN v.cells[r * v.cols + c] ELSE Blank
<1> DEFINE i == r * cols + c
<1>1. i \in 0 .. rows * cols - 1
  <2>1. r * cols \in Nat /\ rows * cols \in Nat
    OBVIOUS
  <2>2. c \in Nat /\ c < cols
    OBVIOUS
  <2>3. r * cols + c < rows * cols
    BY <2>2, CellPlaces
  <2> QED
    BY <2>1, <2>2, <2>3
<1>2. i \div cols = r /\ i % cols = c
  BY DivUnique
<1> HIDE DEF i
<1>3. ResizedCells(v, cols, rows)[i] =
          IF i \div cols < v.rows /\ i % cols < v.cols
          THEN v.cells[(i \div cols) * v.cols + (i % cols)] ELSE Blank
  BY <1>1 DEF ResizedCells
<1> QED
  BY <1>2, <1>3 DEF i

(* Every row keeps its text in its row, as far as it fits, and a larger     *)
(* screen made as it was before has every cell again: for any screen, not   *)
(* only those a sequence of calls leads to.                                 *)
THEOREM ResizeIsByRows == Spec => []ResizeKeepsRows
<1>1. VtInv => ResizeKeepsRows
  <2> SUFFICES ASSUME VtInv, NEW s \in Size
      PROVE  LET w == [vt EXCEPT !.cols = s[1], !.rows = s[2],
                                 !.cells = ResizedCells(vt, s[1], s[2])]
             IN  /\ \A r \in 0 .. vt.rows - 1, c \in 0 .. vt.cols - 1 :
                      r < w.rows /\ c < w.cols => Line(w, r)[c] = Line(vt, r)[c]
                 /\ s[1] >= vt.cols /\ s[2] >= vt.rows =>
                      ResizedCells(w, vt.cols, vt.rows) = vt.cells
    BY DEF ResizeKeepsRows
  <2> DEFINE cols == s[1]
             rows == s[2]
             cells == ResizedCells(vt, cols, rows)
             w == [vt EXCEPT !.cols = cols, !.rows = rows, !.cells = cells]
  <2>1. cols \in Nat \ {0} /\ rows \in Nat \ {0}
    BY SizeAssumption
  <2>2. IsScreen(vt) /\ vt.cols \in Nat \ {0} /\ vt.rows \in Nat \ {0}
    BY SizesAre DEF VtInv, Good
  <2>3. vt = [f \in Fields |-> vt[f]]
    BY <2>2 DEF IsScreen
  <2> HIDE DEF cols, rows
  <2>4. \A r \in Nat : \A c \in 0 .. cols - 1 : r < rows =>
            cells[r * cols + c] =
                IF r < vt.rows /\ c < vt.cols THEN vt.cells[r * vt.cols + c] ELSE Blank
    BY <2>1, ResizedAt
  <2> HIDE DEF cells
  <2>5. w.cols = cols /\ w.rows = rows /\ w.cells = cells
    BY <2>3 DEF Fields
  <2> HIDE DEF w
  <2>6. ASSUME NEW r \in 0 .. vt.rows - 1, NEW c \in 0 .. vt.cols - 1,
               r < w.rows, c < w.cols
        PROVE  Line(w, r)[c] = Line(vt, r)[c]
    <3>1. r \in Nat /\ r < rows /\ c \in 0 .. cols - 1 /\ r < vt.rows /\ c < vt.cols
      BY <2>1, <2>2, <2>5, <2>6
    <3>2. cells[r * cols + c] = vt.cells[r * vt.cols + c]
      BY <2>4, <3>1
    <3>3. Line(w, r)[c] = cells[r * cols + c]
      BY <2>5, <3>1 DEF Line
    <3>4. Line(vt, r)[c] = vt.cells[r * vt.cols + c]
      BY DEF Line
    <3> QED
      BY <3>2, <3>3, <3>4
  <2>7. ASSUME cols >= vt.cols, rows >= vt.rows
        PROVE  ResizedCells(w, vt.cols, vt.rows) = vt.cells
    <3> DEFINE n == vt.cols
               back == ResizedCells(w, n, vt.rows)
    <3>0. \A r \in Nat : \A c \in 0 .. n - 1 : r < vt.rows =>
              back[r * n + c] = IF r < w.rows /\ c < w.cols THEN w.cells[r * w.cols + c]
                                ELSE Blank
      <4> DEFINE m == vt.rows
      <4>1. n \in Nat \ {0} /\ m \in Nat \ {0}
        BY <2>2
      <4> HIDE DEF n, m
      <4>2. \A r \in Nat : \A c \in 0 .. n - 1 : r < m =>
                ResizedCells(w, n, m)[r * n + c] =
                    IF r < w.rows /\ c < w.cols THEN w.cells[r * w.cols + c] ELSE Blank
        BY <4>1, ResizedAt
      <4> QED
        BY <4>2 DEF m
    <3>1. vt.cells = [i \in 0 .. vt.rows * n - 1 |-> vt.cells[i]]
      BY <2>2 DEF IsScreen, Total
    <3>2. back = [i \in 0 .. vt.rows * n - 1 |-> back[i]]
      BY DEF ResizedCells
    <3>3. ASSUME NEW i \in 0 .. vt.rows * n - 1
          PROVE  back[i] = vt.cells[i]
      <4> DEFINE r == i \div n
                 c == i % n
      <4>1. n \in Nat \ {0} /\ i \in Nat /\ vt.rows \in Nat \ {0}
        BY <2>2
      <4>2. r \in Nat /\ c \in 0 .. n - 1 /\ i = r * n + c
        BY <4>1, DivMod
      <4>3. i < vt.rows * n
        <5>1. vt.rows * n \in Nat
          BY <4>1
        <5> QED
          BY <5>1
      <4> HIDE DEF r, c, n
      <4>4. r < vt.rows
        <5> SUFFICES ASSUME r >= vt.rows PROVE FALSE
          BY <4>1, <4>2
        <5>1. (r - vt.rows) * n \in Nat
          <6>1. r - vt.rows \in Nat
            BY <4>1, <4>2
          <6> QED
            BY <4>1, <6>1
        <5>2. r * n = (r - vt.rows) * n + vt.rows * n /\ vt.rows * n \in Nat
          BY <4>1, <4>2
        <5>3. i >= vt.rows * n
          BY <4>1, <4>2, <5>1, <5>2
        <5> QED
          BY <4>1, <4>3, <5>2, <5>3
      <4>5. r < rows /\ c < cols /\ c \in 0 .. cols - 1 /\ c < n
        BY <2>1, <2>2, <2>7, <4>1, <4>2, <4>4 DEF n
      <4>6. back[r * n + c] = IF r < w.rows /\ c < w.cols THEN w.cells[r * w.cols + c]
                              ELSE Blank
        BY <3>0, <4>2, <4>4
      <4>7. back[i] = cells[r * cols + c]
        BY <2>5, <4>2, <4>5, <4>6
      <4> QED
        BY <2>4, <4>2, <4>4, <4>5, <4>7 DEF n
    <3> HIDE DEF back
    <3>4. back = vt.cells
      BY <3>1, <3>2, <3>3
    <3> QED
      BY <3>4 DEF back
  <2> QED
    BY <2>5, <2>6, <2>7 DEF w, cells, cols, rows
<1> QED
  BY <1>1, ScreenInvariant, PTL

-----------------------------------------------------------------------------
(* What a whole control sequence with one digit does. *)
LEMMA FeedAppend ==
  ASSUME NEW v, NEW bytes \in Seq(Nat), NEW c \in Nat
  PROVE  /\ FeedBytes(v, Append(bytes, c)) = FeedByte(FeedBytes(v, bytes), c)
         /\ FeedBytes(v, <<>>) = v
<1>1. \A w, s : Feeding!Folded(w, s) = FeedBytes(w, s)
  BY DEF Feeding!Folded, FeedBytes, FoldLeft, Feeding!FoldLeft, MapThenFoldSet,
         Feeding!MapThenFoldSet, Max, Feeding!Max
<1>2. Feeding!Folded(v, Append(bytes, c)) = FeedByte(Feeding!Folded(v, bytes), c)
  BY Feeding!FoldedAppend
<1>3. Feeding!Folded(v, <<>>) = v
  BY Feeding!FoldedEmpty
<1> QED
  BY <1>1, <1>2, <1>3

LEMMA ConcatAppend ==
  ASSUME NEW S, NEW s \in Seq(S), NEW t \in Seq(S), NEW e \in S
  PROVE  s \o Append(t, e) = Append(s \o t, e)
<1>1. Append(t, e) = t \o <<e>> /\ Append(s \o t, e) = (s \o t) \o <<e>>
  BY AppendIsConcat, ConcatProperties
<1>2. <<e>> \in Seq(S)
  OBVIOUS
<1> QED
  BY <1>1, <1>2, ConcatAssociative

LEMMA Tuples ==
  ASSUME NEW a \in Nat, NEW b \in Nat, NEW c \in Nat, NEW d \in Nat
  PROVE  /\ Append(<<>>, a) = <<a>> /\ Append(<<a>>, b) = <<a, b>>
         /\ Append(<<a, b>>, c) = <<a, b, c>> /\ Append(<<a, b, c>>, d) = <<a, b, c, d>>
<1>1. /\ <<>> \in Seq(Nat) /\ <<a>> \in Seq(Nat) /\ <<a, b>> \in Seq(Nat)
      /\ <<a, b, c>> \in Seq(Nat) /\ <<a, b, c, d>> \in Seq(Nat)
  OBVIOUS
<1>2. Append(<<>>, a) = <<a>>
  OBVIOUS
<1>3. Append(<<a>>, b) = <<a, b>>
  <2> DEFINE s == Append(<<a>>, b)
             t == <<a, b>>
  <2>1. s \in Seq(Nat) /\ t \in Seq(Nat) /\ Len(s) = 2 /\ Len(t) = 2
    BY <1>1, AppendProperties
  <2>2. s[1] = t[1] /\ s[2] = t[2]
    BY <1>1, AppendProperties
  <2> HIDE DEF s, t
  <2>3. \A i \in 1 .. 2 : s[i] = t[i]
    BY <2>2
  <2>4. s = t
    BY <2>1, <2>3, SeqEqual
  <2> QED
    BY <2>4 DEF s, t
<1>4. Append(<<a, b>>, c) = <<a, b, c>>
  <2> DEFINE s == Append(<<a, b>>, c)
             t == <<a, b, c>>
  <2>1. s \in Seq(Nat) /\ t \in Seq(Nat) /\ Len(s) = 3 /\ Len(t) = 3
    BY <1>1, AppendProperties
  <2>2. s[1] = t[1] /\ s[2] = t[2] /\ s[3] = t[3]
    BY <1>1, AppendProperties
  <2> HIDE DEF s, t
  <2>3. \A i \in 1 .. 3 : s[i] = t[i]
    BY <2>2
  <2>4. s = t
    BY <2>1, <2>3, SeqEqual
  <2> QED
    BY <2>4 DEF s, t
<1>5. Append(<<a, b, c>>, d) = <<a, b, c, d>>
  <2> DEFINE s == Append(<<a, b, c>>, d)
             t == <<a, b, c, d>>
  <2>1. s \in Seq(Nat) /\ t \in Seq(Nat) /\ Len(s) = 4 /\ Len(t) = 4
    BY <1>1, AppendProperties
  <2>2. s[1] = t[1] /\ s[2] = t[2] /\ s[3] = t[3] /\ s[4] = t[4]
    BY <1>1, AppendProperties
  <2> HIDE DEF s, t
  <2>3. \A i \in 1 .. 4 : s[i] = t[i]
    BY <2>2
  <2>4. s = t
    BY <2>1, <2>3, SeqEqual
  <2> QED
    BY <2>4 DEF s, t
<1> QED
  BY <1>2, <1>3, <1>4, <1>5

LEMMA FourBytes ==
  ASSUME NEW a \in Nat, NEW b \in Nat, NEW c \in Nat, NEW d \in Nat
  PROVE  <<a, b>> \o <<c>> \o <<d>> = <<a, b, c, d>> /\ <<a, b, c, d>> \in Seq(Nat)
<1>1. <<a, b>> \in Seq(Nat) /\ <<a, b, c>> \in Seq(Nat)
  OBVIOUS
<1>2. <<a, b>> \o <<c>> = Append(<<a, b>>, c)
      /\ <<a, b, c>> \o <<d>> = Append(<<a, b, c>>, d)
  BY <1>1, AppendIsConcat
<1>3. /\ Append(<<>>, a) = <<a>> /\ Append(<<a>>, b) = <<a, b>>
      /\ Append(<<a, b>>, c) = <<a, b, c>> /\ Append(<<a, b, c>>, d) = <<a, b, c, d>>
  BY Tuples
<1>4. <<a, b, c, d>> \in Seq(Nat)
  OBVIOUS
<1> QED
  BY <1>2, <1>3, <1>4

LEMMA FeedFour ==
  ASSUME NEW v, NEW bytes \in Seq(Nat), NEW a \in Nat, NEW b \in Nat, NEW c \in Nat,
         NEW d \in Nat
  PROVE  FeedBytes(v, bytes \o <<a, b, c, d>>) =
             FeedByte(FeedByte(FeedByte(FeedByte(FeedBytes(v, bytes), a), b), c), d)
<1> DEFINE s1 == Append(bytes, a)
           s2 == Append(s1, b)
           s3 == Append(s2, c)
           s4 == Append(s3, d)
<1>1. s1 \in Seq(Nat) /\ s2 \in Seq(Nat) /\ s3 \in Seq(Nat)
  BY AppendProperties
<1>2. s4 = bytes \o <<a, b, c, d>>
  <2>1. /\ <<>> \in Seq(Nat) /\ <<a>> \in Seq(Nat) /\ <<a, b>> \in Seq(Nat)
        /\ <<a, b, c>> \in Seq(Nat) /\ bytes \o <<>> = bytes
    BY ConcatEmptySeq
  <2>2. /\ bytes \o Append(<<>>, a) = Append(bytes \o <<>>, a)
        /\ bytes \o Append(<<a>>, b) = Append(bytes \o <<a>>, b)
        /\ bytes \o Append(<<a, b>>, c) = Append(bytes \o <<a, b>>, c)
        /\ bytes \o Append(<<a, b, c>>, d) = Append(bytes \o <<a, b, c>>, d)
    BY <2>1, ConcatAppend, SMTT(30)
  <2>3. /\ Append(<<>>, a) = <<a>> /\ Append(<<a>>, b) = <<a, b>>
        /\ Append(<<a, b>>, c) = <<a, b, c>> /\ Append(<<a, b, c>>, d) = <<a, b, c, d>>
    BY Tuples
  <2>4. s1 = bytes \o <<a>>
    BY <2>1, <2>2, <2>3
  <2> HIDE DEF s1
  <2>5. s2 = bytes \o <<a, b>>
    BY <2>2, <2>3, <2>4
  <2> HIDE DEF s2
  <2>6. s3 = bytes \o <<a, b, c>>
    BY <2>2, <2>3, <2>5
  <2> HIDE DEF s3
  <2> QED
    BY <2>2, <2>3, <2>6
<1>3. /\ FeedBytes(v, s1) = FeedByte(FeedBytes(v, bytes), a)
      /\ FeedBytes(v, s2) = FeedByte(FeedBytes(v, s1), b)
      /\ FeedBytes(v, s3) = FeedByte(FeedBytes(v, s2), c)
      /\ FeedBytes(v, s4) = FeedByte(FeedBytes(v, s3), d)
  <2> HIDE DEF s1, s2, s3
  <2>1. FeedBytes(v, Append(s1, b)) = FeedByte(FeedBytes(v, s1), b)
    BY <1>1, FeedAppend
  <2>2. FeedBytes(v, Append(s2, c)) = FeedByte(FeedBytes(v, s2), c)
    BY <1>1, FeedAppend
  <2>3. FeedBytes(v, Append(s3, d)) = FeedByte(FeedBytes(v, s3), d)
    BY <1>1, FeedAppend
  <2>4. FeedBytes(v, Append(bytes, a)) = FeedByte(FeedBytes(v, bytes), a)
    BY FeedAppend
  <2> QED
    BY <2>1, <2>2, <2>3, <2>4 DEF s1, s2, s3
<1> HIDE DEF s1, s2, s3, s4
<1> QED
  BY <1>2, <1>3

LEMMA CsiBytes ==
  ASSUME NEW d \in Nat, NEW f \in Nat
  PROVE  Csi(<<d>>, f) = <<ESC, LeftBracket, d, f>> /\ Csi(<<d>>, f) \in Seq(Nat)
<1>1. ESC \in Nat /\ LeftBracket \in Nat
  BY DEF ESC, LeftBracket
<1> QED
  BY <1>1, FourBytes DEF Csi

LEMMA AnswerFields ==
  ASSUME NEW p, p \in ParserType, NEW s, NEW act
  PROVE  /\ Quiet(p, s).action = "NONE" /\ Quiet(p, s).parser.state = s
         /\ Quiet(p, s).parser.params = p.params /\ Quiet(p, s).parser.current = p.current
         /\ Emit(p, s, act).action = act /\ Emit(p, s, act).parser.state = s
         /\ Emit(p, s, act).parser.params = p.params
BY DEF Quiet, Emit, ParserType

LEMMA ClearFields ==
  ASSUME NEW p, p \in ParserType
  PROVE  /\ ClearParams(p) \in ParserType /\ ClearParams(p).params = <<>>
         /\ PushParam(p) \in ParserType
         /\ p.params = <<>> => PushParam(p).params = <<p.current>>
<1>1. <<>> \in Seq(Nat) /\ Len(<<>>) = 0
  BY EmptySeq
<1>2. ClearParams(p) \in ParserType /\ ClearParams(p).params = <<>>
  BY <1>1 DEF ClearParams, ParserType
<1>3. PushParam(p) \in ParserType
  <2> DEFINE ps == IF Len(p.params) < MaxParams THEN Append(p.params, p.current)
                   ELSE p.params
  <2>1. ps \in Seq(Nat)
    BY AppendProperties DEF ParserType
  <2>2. PushParam(p) = [p EXCEPT !.params = ps, !.current = 0]
    BY DEF PushParam
  <2> HIDE DEF ps
  <2>3. [p EXCEPT !.params = ps, !.current = 0] \in ParserType
    BY <2>1 DEF ParserType
  <2> QED
    BY <2>2, <2>3
<1>4. ASSUME p.params = <<>>
      PROVE  PushParam(p).params = <<p.current>>
  <2>1. Len(<<>>) < MaxParams
    BY <1>1, ParserAssumption
  <2>2. Append(<<>>, p.current) = <<p.current>>
    OBVIOUS
  <2>3. PushParam(p) = [p EXCEPT !.params = <<p.current>>, !.current = 0]
    BY <1>4, <2>1, <2>2 DEF PushParam
  <2> QED
    BY <2>3 DEF ParserType
<1> QED
  BY <1>2, <1>3, <1>4

(* The four bytes of a sequence in the parser. *)
LEMMA SequenceSteps ==
  ASSUME NEW p, p \in ParserType, NEW d \in Digit, NEW f \in FinalByte
  PROVE  /\ p.state = "GROUND" =>
                /\ ParserFeed(p, ESC).action = "NONE"
                /\ ParserFeed(p, ESC).parser.state = "ESCAPE"
         /\ p.state = "ESCAPE" =>
                /\ ParserFeed(p, LeftBracket).action = "NONE"
                /\ ParserFeed(p, LeftBracket).parser.state = "CSI_ENTRY"
                /\ ParserFeed(p, LeftBracket).parser.params = <<>>
         /\ p.state = "CSI_ENTRY" =>
                /\ ParserFeed(p, d).action = "NONE"
                /\ ParserFeed(p, d).parser.state = "CSI_PARAM"
                /\ ParserFeed(p, d).parser.params = p.params
                /\ ParserFeed(p, d).parser.current = d - 48
         /\ p.state = "CSI_PARAM" =>
                /\ ParserFeed(p, f).action = "CSI_DISPATCH"
                /\ ParserFeed(p, f).parser.state = "GROUND"
                /\ p.params = <<>> => ParserFeed(p, f).parser.params = <<p.current>>
<1>0. /\ d \in 48 .. 57 /\ f \in 64 .. 126 /\ d \notin C0Control /\ f \notin C0Control
      /\ ESC \notin C0Control /\ LeftBracket \notin C0Control
      /\ f \notin Digit /\ f # Semicolon
  BY DEF Digit, FinalByte, C0Control, ESC, LeftBracket, CAN, SUB, Semicolon
<1>1. ClearParams(p) \in ParserType /\ ClearParams(p).params = <<>>
  BY ClearFields
<1>2. ASSUME p.state = "GROUND"
      PROVE  ParserFeed(p, ESC) = Quiet(ClearParams(p), "ESCAPE")
  <2>1. ParserFeed(p, ESC) = InGround(p, ESC)
    BY <1>0, <1>2 DEF ParserFeed
  <2> QED
    BY <2>1 DEF InGround
<1>3. ASSUME p.state = "ESCAPE"
      PROVE  ParserFeed(p, LeftBracket) = Quiet(ClearParams(p), "CSI_ENTRY")
  <2>1. ParserFeed(p, LeftBracket) = InEscape(p, LeftBracket)
    BY <1>0, <1>3 DEF ParserFeed
  <2> QED
    BY <2>1 DEF InEscape, LeftBracket, RightBracket, ESC
<1>4. ASSUME p.state = "CSI_ENTRY"
      PROVE  ParserFeed(p, d) = Quiet([p EXCEPT !.current = d - 48], "CSI_PARAM")
  <2>1. ParserFeed(p, d) = InCsiEntry(p, d)
    BY <1>0, <1>4 DEF ParserFeed
  <2>2. d \in Digit /\ d # Semicolon /\ d \notin FinalByte /\ d \notin Intermediate
    BY <1>0 DEF Semicolon, FinalByte, Intermediate
  <2> QED
    BY <2>1, <2>2 DEF InCsiEntry
<1>5. ASSUME p.state = "CSI_PARAM"
      PROVE  ParserFeed(p, f) = Emit(PushParam(p), "GROUND", "CSI_DISPATCH")
  <2>1. ParserFeed(p, f) = InCsiParam(p, f)
    BY <1>0, <1>5 DEF ParserFeed
  <2>2. f \in FinalByte /\ f \notin Intermediate /\ f \notin {CAN, SUB}
    BY <1>0 DEF Intermediate, CAN, SUB
  <2> QED
    BY <1>0, <2>1, <2>2 DEF InCsiParam
<1>6. LET q == [p EXCEPT !.current = d - 48]
      IN  q \in ParserType /\ q.params = p.params /\ q.current = d - 48
  <2>1. d - 48 \in Nat
    BY <1>0
  <2> DEFINE n == d - 48
  <2> HIDE DEF n
  <2>2. n \in Nat => LET q == [p EXCEPT !.current = n]
                     IN  q \in ParserType /\ q.params = p.params /\ q.current = n
    BY DEF ParserType
  <2> QED
    BY <2>1, <2>2 DEF n
<1>7. PushParam(p) \in ParserType /\ (p.params = <<>> => PushParam(p).params = <<p.current>>)
  BY ClearFields
<1>8. ASSUME p.state = "GROUND"
      PROVE  /\ ParserFeed(p, ESC).action = "NONE"
             /\ ParserFeed(p, ESC).parser.state = "ESCAPE"
  BY <1>1, <1>2, <1>8, AnswerFields
<1>9. ASSUME p.state = "ESCAPE"
      PROVE  /\ ParserFeed(p, LeftBracket).action = "NONE"
             /\ ParserFeed(p, LeftBracket).parser.state = "CSI_ENTRY"
             /\ ParserFeed(p, LeftBracket).parser.params = <<>>
  BY <1>1, <1>3, <1>9, AnswerFields
<1>10. ASSUME p.state = "CSI_ENTRY"
       PROVE  /\ ParserFeed(p, d).action = "NONE"
              /\ ParserFeed(p, d).parser.state = "CSI_PARAM"
              /\ ParserFeed(p, d).parser.params = p.params
              /\ ParserFeed(p, d).parser.current = d - 48
  <2> DEFINE q == [p EXCEPT !.current = d - 48]
  <2>1. q \in ParserType /\ q.params = p.params /\ q.current = d - 48
    BY <1>6
  <2>2. ParserFeed(p, d) = Quiet(q, "CSI_PARAM")
    BY <1>4, <1>10
  <2> HIDE DEF q
  <2> QED
    BY <2>1, <2>2, AnswerFields
<1>11. ASSUME p.state = "CSI_PARAM"
       PROVE  /\ ParserFeed(p, f).action = "CSI_DISPATCH"
              /\ ParserFeed(p, f).parser.state = "GROUND"
              /\ p.params = <<>> => ParserFeed(p, f).parser.params = <<p.current>>
  <2> DEFINE q == PushParam(p)
  <2>1. ParserFeed(p, f) = Emit(q, "GROUND", "CSI_DISPATCH")
    BY <1>5, <1>11
  <2>2. q \in ParserType /\ (p.params = <<>> => q.params = <<p.current>>)
    BY <1>7
  <2> HIDE DEF q
  <2> QED
    BY <2>1, <2>2, AnswerFields
<1> QED
  BY <1>8, <1>9, <1>10, <1>11

(* A byte the parser only remembers, and one that ends a sequence. *)
Shaped(v) == v = [f \in Fields |-> v[f]]

LEMMA ByteCases ==
  ASSUME NEW v, v.fault = "none", NEW c \in Nat
  PROVE  LET step == ParserFeed(v.parser, c)
             w == [v EXCEPT !.parser = step.parser]
             x == HandleCsi(w, c)
             y == Execute(w, c)
         IN  /\ step.action = "NONE" =>
                    FeedByte(v, c) = [w EXCEPT !.parser = Settled(w.parser)]
             /\ step.action = "CSI_DISPATCH" =>
                    FeedByte(v, c) = [x EXCEPT !.parser = Settled(x.parser)]
             /\ step.action = "EXECUTE" =>
                    FeedByte(v, c) = [y EXCEPT !.parser = Settled(y.parser)]
<1> DEFINE step == ParserFeed(v.parser, c)
           w == [v EXCEPT !.parser = step.parser]
           x == CASE step.action = "PRINT"        -> PutChar(w, c)
                  [] step.action = "EXECUTE"      -> Execute(w, c)
                  [] step.action = "CSI_DISPATCH" -> HandleCsi(w, c)
                  [] step.action = "ESC_DISPATCH" -> HandleEsc(w, c)
                  [] OTHER                        -> w
           z == [x EXCEPT !.parser = Settled(x.parser)]
<1>0. FeedByte(v, c) = IF v.fault # "none" THEN v ELSE z
  BY ByteIs
<1> HIDE DEF z
<1>1. FeedByte(v, c) = [x EXCEPT !.parser = Settled(x.parser)]
  <2>1. FeedByte(v, c) = z
    BY <1>0
  <2> QED
    BY <2>1 DEF z
<1> DEFINE act == step.action
<1>2. act = step.action
  OBVIOUS
<1> HIDE DEF w, act
<1>3. /\ act = "NONE" => x = w
      /\ act = "CSI_DISPATCH" => x = HandleCsi(w, c)
      /\ act = "EXECUTE" => x = Execute(w, c)
  BY <1>2
<1> HIDE DEF x
<1>4. /\ act = "NONE" => FeedByte(v, c) = [w EXCEPT !.parser = Settled(w.parser)]
      /\ act = "CSI_DISPATCH" =>
            FeedByte(v, c) = [HandleCsi(w, c) EXCEPT !.parser = Settled(HandleCsi(w, c).parser)]
      /\ act = "EXECUTE" =>
            FeedByte(v, c) = [Execute(w, c) EXCEPT !.parser = Settled(Execute(w, c).parser)]
  BY <1>1, <1>3
<1> QED
  BY <1>4 DEF w, act

LEMMA QuietByte ==
  ASSUME NEW v, Shaped(v), v.fault = "none", NEW c \in Nat,
         ParserFeed(v.parser, c).action = "NONE",
         ParserFeed(v.parser, c).parser.state # "GROUND"
  PROVE  FeedByte(v, c) = [v EXCEPT !.parser = ParserFeed(v.parser, c).parser]
<1> DEFINE q == ParserFeed(v.parser, c).parser
           w == [v EXCEPT !.parser = q]
<1>1. FeedByte(v, c) = [w EXCEPT !.parser = Settled(w.parser)]
  BY ByteCases
<1>2. q.state # "GROUND"
  OBVIOUS
<1> HIDE DEF q
<1>3. w.parser = q /\ [w EXCEPT !.parser = q] = w
  BY DEF Fields, Shaped
<1>4. Settled(q) = q
  BY <1>2 DEF Settled
<1> HIDE DEF w
<1>5. FeedByte(v, c) = w
  BY <1>1, <1>3, <1>4
<1> QED
  BY <1>5 DEF w, q

LEMMA LastByte ==
  ASSUME NEW v, v.fault = "none", NEW c \in Nat,
         ParserFeed(v.parser, c).action = "CSI_DISPATCH"
  PROVE  LET x == HandleCsi([v EXCEPT !.parser = ParserFeed(v.parser, c).parser], c)
         IN  FeedByte(v, c) = [x EXCEPT !.parser = Settled(x.parser)]
BY ByteCases

(* A screen that waits for a sequence. *)
Waiting(v) == Usable(v) /\ v.parser.state = "GROUND"

(* What a whole control sequence does: its handler, on the screen with the  *)
(* number in the parser.                                                    *)
WithParser(v, p)    == [v EXCEPT !.parser = p]
WithCells(v, cells) == [v EXCEPT !.cells = cells]
AtRest(v)           == [v EXCEPT !.parser = Settled(v.parser)]

Acted(v, d, f, w) ==
    \E q \in ParserType : /\ q.state = "GROUND" /\ q.params = <<d - 48>>
                          /\ w = AtRest(HandleCsi(WithParser(v, q), f))

LEMMA CsiEffect ==
  ASSUME NEW v, NEW bytes \in Seq(Nat), Waiting(FeedBytes(v, bytes)),
         NEW d \in Digit, NEW f \in FinalByte
  PROVE  Acted(FeedBytes(v, bytes), d, f, FeedBytes(v, bytes \o Csi(<<d>>, f)))
<1> DEFINE u == FeedBytes(v, bytes)
           p1 == ParserFeed(u.parser, ESC).parser
           p2 == ParserFeed(p1, LeftBracket).parser
           p3 == ParserFeed(p2, d).parser
           p4 == ParserFeed(p3, f).parser
           v1 == [u EXCEPT !.parser = p1]
           v2 == [u EXCEPT !.parser = p2]
           v3 == [u EXCEPT !.parser = p3]
           w == [u EXCEPT !.parser = p4]
<1>0. d \in Nat /\ f \in Nat /\ ESC \in Nat /\ LeftBracket \in Nat
  BY DEF Digit, FinalByte, ESC, LeftBracket
<1>1. FeedBytes(v, bytes \o Csi(<<d>>, f)) =
          FeedByte(FeedByte(FeedByte(FeedByte(u, ESC), LeftBracket), d), f)
  BY <1>0, CsiBytes, FeedFour, SMTT(30)
<1>2. /\ Shaped(u) /\ u.fault = "none" /\ ParserOK(u.parser)
      /\ u.parser.state = "GROUND"
  BY DEF Waiting, Usable, Good, IsScreen, Shaped
<1> HIDE DEF u
<1>3. ASSUME NEW p
      PROVE  LET t == [u EXCEPT !.parser = p]
             IN  /\ Shaped(t) /\ t.fault = "none" /\ t.parser = p
                 /\ \A q : [t EXCEPT !.parser = q] = [u EXCEPT !.parser = q]
  BY <1>2 DEF Fields, Shaped
<1>4. ParserOK(p1) /\ ParserOK(p2) /\ ParserOK(p3) /\ ParserOK(p4)
  BY <1>0, <1>2, ParserStep
<1> HIDE DEF p1, p2, p3, p4
<1>5. /\ ParserFeed(u.parser, ESC).action = "NONE" /\ p1.state = "ESCAPE"
      /\ ParserFeed(p1, LeftBracket).action = "NONE" /\ p2.state = "CSI_ENTRY"
      /\ p2.params = <<>>
      /\ ParserFeed(p2, d).action = "NONE" /\ p3.state = "CSI_PARAM"
      /\ p3.params = <<>> /\ p3.current = d - 48
      /\ ParserFeed(p3, f).action = "CSI_DISPATCH" /\ p4.state = "GROUND"
      /\ p4.params = <<d - 48>>
  <2>1. u.parser \in ParserType /\ p1 \in ParserType /\ p2 \in ParserType
        /\ p3 \in ParserType
    BY <1>2, <1>4 DEF ParserOK
  <2>2. ParserFeed(u.parser, ESC).action = "NONE" /\ p1.state = "ESCAPE"
    BY <1>2, <2>1, SequenceSteps DEF p1
  <2>3. ParserFeed(p1, LeftBracket).action = "NONE" /\ p2.state = "CSI_ENTRY"
        /\ p2.params = <<>>
    BY <2>1, <2>2, SequenceSteps DEF p2
  <2>4. ParserFeed(p2, d).action = "NONE" /\ p3.state = "CSI_PARAM"
        /\ p3.params = <<>> /\ p3.current = d - 48
    BY <2>1, <2>3, SequenceSteps DEF p3
  <2>5. ParserFeed(p3, f).action = "CSI_DISPATCH" /\ p4.state = "GROUND"
        /\ p4.params = <<d - 48>>
    BY <2>1, <2>4, SequenceSteps DEF p4
  <2> QED
    BY <2>2, <2>3, <2>4, <2>5
<1>6. FeedByte(u, ESC) = v1
  <2>1. ParserFeed(u.parser, ESC).parser.state # "GROUND"
    BY <1>5 DEF p1
  <2> QED
    BY <1>0, <1>2, <1>5, <2>1, QuietByte DEF p1
<1>7. FeedByte(v1, LeftBracket) = v2
  <2>1. FeedByte(v1, LeftBracket) = [v1 EXCEPT !.parser = p2]
    <3>1. Shaped(v1) /\ v1.fault = "none" /\ v1.parser = p1
      BY <1>3
    <3> HIDE DEF v1
    <3>2. ParserFeed(v1.parser, LeftBracket).action = "NONE"
          /\ ParserFeed(v1.parser, LeftBracket).parser = p2
          /\ ParserFeed(v1.parser, LeftBracket).parser.state # "GROUND"
      BY <1>5, <3>1 DEF p2
    <3> QED
      BY <1>0, <3>1, <3>2, QuietByte
  <2> QED
    BY <1>3, <2>1
<1>8. FeedByte(v2, d) = v3
  <2>1. FeedByte(v2, d) = [v2 EXCEPT !.parser = p3]
    <3>1. Shaped(v2) /\ v2.fault = "none" /\ v2.parser = p2
      BY <1>3
    <3> HIDE DEF v2
    <3>2. ParserFeed(v2.parser, d).action = "NONE"
          /\ ParserFeed(v2.parser, d).parser = p3
          /\ ParserFeed(v2.parser, d).parser.state # "GROUND"
      BY <1>5, <3>1 DEF p3
    <3> QED
      BY <1>0, <3>1, <3>2, QuietByte
  <2> QED
    BY <1>3, <2>1
<1>9. FeedByte(v3, f) = [HandleCsi(w, f) EXCEPT !.parser = Settled(HandleCsi(w, f).parser)]
  <2>1. v3.fault = "none" /\ v3.parser = p3 /\ [v3 EXCEPT !.parser = p4] = w
    BY <1>3
  <2> HIDE DEF v3, w
  <2>2. ParserFeed(v3.parser, f).action = "CSI_DISPATCH"
        /\ ParserFeed(v3.parser, f).parser = p4
    BY <1>5, <2>1 DEF p4
  <2>3. LET x == HandleCsi([v3 EXCEPT !.parser = ParserFeed(v3.parser, f).parser], f)
        IN  FeedByte(v3, f) = [x EXCEPT !.parser = Settled(x.parser)]
    BY <1>0, <2>1, <2>2, LastByte
  <2> QED
    BY <2>1, <2>2, <2>3
<1> HIDE DEF v1, v2, v3
<1>10. p4 \in ParserType
  BY <1>4 DEF ParserOK
<1>11. FeedBytes(v, bytes \o Csi(<<d>>, f)) =
           [HandleCsi(w, f) EXCEPT !.parser = Settled(HandleCsi(w, f).parser)]
  BY <1>1, <1>6, <1>7, <1>8, <1>9
<1> QED
  BY <1>5, <1>10, <1>11 DEF u, w, Acted, AtRest, WithParser

LEMMA CsiInSeq ==
  ASSUME NEW d \in Digit, NEW f \in FinalByte
  PROVE  Csi(<<d>>, f) \in Seq(Nat) /\ <<>> \o Csi(<<d>>, f) = Csi(<<d>>, f)
<1>1. d \in Nat /\ f \in Nat /\ ESC \in Nat /\ LeftBracket \in Nat
  BY DEF Digit, FinalByte, ESC, LeftBracket
<1>2. Csi(<<d>>, f) \in Seq(Nat)
  BY <1>1, CsiBytes
<1> QED
  BY <1>2, ConcatEmptySeq

LEMMA CsiAlone ==
  ASSUME NEW v, Waiting(v), NEW d \in Digit, NEW f \in FinalByte
  PROVE  Acted(v, d, f, FeedBytes(v, Csi(<<d>>, f)))
<1>1. <<>> \in Seq(Nat)
  OBVIOUS
<1>2. FeedBytes(v, <<>>) = v
  <2>1. 0 \in Nat
    OBVIOUS
  <2> QED
    BY <1>1, <2>1, FeedAppend
<1>3. Acted(FeedBytes(v, <<>>), d, f, FeedBytes(v, <<>> \o Csi(<<d>>, f)))
  BY <1>1, <1>2, CsiEffect
<1>4. <<>> \o Csi(<<d>>, f) = Csi(<<d>>, f)
  BY CsiInSeq
<1> QED
  BY <1>2, <1>3, <1>4

LEMMA OneParam ==
  ASSUME NEW p, NEW n \in Nat, p.params = <<n>>
  PROVE  GetParam(p, 1, 0) = n /\ GetParam(p, 1, 1) = IF n = 0 THEN 1 ELSE n
<1>1. Len(p.params) = 1 /\ p.params[1] = n
  OBVIOUS
<1> QED
  BY <1>1 DEF GetParam

LEMMA CsiHandlers ==
  ASSUME NEW v
  PROVE  /\ HandleCsi(v, 74) = EraseInDisplay(v, GetParam(v.parser, 1, 0))
         /\ HandleCsi(v, 75) = EraseInLine(v, GetParam(v.parser, 1, 0))
         /\ HandleCsi(v, 83) = ScrollUp(v, v.top, v.bot, GetParam(v.parser, 1, 1))
         /\ HandleCsi(v, 84) = ScrollDown(v, v.top, v.bot, GetParam(v.parser, 1, 1))
<1>1. HandleCsi(v, 74) = EraseInDisplay(v, GetParam(v.parser, 1, 0))
  BY DEF HandleCsi
<1>2. HandleCsi(v, 75) = EraseInLine(v, GetParam(v.parser, 1, 0))
  BY DEF HandleCsi
<1>3. HandleCsi(v, 83) = ScrollUp(v, v.top, v.bot, GetParam(v.parser, 1, 1))
  BY DEF HandleCsi
<1>4. HandleCsi(v, 84) = ScrollDown(v, v.top, v.bot, GetParam(v.parser, 1, 1))
  BY DEF HandleCsi
<1> QED
  BY <1>1, <1>2, <1>3, <1>4

(* The same screen with other cells, and its parser at rest. *)
Redrawn(v, cells) == [v EXCEPT !.cells = cells, !.parser = InitialParser]

LEMMA RedrawnIs ==
  ASSUME NEW v, Shaped(v), NEW p, NEW cells
  PROVE  /\ p.state = "GROUND" =>
                AtRest(WithCells(WithParser(v, p), cells)) = Redrawn(v, cells)
         /\ \A more : Redrawn(Redrawn(v, cells), more) = Redrawn(v, more)
<1> DEFINE x == WithCells(WithParser(v, p), cells)
<1>1. [x EXCEPT !.parser = InitialParser] = Redrawn(v, cells)
  BY DEF Shaped, Fields, Redrawn, WithCells, WithParser
<1>2. x.parser = p
  BY DEF Shaped, Fields, WithCells, WithParser
<1>3. p.state = "GROUND" => Settled(p) = InitialParser
  BY DEF Settled
<1> HIDE DEF x
<1>4. p.state = "GROUND" => AtRest(x) = Redrawn(v, cells)
  BY <1>1, <1>2, <1>3 DEF AtRest
<1>5. \A more : Redrawn(Redrawn(v, cells), more) = Redrawn(v, more)
  BY DEF Shaped, Fields, Redrawn
<1> QED
  BY <1>4, <1>5 DEF x

-----------------------------------------------------------------------------
(* What CSI J and CSI K erase, from First on and short of Beyond. *)
First(v, f, mode) ==
    IF mode = 0 THEN v.row * v.cols + v.col ELSE IF f = 74 THEN 0 ELSE v.row * v.cols
Beyond(v, f, mode) ==
    IF mode = 1 THEN v.row * v.cols + v.col + 1
    ELSE IF f = 74 THEN v.rows * v.cols ELSE v.row * v.cols + v.cols
Wiped(v, f, mode) ==
    [i \in DOMAIN v.cells |-> IF i \in First(v, f, mode) .. Beyond(v, f, mode) - 1 THEN Blank
                              ELSE v.cells[i]]

(* The cursor is on the screen, and no wrap is pending. *)
Inside(v) == Waiting(v) /\ v.row < v.rows /\ v.col < v.cols

LEMMA ErasePlaces ==
  ASSUME NEW v, Inside(v), NEW f \in {74, 75}, NEW mode \in 0 .. 2
  PROVE  /\ First(v, f, mode) \in Nat /\ Beyond(v, f, mode) \in Nat
         /\ Beyond(v, f, mode) <= Total(v)
<1> DEFINE r == v.row * v.cols
           t == v.rows * v.cols
<1>1. v.cols \in Nat \ {0} /\ v.rows \in Nat \ {0} /\ v.row \in Nat /\ v.col \in Nat
      /\ v.row < v.rows /\ v.col < v.cols
  BY UsableHas DEF Inside, Waiting
<1>2. r \in Nat /\ t \in Nat /\ r + v.cols <= t /\ r + v.col < t
  BY <1>1, CellPlaces
<1>3. Total(v) = t
  BY DEF Total
<1> HIDE DEF r, t
<1>4. First(v, f, mode) \in {r + v.col, 0, r} /\ Beyond(v, f, mode) \in {r + v.col + 1, t, r + v.cols}
  BY DEF First, Beyond, r, t
<1> QED
  BY <1>1, <1>2, <1>3, <1>4

LEMMA EraseActs ==
  ASSUME NEW v, Inside(v), NEW p, NEW f \in {74, 75}, NEW mode \in 0 .. 2,
         GetParam(p, 1, 0) = mode
  PROVE  HandleCsi(WithParser(v, p), f) = WithCells(WithParser(v, p), Wiped(v, f, mode))
<1> DEFINE w == WithParser(v, p)
           from == First(v, f, mode)
           to == Beyond(v, f, mode)
<1>1. Shaped(v)
  BY DEF Inside, Waiting, Usable, Good, IsScreen, Shaped
<1>2. /\ w.parser = p /\ w.cols = v.cols /\ w.rows = v.rows /\ w.row = v.row
      /\ w.col = v.col /\ w.cells = v.cells
  BY <1>1 DEF Shaped, Fields, WithParser
<1> HIDE DEF w
<1>3. HandleCsi(w, 74) = EraseInDisplay(w, mode) /\ HandleCsi(w, 75) = EraseInLine(w, mode)
  BY <1>2, CsiHandlers
<1>4. v.row * v.cols \in Nat /\ v.col \in Nat /\ v.rows * v.cols \in Nat
  <2>1. v.cols \in Nat /\ v.rows \in Nat /\ v.row \in Nat /\ v.col \in Nat
    BY UsableHas DEF Inside, Waiting
  <2> QED
    BY <2>1
<1>5. f = 74 => EraseInDisplay(w, mode) = Erase(w, from, to)
  <2>1. mode = 0 => EraseInDisplay(w, mode) = Erase(w, Cursor(w), Total(w))
    BY DEF EraseInDisplay
  <2>2. mode = 1 => EraseInDisplay(w, mode) = Erase(w, 0, Cursor(w) + 1)
    BY DEF EraseInDisplay
  <2>3. mode = 2 => EraseInDisplay(w, mode) = Erase(w, 0, Total(w))
    BY DEF EraseInDisplay
  <2>4. Cursor(w) = v.row * v.cols + v.col /\ Total(w) = v.rows * v.cols
    BY <1>2 DEF Cursor, Total
  <2> QED
    BY <2>1, <2>2, <2>3, <2>4 DEF First, Beyond
<1>6. f = 75 => EraseInLine(w, mode) = Erase(w, from, to)
  <2>1. mode = 0 => EraseInLine(w, mode) = Erase(w, w.row * w.cols + w.col, w.row * w.cols + w.cols)
    BY DEF EraseInLine
  <2>2. mode = 1 => EraseInLine(w, mode) = Erase(w, w.row * w.cols, w.row * w.cols + w.col + 1)
    BY DEF EraseInLine
  <2>3. mode = 2 => EraseInLine(w, mode) = Erase(w, w.row * w.cols, w.row * w.cols + w.cols)
    BY DEF EraseInLine
  <2> QED
    BY <1>2, <2>1, <2>2, <2>3 DEF First, Beyond
<1>7. HandleCsi(w, f) = Erase(w, from, to)
  BY <1>3, <1>5, <1>6
<1>8. ~(from < to /\ to > Total(w))
  <2>1. from \in Nat /\ to \in Nat /\ to <= Total(v) /\ Total(v) \in Int
    BY <1>4, ErasePlaces DEF Total
  <2>2. Total(w) = Total(v)
    BY <1>2 DEF Total
  <2> HIDE DEF from, to
  <2> QED
    BY <2>1, <2>2
<1>9. Erase(w, from, to) = WithCells(w, Wiped(v, f, mode))
  BY <1>2, <1>8 DEF Erase, Wiped, WithCells
<1> QED
  BY <1>7, <1>9 DEF w

(* What a sequence that acts like that leaves. *)
LEMMA EraseLeaves ==
  ASSUME NEW v, Inside(v), NEW f \in {74, 75}, NEW mode \in 0 .. 2, NEW w,
         Acted(v, 48 + mode, f, w)
  PROVE  w = Redrawn(v, Wiped(v, f, mode))
<1>1. PICK q \in ParserType :
          /\ q.state = "GROUND" /\ q.params = <<(48 + mode) - 48>>
          /\ w = AtRest(HandleCsi(WithParser(v, q), f))
  BY DEF Acted
<1>2. (48 + mode) - 48 = mode /\ mode \in Nat
  OBVIOUS
<1>3. GetParam(q, 1, 0) = mode
  BY <1>1, <1>2, OneParam
<1>4. HandleCsi(WithParser(v, q), f) = WithCells(WithParser(v, q), Wiped(v, f, mode))
  BY <1>3, EraseActs
<1>5. Shaped(v)
  BY DEF Inside, Waiting, Usable, Good, IsScreen, Shaped
<1> QED
  BY <1>1, <1>4, <1>5, RedrawnIs

LEMMA RedrawnInside ==
  ASSUME NEW v, Inside(v), NEW f, NEW mode
  PROVE  LET w == Redrawn(v, Wiped(v, f, mode))
         IN  /\ Inside(w) /\ w.cols = v.cols /\ w.rows = v.rows /\ w.row = v.row
             /\ w.col = v.col /\ w.cells = Wiped(v, f, mode)
<1> DEFINE cells == Wiped(v, f, mode)
           u == [v EXCEPT !.cells = cells]
           w == Redrawn(v, cells)
<1>1. Usable(v) /\ v.row < v.rows /\ v.col < v.cols /\ Shaped(v)
  BY DEF Inside, Waiting, Usable, Good, IsScreen, Shaped
<1>2. cells = [i \in DOMAIN v.cells |-> cells[i]]
  BY DEF Wiped
<1> HIDE DEF cells
<1>3. Usable(u)
  <2>1. v.col \in Nat /\ (~shrunk => v.col <= v.cols)
    BY <1>1, UsableHas
  <2> QED
    BY <1>1, <1>2, <2>1, CellsSet
<1>4. w = [u EXCEPT !.parser = InitialParser]
  BY <1>1 DEF Shaped, Fields, Redrawn
<1>5. /\ w.cols = v.cols /\ w.rows = v.rows /\ w.row = v.row
      /\ w.col = v.col /\ w.cells = cells /\ w.parser = InitialParser
  BY <1>1 DEF Redrawn, Shaped, Fields
<1>6. ParserOK(InitialParser)
  BY <1>1, UsableHas, SettledOK
<1> HIDE DEF u, w
<1>7. Good(w) /\ w.fault = u.fault
  <2>1. Good(u)
    BY <1>3 DEF Usable
  <2> QED
    BY <1>4, <1>6, <2>1, OtherSet
<1>8. Inside(w)
  <2>1. InitialParser.state = "GROUND"
    BY DEF InitialParser
  <2>2. Usable(w)
    BY <1>3, <1>7 DEF Usable
  <2> QED
    BY <1>1, <1>5, <2>1, <2>2 DEF Inside, Waiting
<1> QED
  BY <1>5, <1>8 DEF w, cells

LEMMA EraseFeeds ==
  ASSUME NEW v, Inside(v), NEW f \in {74, 75}, NEW mode \in 0 .. 2
  PROVE  FeedBytes(v, Csi(<<48 + mode>>, f)) = Redrawn(v, Wiped(v, f, mode))
<1>1. 48 + mode \in Digit /\ f \in FinalByte
  BY DEF Digit, FinalByte
<1>2. Waiting(v)
  BY DEF Inside
<1>3. Acted(v, 48 + mode, f, FeedBytes(v, Csi(<<48 + mode>>, f)))
  BY <1>1, <1>2, CsiAlone
<1> QED
  BY <1>3, EraseLeaves

LEMMA HalvesWipe ==
  ASSUME NEW v, Inside(v), NEW f \in {74, 75}
  PROVE  LET w == Redrawn(v, Wiped(v, f, 0))
         IN  Wiped(w, f, 1) = Wiped(v, f, 2)
<1> DEFINE w == Redrawn(v, Wiped(v, f, 0))
           r == v.row * v.cols
           t == v.rows * v.cols
<1>1. /\ w.cols = v.cols /\ w.rows = v.rows /\ w.row = v.row /\ w.col = v.col
      /\ w.cells = Wiped(v, f, 0)
  BY RedrawnInside
<1> HIDE DEF w
<1>2. v.cols \in Nat \ {0} /\ v.rows \in Nat \ {0} /\ v.row \in Nat /\ v.col \in Nat
      /\ v.row < v.rows /\ v.col < v.cols
  BY UsableHas DEF Inside, Waiting
<1>3. r \in Nat /\ t \in Nat /\ r + v.cols <= t /\ r + v.col < t
  BY <1>2, CellPlaces
<1>4. /\ First(v, f, 0) = r + v.col /\ First(w, f, 1) = (IF f = 74 THEN 0 ELSE r)
      /\ First(v, f, 2) = (IF f = 74 THEN 0 ELSE r)
      /\ Beyond(v, f, 0) = (IF f = 74 THEN t ELSE r + v.cols)
      /\ Beyond(w, f, 1) = r + v.col + 1
      /\ Beyond(v, f, 2) = (IF f = 74 THEN t ELSE r + v.cols)
  BY <1>1 DEF First, Beyond
<1> HIDE DEF r, t
<1>5. v.cells = [i \in 0 .. Total(v) - 1 |-> v.cells[i]] /\ Total(v) \in Int
  BY UsableHas DEF Inside, Waiting, Usable, Good, IsScreen
<1>6. \A i \in Int : i \in First(v, f, 2) .. Beyond(v, f, 2) - 1 <=>
          \/ i \in First(v, f, 0) .. Beyond(v, f, 0) - 1
          \/ i \in First(w, f, 1) .. Beyond(w, f, 1) - 1
  BY <1>2, <1>3, <1>4
<1>7. \A i \in DOMAIN v.cells : i \in Int
  BY <1>5
<1>8. DOMAIN w.cells = DOMAIN v.cells
  BY <1>1 DEF Wiped
<1>9. Wiped(w, f, 1) = [i \in DOMAIN v.cells |->
          IF i \in First(w, f, 1) .. Beyond(w, f, 1) - 1 THEN Blank
          ELSE IF i \in First(v, f, 0) .. Beyond(v, f, 0) - 1 THEN Blank ELSE v.cells[i]]
  BY <1>1, <1>8 DEF Wiped
<1> QED
  BY <1>6, <1>7, <1>9 DEF Wiped, w

LEMMA EraseTwice ==
  ASSUME NEW v, Inside(v), NEW f \in {74, 75}
  PROVE  FeedBytes(v, Csi(<<48>>, f) \o Csi(<<49>>, f)) = FeedBytes(v, Csi(<<50>>, f))
<1> DEFINE bytes == Csi(<<48>>, f)
           u == Redrawn(v, Wiped(v, f, 0))
           w == FeedBytes(v, bytes \o Csi(<<49>>, f))
<1>1. 48 \in Digit /\ 49 \in Digit /\ f \in FinalByte
  BY DEF Digit, FinalByte
<1>2. bytes \in Seq(Nat)
  BY <1>1, CsiInSeq
<1>3. FeedBytes(v, bytes) = u
  <2>1. 0 \in 0 .. 2 /\ 48 + 0 = 48
    OBVIOUS
  <2> QED
    BY <2>1, EraseFeeds
<1>4. FeedBytes(v, Csi(<<50>>, f)) = Redrawn(v, Wiped(v, f, 2))
  <2>1. 2 \in 0 .. 2 /\ 48 + 2 = 50
    OBVIOUS
  <2> QED
    BY <2>1, EraseFeeds
<1>5. Inside(u)
  BY RedrawnInside
<1>6. Wiped(u, f, 1) = Wiped(v, f, 2)
  BY HalvesWipe
<1> HIDE DEF bytes
<1>7. Acted(u, 49, f, w)
  <2>1. Waiting(FeedBytes(v, bytes))
    BY <1>3, <1>5 DEF Inside
  <2>2. Acted(FeedBytes(v, bytes), 49, f, FeedBytes(v, bytes \o Csi(<<49>>, f)))
    BY <1>1, <1>2, <2>1, CsiEffect
  <2> QED
    BY <1>3, <2>2
<1> HIDE DEF w
<1>8. w = Redrawn(u, Wiped(u, f, 1))
  <2>1. 1 \in 0 .. 2 /\ 48 + 1 = 49
    OBVIOUS
  <2> HIDE DEF u
  <2> QED
    BY <1>5, <1>7, <2>1, EraseLeaves
<1>9. Shaped(v)
  BY DEF Inside, Waiting, Usable, Good, IsScreen, Shaped
<1>10. Redrawn(u, Wiped(v, f, 2)) = Redrawn(v, Wiped(v, f, 2))
  BY <1>9, RedrawnIs
<1> QED
  BY <1>4, <1>6, <1>8, <1>10 DEF w, bytes

(* Two rows of the array do not overlap. *)
LEMMA RowsApart ==
  ASSUME NEW n \in Nat \ {0}, NEW r \in Nat, NEW s \in Nat, r # s, NEW c \in 0 .. n - 1
  PROVE  r * n + c \notin s * n .. s * n + n - 1
<1>1. r * n \in Nat /\ s * n \in Nat
  OBVIOUS
<1>2. CASE r < s
  <2>1. s \in Nat \ {0} /\ c < n /\ c \in Nat
    BY <1>2
  <2>2. r * n + c < s * n
    BY <1>2, <2>1, CellPlaces
  <2> QED
    BY <1>1, <2>1, <2>2
<1>3. CASE s < r
  <2>1. r \in Nat \ {0} /\ c \in Nat
    BY <1>3
  <2>2. s * n + n <= r * n
    BY <1>3, <2>1, CellPlaces
  <2> QED
    BY <1>1, <2>1, <2>2
<1> QED
  BY <1>2, <1>3

LEMMA EraseStaysInLine ==
  ASSUME NEW v, Inside(v), NEW mode \in 0 .. 2
  PROVE  LET others == (0 .. v.rows - 1) \ {v.row}
         IN  Lines(FeedBytes(v, Csi(<<48 + mode>>, 75)), others) = Lines(v, others)
<1> DEFINE w == Redrawn(v, Wiped(v, 75, mode))
           others == (0 .. v.rows - 1) \ {v.row}
           n == v.cols
<1>1. FeedBytes(v, Csi(<<48 + mode>>, 75)) = w
  BY EraseFeeds
<1>2. w.cols = n /\ w.cells = Wiped(v, 75, mode)
  BY RedrawnInside
<1> HIDE DEF w
<1>3. v.cols \in Nat \ {0} /\ v.rows \in Nat \ {0} /\ v.row \in Nat /\ v.col \in Nat
      /\ v.row < v.rows /\ v.col < v.cols
  BY UsableHas DEF Inside, Waiting
<1>4. ASSUME NEW r \in others
      PROVE  Line(w, r) = Line(v, r)
  <2>1. r \in Nat /\ r # v.row /\ r < v.rows
    BY <1>3
  <2>2. ASSUME NEW c \in 0 .. n - 1
        PROVE  w.cells[r * n + c] = v.cells[r * n + c]
    <3> DEFINE i == r * n + c
               s == v.row * n
    <3>1. i \notin s .. s + n - 1
      BY <1>3, <2>1, RowsApart
    <3>2. i \in DOMAIN v.cells
      <4>1. c \in Nat /\ c < n /\ i \in Nat
        BY <1>3, <2>1
      <4>2. i < v.rows * n /\ v.rows * n \in Nat
        BY <1>3, <2>1, <4>1, CellPlaces
      <4>3. v.cells = [j \in 0 .. v.rows * n - 1 |-> v.cells[j]]
        BY DEF Inside, Waiting, Usable, Good, IsScreen, Total
      <4>4. DOMAIN v.cells = 0 .. v.rows * n - 1
        BY <4>3
      <4> HIDE DEF i
      <4> QED
        BY <4>1, <4>2, <4>4
    <3>3. s \in Nat /\ i \in Nat
      BY <1>3, <2>1
    <3>4. First(v, 75, mode) \in {s + v.col, s}
          /\ Beyond(v, 75, mode) \in {s + v.col + 1, s + n}
      BY DEF First, Beyond
    <3> HIDE DEF i, s
    <3>5. i \notin First(v, 75, mode) .. Beyond(v, 75, mode) - 1
      BY <1>3, <3>1, <3>3, <3>4
    <3>6. Wiped(v, 75, mode)[i] = v.cells[i]
      BY <3>2, <3>5 DEF Wiped
    <3> QED
      BY <1>2, <3>6 DEF i
  <2> QED
    BY <1>2, <2>2 DEF Line
<1> QED
  BY <1>1, <1>4 DEF Lines

(* With the cursor on the screen, what CSI 0 K and CSI 1 K (or CSI 0 J and  *)
(* CSI 1 J) erase is together what CSI 2 K (CSI 2 J) does, the whole screen *)
(* being the same afterwards, and no other line is reached by CSI K.        *)
THEOREM ErasesFitTogether == Spec => []EraseHalvesMakeWhole
<1>1. VtInv => EraseHalvesMakeWhole
  <2> SUFFICES ASSUME VtInv, Ready, vt.row < vt.rows, vt.col < vt.cols
      PROVE  /\ \A final \in {74, 75} :
                   FeedBytes(vt, Csi(<<48>>, final) \o Csi(<<49>>, final))
                       = FeedBytes(vt, Csi(<<50>>, final))
             /\ \A mode \in 48 .. 50 :
                   LET others == (0 .. vt.rows - 1) \ {vt.row}
                   IN  Lines(FeedBytes(vt, Csi(<<mode>>, 75)), others) = Lines(vt, others)
    BY DEF EraseHalvesMakeWhole
  <2>1. Inside(vt)
    BY DEF VtInv, Ready, Inside, Waiting, Usable
  <2>2. ASSUME NEW m \in 48 .. 50
        PROVE  LET others == (0 .. vt.rows - 1) \ {vt.row}
               IN  Lines(FeedBytes(vt, Csi(<<m>>, 75)), others) = Lines(vt, others)
    <3> DEFINE mode == m - 48
    <3>1. mode \in 0 .. 2 /\ 48 + mode = m
      OBVIOUS
    <3> HIDE DEF mode
    <3>2. LET others == (0 .. vt.rows - 1) \ {vt.row}
          IN  Lines(FeedBytes(vt, Csi(<<48 + mode>>, 75)), others) = Lines(vt, others)
      BY <2>1, <3>1, EraseStaysInLine
    <3> QED
      BY <3>1, <3>2
  <2> QED
    BY <2>1, <2>2, EraseTwice
<1> QED
  BY <1>1, ScreenInvariant, PTL

-----------------------------------------------------------------------------
(* Scrolling: the cells that CSI S and CSI T leave. *)
UpCells(v, n) ==
    IF v.top > v.bot THEN v.cells
    ELSE [i \in DOMAIN v.cells |->
             IF i \notin v.top * v.cols .. (v.bot + 1) * v.cols - 1 THEN v.cells[i]
             ELSE IF i + n * v.cols < (v.bot + 1) * v.cols THEN v.cells[i + n * v.cols]
             ELSE Blank]
DownCells(v, n) ==
    IF v.top > v.bot THEN v.cells
    ELSE [i \in DOMAIN v.cells |->
             IF i \notin v.top * v.cols .. (v.bot + 1) * v.cols - 1 THEN v.cells[i]
             ELSE IF i - n * v.cols >= v.top * v.cols THEN v.cells[i - n * v.cols]
             ELSE Blank]
BlankLine(v) == [c \in 0 .. v.cols - 1 |-> Blank]

LEMMA ParserAside ==
  ASSUME NEW v, Shaped(v), NEW p
  PROVE  LET w == WithParser(v, p)
         IN  /\ w.parser = p /\ w.cols = v.cols /\ w.rows = v.rows /\ w.row = v.row
             /\ w.col = v.col /\ w.cells = v.cells /\ w.top = v.top /\ w.bot = v.bot
             /\ w.fault = v.fault /\ WithCells(w, v.cells) = w
BY DEF Shaped, Fields, WithParser, WithCells

LEMMA ScrollActs ==
  ASSUME NEW v, Shaped(v), NEW p, NEW n \in Nat \ {0}
  PROVE  LET w == WithParser(v, p)
         IN  /\ ScrollUp(w, w.top, w.bot, n) = WithCells(w, UpCells(v, n))
             /\ ScrollDown(w, w.top, w.bot, n) = WithCells(w, DownCells(v, n))
<1> DEFINE w == WithParser(v, p)
<1>1. /\ w.cols = v.cols /\ w.cells = v.cells /\ w.top = v.top /\ w.bot = v.bot
      /\ WithCells(w, v.cells) = w
  BY ParserAside
<1> HIDE DEF w
<1>2. ~(n <= 0)
  OBVIOUS
<1>3. ScrollUp(w, w.top, w.bot, n) = WithCells(w, UpCells(v, n))
  <2>1. CASE v.top > v.bot
    BY <1>1, <2>1 DEF ScrollUp, UpCells
  <2>2. CASE ~(v.top > v.bot)
    BY <1>1, <1>2, <2>2 DEF ScrollUp, UpCells, WithCells
  <2> QED
    BY <2>1, <2>2
<1>4. ScrollDown(w, w.top, w.bot, n) = WithCells(w, DownCells(v, n))
  <2>1. CASE v.top > v.bot
    BY <1>1, <2>1 DEF ScrollDown, DownCells
  <2>2. CASE ~(v.top > v.bot)
    BY <1>1, <1>2, <2>2 DEF ScrollDown, DownCells, WithCells
  <2> QED
    BY <2>1, <2>2
<1> QED
  BY <1>3, <1>4 DEF w

LEMMA ScrollFeeds ==
  ASSUME NEW v, Waiting(v), NEW n \in 1 .. 9
  PROVE  /\ FeedBytes(v, Csi(<<48 + n>>, 83)) = Redrawn(v, UpCells(v, n))
         /\ FeedBytes(v, Csi(<<48 + n>>, 84)) = Redrawn(v, DownCells(v, n))
<1>1. 48 + n \in Digit /\ 83 \in FinalByte /\ 84 \in FinalByte
  BY DEF Digit, FinalByte
<1>2. Shaped(v)
  BY DEF Waiting, Usable, Good, IsScreen, Shaped
<1>3. (48 + n) - 48 = n /\ n \in Nat \ {0}
  OBVIOUS
<1>4. ASSUME NEW q \in ParserType, q.params = <<(48 + n) - 48>>
      PROVE  /\ HandleCsi(WithParser(v, q), 83) = WithCells(WithParser(v, q), UpCells(v, n))
             /\ HandleCsi(WithParser(v, q), 84) = WithCells(WithParser(v, q), DownCells(v, n))
  <2> DEFINE w == WithParser(v, q)
  <2>1. GetParam(q, 1, 1) = n
    BY <1>3, <1>4, OneParam
  <2>2. w.parser = q
    BY <1>2, ParserAside
  <2>3. /\ ScrollUp(w, w.top, w.bot, n) = WithCells(w, UpCells(v, n))
        /\ ScrollDown(w, w.top, w.bot, n) = WithCells(w, DownCells(v, n))
    BY <1>2, <1>3, ScrollActs
  <2> HIDE DEF w
  <2>4. /\ HandleCsi(w, 83) = ScrollUp(w, w.top, w.bot, GetParam(w.parser, 1, 1))
        /\ HandleCsi(w, 84) = ScrollDown(w, w.top, w.bot, GetParam(w.parser, 1, 1))
    BY CsiHandlers
  <2> QED
    BY <2>1, <2>2, <2>3, <2>4 DEF w
<1>5. FeedBytes(v, Csi(<<48 + n>>, 83)) = Redrawn(v, UpCells(v, n))
  <2>1. Acted(v, 48 + n, 83, FeedBytes(v, Csi(<<48 + n>>, 83)))
    BY <1>1, CsiAlone
  <2>2. PICK q \in ParserType :
            /\ q.state = "GROUND" /\ q.params = <<(48 + n) - 48>>
            /\ FeedBytes(v, Csi(<<48 + n>>, 83)) = AtRest(HandleCsi(WithParser(v, q), 83))
    BY <2>1 DEF Acted
  <2> QED
    BY <1>2, <1>4, <2>2, RedrawnIs
<1>6. FeedBytes(v, Csi(<<48 + n>>, 84)) = Redrawn(v, DownCells(v, n))
  <2>1. Acted(v, 48 + n, 84, FeedBytes(v, Csi(<<48 + n>>, 84)))
    BY <1>1, CsiAlone
  <2>2. PICK q \in ParserType :
            /\ q.state = "GROUND" /\ q.params = <<(48 + n) - 48>>
            /\ FeedBytes(v, Csi(<<48 + n>>, 84)) = AtRest(HandleCsi(WithParser(v, q), 84))
    BY <2>1 DEF Acted
  <2> QED
    BY <1>2, <1>4, <2>2, RedrawnIs
<1> QED
  BY <1>5, <1>6

(* A line feed: on the bottom margin it is CSI 1 S, above it only the       *)
(* cursor moves.                                                            *)
LEMMA LineFeedFeeds ==
  ASSUME NEW v, Waiting(v)
  PROVE  LET w == FeedBytes(v, <<10>>)
         IN  /\ v.row >= v.bot => w = Redrawn(v, UpCells(v, 1))
             /\ v.row < v.bot => w.cells = v.cells /\ w.cols = v.cols
<1> DEFINE q == ParserFeed(v.parser, 10).parser
           w == WithParser(v, q)
<1>1. Shaped(v) /\ v.fault = "none" /\ v.parser \in ParserType /\ v.parser.state = "GROUND"
  BY DEF Waiting, Usable, Good, IsScreen, Shaped, ParserOK
<1>2. FeedBytes(v, <<10>>) = FeedByte(v, 10)
  <2>1. <<>> \in Seq(Nat) /\ 10 \in Nat /\ Append(<<>>, 10) = <<10>>
    OBVIOUS
  <2>2. FeedBytes(v, Append(<<>>, 10)) = FeedByte(FeedBytes(v, <<>>), 10)
        /\ FeedBytes(v, <<>>) = v
    BY <2>1, FeedAppend
  <2> QED
    BY <2>1, <2>2
<1>3. ParserFeed(v.parser, 10).action = "EXECUTE" /\ q.state = "GROUND"
  <2>1. 10 \in C0Control
    BY DEF C0Control, ESC, CAN, SUB
  <2>2. ParserFeed(v.parser, 10) = Emit(v.parser, "GROUND", "EXECUTE")
    BY <1>1, <2>1 DEF ParserFeed
  <2> QED
    BY <1>1, <2>2, AnswerFields
<1>4. FeedByte(v, 10) = AtRest(Execute(w, 10))
  <2>1. 10 \in Nat
    OBVIOUS
  <2> QED
    BY <1>1, <1>3, <2>1, ByteCases, ZenonT(40) DEF AtRest, WithParser
<1> HIDE DEF q
<1>5. Execute(w, 10) = LineFeed(w)
  BY DEF Execute
<1>6. w.row = v.row /\ w.bot = v.bot
  BY <1>1, ParserAside
<1>7. v.row \in Nat /\ v.bot \in Nat
  BY UsableHas DEF Waiting
<1>8. ASSUME v.row >= v.bot
      PROVE  FeedByte(v, 10) = Redrawn(v, UpCells(v, 1))
  <2>1. LineFeed(w) = ScrollUp(w, w.top, w.bot, 1)
    BY <1>6, <1>7, <1>8 DEF LineFeed
  <2>2. ScrollUp(w, w.top, w.bot, 1) = WithCells(w, UpCells(v, 1))
    <3>1. 1 \in Nat \ {0}
      OBVIOUS
    <3> QED
      BY <1>1, <3>1, ScrollActs
  <2> QED
    BY <1>1, <1>3, <1>4, <1>5, <2>1, <2>2, RedrawnIs
<1>9. ASSUME v.row < v.bot
      PROVE  FeedByte(v, 10).cells = v.cells /\ FeedByte(v, 10).cols = v.cols
  <2> DEFINE x == [w EXCEPT !.row = @ + 1]
  <2>1. LineFeed(w) = x
    BY <1>6, <1>9 DEF LineFeed
  <2>2. x.cells = v.cells /\ x.cols = v.cols /\ Shaped(x)
    BY <1>1 DEF Shaped, Fields, WithParser
  <2> HIDE DEF x
  <2>3. AtRest(x).cells = x.cells /\ AtRest(x).cols = x.cols
    BY <2>2 DEF AtRest, Shaped, Fields
  <2> QED
    BY <1>4, <1>5, <2>1, <2>2, <2>3
<1> QED
  BY <1>2, <1>8, <1>9

(* A place in a row lies before the start of another row when its row does. *)
LEMMA RowBefore ==
  ASSUME NEW m \in Nat \ {0}, NEW a \in Nat, NEW b \in Nat, NEW c \in 0 .. m - 1
  PROVE  a * m + c < b * m <=> a < b
<1>1. a * m \in Nat /\ b * m \in Nat /\ c \in Nat /\ c < m
  OBVIOUS
<1>2. ASSUME a < b
      PROVE  a * m + c < b * m
  <2>1. b \in Nat \ {0}
    BY <1>2
  <2> QED
    BY <1>1, <1>2, <2>1, CellPlaces
<1>3. ASSUME ~(a < b)
      PROVE  ~(a * m + c < b * m)
  <2>1. a - b \in Nat
    BY <1>3
  <2>2. (a - b) * m \in Nat
    BY <2>1
  <2>3. a * m = (a - b) * m + b * m
    OBVIOUS
  <2> QED
    BY <1>1, <2>2, <2>3
<1> QED
  BY <1>2, <1>3

LEMMA ScrolledLines ==
  ASSUME NEW v, Usable(v), NEW n \in Nat \ {0}, NEW r \in 0 .. v.rows - 1
  PROVE  /\ Line(Redrawn(v, UpCells(v, n)), r) =
                IF r \notin v.top .. v.bot THEN Line(v, r)
                ELSE IF r + n <= v.bot THEN Line(v, r + n) ELSE BlankLine(v)
         /\ Line(Redrawn(v, DownCells(v, n)), r) =
                IF r \notin v.top .. v.bot THEN Line(v, r)
                ELSE IF r - n >= v.top THEN Line(v, r - n) ELSE BlankLine(v)
<1> DEFINE m == v.cols
           up == UpCells(v, n)
           down == DownCells(v, n)
<1>1. /\ m \in Nat \ {0} /\ v.rows \in Nat \ {0} /\ v.top \in Nat /\ v.bot \in Nat
      /\ r \in Nat /\ r < v.rows
  BY UsableHas
<1>2. Shaped(v) /\ v.cells = [i \in 0 .. v.rows * m - 1 |-> v.cells[i]]
  BY DEF Usable, Good, IsScreen, Shaped, Total
<1>3. /\ Redrawn(v, up).cols = m /\ Redrawn(v, up).cells = up
      /\ Redrawn(v, down).cols = m /\ Redrawn(v, down).cells = down
  BY <1>2 DEF Redrawn, Shaped, Fields
<1>4. ASSUME NEW c \in 0 .. m - 1
      PROVE  /\ up[r * m + c] = IF r \notin v.top .. v.bot THEN v.cells[r * m + c]
                                ELSE IF r + n <= v.bot THEN v.cells[(r + n) * m + c] ELSE Blank
             /\ down[r * m + c] = IF r \notin v.top .. v.bot THEN v.cells[r * m + c]
                                  ELSE IF r - n >= v.top THEN v.cells[(r - n) * m + c]
                                  ELSE Blank
  <2> DEFINE i == r * m + c
             a == v.top * m
             b == (v.bot + 1) * m
             d == n * m
  <2>1. i \in Nat /\ a \in Nat /\ b \in Nat /\ d \in Nat
    BY <1>1
  <2>2. i \in DOMAIN v.cells
    <3>1. c \in Nat /\ c < m
      BY <1>1
    <3>2. i < v.rows * m /\ v.rows * m \in Nat
      BY <1>1, <3>1, CellPlaces
    <3> HIDE DEF i
    <3> QED
      BY <1>2, <2>1, <3>2
  <2>3. /\ i < a <=> r < v.top
        /\ i < b <=> r < v.bot + 1
    <3>1. v.bot + 1 \in Nat
      BY <1>1
    <3> QED
      BY <1>1, <3>1, RowBefore
  <2>4. i \in a .. b - 1 <=> r \in v.top .. v.bot
    <3> HIDE DEF i, a, b
    <3> QED
      BY <1>1, <2>1, <2>3
  <2>5. i + d = (r + n) * m + c /\ (i + d < b <=> r + n <= v.bot)
    <3>1. i + d = (r + n) * m + c
      BY <1>1
    <3>2. r + n \in Nat /\ v.bot + 1 \in Nat
      BY <1>1
    <3>3. (r + n) * m + c < b <=> r + n < v.bot + 1
      BY <1>1, <3>2, RowBefore
    <3> HIDE DEF i, b, d
    <3> QED
      BY <1>1, <3>1, <3>3
  <2>6. i - d = (r - n) * m + c /\ (i - d >= a <=> r - n >= v.top)
    <3>1. i - d = (r - n) * m + c
      BY <1>1
    <3>2. (v.top + n) * m = a + d /\ v.top + n \in Nat
      BY <1>1
    <3>3. i < (v.top + n) * m <=> r < v.top + n
      BY <1>1, <3>2, RowBefore
    <3> HIDE DEF i, a, d
    <3>4. i < a + d <=> r < v.top + n
      BY <3>2, <3>3
    <3>5. i - d >= a <=> ~(i < a + d)
      BY <2>1
    <3>6. r - n >= v.top <=> ~(r < v.top + n)
      BY <1>1
    <3> QED
      BY <3>1, <3>4, <3>5, <3>6
  <2>7. up[i] = IF v.top > v.bot \/ i \notin a .. b - 1 THEN v.cells[i]
                ELSE IF i + d < b THEN v.cells[i + d] ELSE Blank
    BY <2>2 DEF UpCells
  <2>8. down[i] = IF v.top > v.bot \/ i \notin a .. b - 1 THEN v.cells[i]
                  ELSE IF i - d >= a THEN v.cells[i - d] ELSE Blank
    BY <2>2 DEF DownCells
  <2>9. v.top > v.bot => r \notin v.top .. v.bot
    BY <1>1
  <2> HIDE DEF i, a, b, d, up, down
  <2>10. up[i] = IF r \notin v.top .. v.bot THEN v.cells[i]
                 ELSE IF r + n <= v.bot THEN v.cells[i + d] ELSE Blank
    BY <2>4, <2>5, <2>7, <2>9
  <2>11. down[i] = IF r \notin v.top .. v.bot THEN v.cells[i]
                   ELSE IF r - n >= v.top THEN v.cells[i - d] ELSE Blank
    BY <2>4, <2>6, <2>8, <2>9
  <2> QED
    BY <2>5, <2>6, <2>10, <2>11 DEF i
<1> HIDE DEF up, down
<1>5. Line(Redrawn(v, up), r) = [c \in 0 .. m - 1 |-> up[r * m + c]]
      /\ Line(Redrawn(v, down), r) = [c \in 0 .. m - 1 |-> down[r * m + c]]
  BY <1>3 DEF Line
<1>6. \A k : Line(v, k) = [c \in 0 .. m - 1 |-> v.cells[k * m + c]]
  BY DEF Line
<1>7. Line(Redrawn(v, up), r) =
          IF r \notin v.top .. v.bot THEN Line(v, r)
          ELSE IF r + n <= v.bot THEN Line(v, r + n) ELSE BlankLine(v)
  <2>1. CASE r \notin v.top .. v.bot
    <3>1. \A c \in 0 .. m - 1 : up[r * m + c] = v.cells[r * m + c]
      BY <1>4, <2>1
    <3> QED
      BY <1>5, <1>6, <2>1, <3>1
  <2>2. CASE r \in v.top .. v.bot /\ r + n <= v.bot
    <3>1. \A c \in 0 .. m - 1 : up[r * m + c] = v.cells[(r + n) * m + c]
      BY <1>4, <2>2
    <3>2. Line(v, r + n) = [c \in 0 .. m - 1 |-> v.cells[(r + n) * m + c]]
      BY <1>6
    <3> QED
      BY <1>5, <2>2, <3>1, <3>2
  <2>3. CASE r \in v.top .. v.bot /\ ~(r + n <= v.bot)
    <3>1. \A c \in 0 .. m - 1 : up[r * m + c] = Blank
      BY <1>4, <2>3
    <3> QED
      BY <1>5, <2>3, <3>1 DEF BlankLine
  <2> QED
    BY <2>1, <2>2, <2>3
<1>8. Line(Redrawn(v, down), r) =
          IF r \notin v.top .. v.bot THEN Line(v, r)
          ELSE IF r - n >= v.top THEN Line(v, r - n) ELSE BlankLine(v)
  <2>1. CASE r \notin v.top .. v.bot
    <3>1. \A c \in 0 .. m - 1 : down[r * m + c] = v.cells[r * m + c]
      BY <1>4, <2>1
    <3> QED
      BY <1>5, <1>6, <2>1, <3>1
  <2>2. CASE r \in v.top .. v.bot /\ r - n >= v.top
    <3>1. \A c \in 0 .. m - 1 : down[r * m + c] = v.cells[(r - n) * m + c]
      BY <1>4, <2>2
    <3>2. Line(v, r - n) = [c \in 0 .. m - 1 |-> v.cells[(r - n) * m + c]]
      BY <1>6
    <3> QED
      BY <1>5, <2>2, <3>1, <3>2
  <2>3. CASE r \in v.top .. v.bot /\ ~(r - n >= v.top)
    <3>1. \A c \in 0 .. m - 1 : down[r * m + c] = Blank
      BY <1>4, <2>3
    <3> QED
      BY <1>5, <2>3, <3>1 DEF BlankLine
  <2> QED
    BY <2>1, <2>2, <2>3
<1> QED
  BY <1>7, <1>8 DEF up, down

(* Lines outside the margins stay. *)
LEMMA ScrollKeepsOthers ==
  ASSUME NEW v, Usable(v), NEW n \in Nat \ {0}
  PROVE  LET others == (0 .. v.rows - 1) \ (v.top .. v.bot)
         IN  /\ Lines(Redrawn(v, UpCells(v, n)), others) = Lines(v, others)
             /\ Lines(Redrawn(v, DownCells(v, n)), others) = Lines(v, others)
<1> DEFINE others == (0 .. v.rows - 1) \ (v.top .. v.bot)
<1>1. \A r \in others : /\ Line(Redrawn(v, UpCells(v, n)), r) = Line(v, r)
                        /\ Line(Redrawn(v, DownCells(v, n)), r) = Line(v, r)
  BY ScrolledLines
<1> HIDE DEF others
<1>2. /\ Lines(Redrawn(v, UpCells(v, n)), others) = Lines(v, others)
      /\ Lines(Redrawn(v, DownCells(v, n)), others) = Lines(v, others)
  BY <1>1 DEF Lines
<1> QED
  BY <1>2 DEF others

(* Shifting a sequence by n, and filling up. *)
Raised(R, n, e)  == [k \in 1 .. Len(R) |-> IF k + n <= Len(R) THEN R[k + n] ELSE e]
Lowered(R, n, e) == [k \in 1 .. Len(R) |-> IF k - n >= 1 THEN R[k - n] ELSE e]
Filler(R, n, e)  == [k \in 1 .. IF n < Len(R) THEN n ELSE Len(R) |-> e]

LEMMA Shifted ==
  ASSUME NEW S, NEW R \in Seq(S), NEW e \in S, NEW n \in Nat \ {0}
  PROVE  /\ Raised(R, n, e) = SubSeq(R, n + 1, Len(R)) \o Filler(R, n, e)
         /\ Lowered(R, n, e) = Filler(R, n, e) \o SubSeq(R, 1, Len(R) - n)
<1> DEFINE h == Len(R)
           f == IF n < h THEN n ELSE h
           fill == [k \in 1 .. f |-> e]
           up == [k \in 1 .. h |-> IF k + n <= h THEN R[k + n] ELSE e]
           down == [k \in 1 .. h |-> IF k - n >= 1 THEN R[k - n] ELSE e]
           low == SubSeq(R, 1, h - n)
           high == SubSeq(R, n + 1, h)
<1>1. h \in Nat /\ f \in Nat /\ (n < h => f = n) /\ (~(n < h) => f = h)
      /\ \A k \in 1 .. h : R[k] \in S
  BY LenProperties, ElementOfSeq
<1>2. high \in Seq(S) /\ Len(high) = (IF n < h THEN h - n ELSE 0)
      /\ \A k \in 1 .. h - n : high[k] = R[n + k]
  <2>1. n + 1 \in Int /\ h \in Int /\ \A k \in n + 1 .. h : R[k] \in S
    BY <1>1
  <2> HIDE DEF h
  <2>2. /\ high \in Seq(S)
        /\ Len(high) = IF n + 1 <= h THEN h - (n + 1) + 1 ELSE 0
        /\ \A k \in 1 .. h - (n + 1) + 1 : high[k] = R[n + 1 + k - 1]
    BY <2>1, SubSeqProperties
  <2> HIDE DEF high
  <2>3. h - (n + 1) + 1 = h - n /\ (n + 1 <= h <=> n < h)
    BY <2>1
  <2>4. \A k \in Int : n + 1 + k - 1 = n + k
    OBVIOUS
  <2> QED
    BY <2>1, <2>2, <2>3, <2>4
<1>3. low \in Seq(S) /\ Len(low) = (IF n < h THEN h - n ELSE 0)
      /\ \A k \in 1 .. h - n : low[k] = R[k]
  <2>1. 1 \in Int /\ h - n \in Int /\ \A k \in 1 .. h - n : R[k] \in S
    BY <1>1
  <2> DEFINE m == h - n
  <2> HIDE DEF m
  <2>2. /\ SubSeq(R, 1, m) \in Seq(S)
        /\ Len(SubSeq(R, 1, m)) = IF 1 <= m THEN m - 1 + 1 ELSE 0
        /\ \A k \in 1 .. m - 1 + 1 : SubSeq(R, 1, m)[k] = R[1 + k - 1]
    BY <2>1, SubSeqProperties DEF m
  <2>3. m \in Int /\ m - 1 + 1 = m /\ (1 <= m <=> n < h)
    BY <1>1 DEF m
  <2>4. \A k \in Int : 1 + k - 1 = k
    OBVIOUS
  <2> HIDE DEF h
  <2>5. SubSeq(R, 1, m) = low
    BY DEF m
  <2> HIDE DEF low
  <2>6. low \in Seq(S) /\ Len(low) = IF n < h THEN m ELSE 0
    BY <2>2, <2>3, <2>5
  <2>7. \A k \in 1 .. m : low[k] = R[k]
    BY <2>2, <2>3, <2>4, <2>5
  <2> QED
    BY <2>6, <2>7 DEF m
<1>4. fill \in Seq(S) /\ Len(fill) = f /\ \A k \in 1 .. f : fill[k] = e
  <2> HIDE DEF f
  <2> QED
    BY <1>1
<1>5. up \in Seq(S) /\ Len(up) = h /\ down \in Seq(S) /\ Len(down) = h
  <2>1. \A k \in 1 .. h : up[k] \in S /\ down[k] \in S
    BY <1>1
  <2> HIDE DEF h
  <2> QED
    BY <1>1, <2>1
<1>6. /\ high \o fill \in Seq(S) /\ Len(high \o fill) = Len(high) + Len(fill)
      /\ \A k \in 1 .. Len(high) + Len(fill) : (high \o fill)[k] =
             IF k <= Len(high) THEN high[k] ELSE fill[k - Len(high)]
  BY <1>2, <1>4, ConcatProperties
<1>7. /\ fill \o low \in Seq(S) /\ Len(fill \o low) = Len(fill) + Len(low)
      /\ \A k \in 1 .. Len(fill) + Len(low) : (fill \o low)[k] =
             IF k <= Len(fill) THEN fill[k] ELSE low[k - Len(fill)]
  BY <1>3, <1>4, ConcatProperties
<1>8. /\ \A k \in 1 .. h : up[k] = IF k + n <= h THEN R[k + n] ELSE e
      /\ \A k \in 1 .. h : down[k] = IF k - n >= 1 THEN R[k - n] ELSE e
  OBVIOUS
<1> HIDE DEF h, f, fill, up, down, low, high
<1>9. up = high \o fill
  <2>1. Len(high) + Len(fill) = h
    BY <1>1, <1>2, <1>4
  <2>2. ASSUME NEW k \in 1 .. h
        PROVE  up[k] = (high \o fill)[k]
    <3>1. CASE k + n <= h
      <4>1. k \in 1 .. h - n /\ k <= Len(high) /\ n + k = k + n
        BY <1>1, <1>2, <3>1
      <4> QED
        BY <1>2, <1>6, <1>8, <2>1, <3>1, <4>1
    <3>2. CASE ~(k + n <= h)
      <4>1. ~(k <= Len(high)) /\ k - Len(high) \in 1 .. f
        BY <1>1, <1>2, <3>2
      <4>2. fill[k - Len(high)] = e
        BY <1>4, <4>1
      <4> QED
        BY <1>6, <1>8, <2>1, <3>2, <4>1, <4>2
    <3> QED
      BY <3>1, <3>2
  <2> QED
    BY <1>5, <1>6, <2>1, <2>2, SeqEqual
<1>10. down = fill \o low
  <2>1. Len(fill) + Len(low) = h
    BY <1>1, <1>3, <1>4
  <2>2. ASSUME NEW k \in 1 .. h
        PROVE  down[k] = (fill \o low)[k]
    <3>1. CASE k - n >= 1
      <4>1. k - n \in 1 .. h - n /\ f = n /\ ~(k <= Len(fill)) /\ k - Len(fill) = k - n
        BY <1>1, <1>4, <3>1
      <4>2. low[k - n] = R[k - n]
        BY <1>3, <4>1
      <4> QED
        BY <1>7, <1>8, <2>1, <3>1, <4>1, <4>2
    <3>2. CASE ~(k - n >= 1)
      <4>1. k <= Len(fill) /\ k \in 1 .. f
        BY <1>1, <1>4, <3>2
      <4> QED
        BY <1>4, <1>7, <1>8, <2>1, <3>2, <4>1
    <3> QED
      BY <3>1, <3>2
  <2> QED
    BY <1>5, <1>7, <2>1, <2>2, SeqEqual
<1> QED
  BY <1>9, <1>10 DEF h, f, fill, up, down, low, high, Raised, Lowered, Filler

(* The lines between the margins, as a sequence; there are none when the    *)
(* margins cross.                                                           *)
Height(v) == IF v.top <= v.bot THEN v.bot - v.top + 1 ELSE 0

LEMMA RegionIs ==
  ASSUME NEW v, Usable(v)
  PROVE  /\ Height(v) \in Nat /\ Len(Region(v)) = Height(v)
         /\ Region(v) \in Seq({Line(v, r) : r \in Nat} \cup {BlankLine(v)})
         /\ Region(v) = [k \in 1 .. Height(v) |-> Line(v, v.top + k - 1)]
         /\ \A k \in 1 .. Height(v) : v.top + k - 1 \in v.top .. v.bot
<1> DEFINE h == Height(v)
           S == {Line(v, r) : r \in Nat} \cup {BlankLine(v)}
<1>1. v.top \in Nat /\ v.bot \in Nat
  BY UsableHas
<1>2. h \in Nat /\ 1 .. v.bot - v.top + 1 = 1 .. h
  BY <1>1 DEF Height
<1>3. \A k \in 1 .. h : v.top + k - 1 \in v.top .. v.bot /\ v.top + k - 1 \in Nat
  BY <1>1 DEF Height
<1> HIDE DEF h
<1>4. Region(v) = [k \in 1 .. h |-> Line(v, v.top + k - 1)]
  BY <1>2 DEF Region
<1>5. \A k \in 1 .. h : Line(v, v.top + k - 1) \in S
  BY <1>3
<1> HIDE DEF S
<1>6. Region(v) \in Seq(S) /\ Len(Region(v)) = h
  BY <1>2, <1>4, <1>5
<1> QED
  BY <1>2, <1>3, <1>4, <1>6 DEF h, S

(* A scroll shifts that sequence. *)
LEMMA RegionShifts ==
  ASSUME NEW v, Usable(v), NEW n \in Nat \ {0}
  PROVE  LET height == Len(Region(v))
             fill == [k \in 1 .. IF n < height THEN n ELSE height |-> BlankLine(v)]
         IN  /\ Region(Redrawn(v, UpCells(v, n))) = SubSeq(Region(v), n + 1, height) \o fill
             /\ Region(Redrawn(v, DownCells(v, n)))
                    = fill \o SubSeq(Region(v), 1, height - n)
<1> DEFINE h == Height(v)
           R == Region(v)
           S == {Line(v, r) : r \in Nat} \cup {BlankLine(v)}
           up == Redrawn(v, UpCells(v, n))
           down == Redrawn(v, DownCells(v, n))
<1>1. /\ v.top \in Nat /\ v.bot \in Nat /\ v.bot < v.rows /\ v.rows \in Nat
  BY UsableHas
<1>2. /\ h \in Nat /\ Len(R) = h /\ R \in Seq(S)
      /\ R = [k \in 1 .. h |-> Line(v, v.top + k - 1)]
      /\ \A k \in 1 .. h : v.top + k - 1 \in v.top .. v.bot
  BY RegionIs
<1>3. Shaped(v)
  BY DEF Usable, Good, IsScreen, Shaped
<1>4. /\ up.top = v.top /\ up.bot = v.bot /\ down.top = v.top /\ down.bot = v.bot
  BY <1>3 DEF Redrawn, Shaped, Fields
<1>5. BlankLine(v) \in S
  OBVIOUS
<1>6. R \in Seq(S)
  BY <1>2
<1>7. 1 .. v.bot - v.top + 1 = 1 .. h
  BY <1>1 DEF Height
<1>8. \A k \in 1 .. h : h = v.bot - v.top + 1
  BY <1>1 DEF Height
<1> HIDE DEF h, R, S, up, down
<1>9. ASSUME NEW k \in 1 .. h
      PROVE  /\ Line(up, v.top + k - 1) = IF k + n <= h THEN R[k + n] ELSE BlankLine(v)
             /\ Line(down, v.top + k - 1) = IF k - n >= 1 THEN R[k - n] ELSE BlankLine(v)
  <2> DEFINE r == v.top + k - 1
  <2>1. r \in v.top .. v.bot /\ r \in 0 .. v.rows - 1
    BY <1>1, <1>2
  <2>2. /\ Line(up, r) = IF r + n <= v.bot THEN Line(v, r + n) ELSE BlankLine(v)
        /\ Line(down, r) = IF r - n >= v.top THEN Line(v, r - n) ELSE BlankLine(v)
    BY <2>1, ScrolledLines DEF up, down
  <2>3. /\ r + n <= v.bot <=> k + n <= h
        /\ r - n >= v.top <=> k - n >= 1
        /\ r + n = v.top + (k + n) - 1 /\ r - n = v.top + (k - n) - 1
    <3>1. h = v.bot - v.top + 1 /\ h \in Nat /\ k \in Int
      BY <1>2, <1>8
    <3> QED
      BY <1>1, <3>1
  <2>4. /\ k + n <= h => R[k + n] = Line(v, v.top + (k + n) - 1)
        /\ k - n >= 1 => R[k - n] = Line(v, v.top + (k - n) - 1)
    <3>1. \A j \in 1 .. h : R[j] = Line(v, v.top + j - 1)
      BY <1>2
    <3>2. /\ k + n <= h => k + n \in 1 .. h
          /\ k - n >= 1 => k - n \in 1 .. h
      BY <1>2
    <3> QED
      BY <3>1, <3>2
  <2> HIDE DEF r
  <2>5. /\ Line(up, r) = IF k + n <= h THEN R[k + n] ELSE BlankLine(v)
        /\ Line(down, r) = IF k - n >= 1 THEN R[k - n] ELSE BlankLine(v)
    BY <2>2, <2>3, <2>4
  <2> QED
    BY <2>5 DEF r
<1>10. /\ Region(up) = [k \in 1 .. h |-> IF k + n <= h THEN R[k + n] ELSE BlankLine(v)]
       /\ Region(down) = [k \in 1 .. h |-> IF k - n >= 1 THEN R[k - n] ELSE BlankLine(v)]
  <2>1. /\ Region(up) = [k \in 1 .. h |-> Line(up, v.top + k - 1)]
        /\ Region(down) = [k \in 1 .. h |-> Line(down, v.top + k - 1)]
    BY <1>4, <1>7 DEF Region
  <2> QED
    BY <1>9, <2>1
<1>11. /\ Raised(R, n, BlankLine(v)) = SubSeq(R, n + 1, Len(R)) \o Filler(R, n, BlankLine(v))
       /\ Lowered(R, n, BlankLine(v))
              = Filler(R, n, BlankLine(v)) \o SubSeq(R, 1, Len(R) - n)
  BY <1>5, <1>6, Shifted
<1>12. /\ Region(up) = Raised(R, n, BlankLine(v))
       /\ Region(down) = Lowered(R, n, BlankLine(v))
  BY <1>2, <1>10 DEF Raised, Lowered
<1>13. /\ Region(up) = SubSeq(R, n + 1, Len(R)) \o Filler(R, n, BlankLine(v))
       /\ Region(down) = Filler(R, n, BlankLine(v)) \o SubSeq(R, 1, Len(R) - n)
  BY <1>11, <1>12
<1> QED
  BY <1>13 DEF R, up, down, Filler

(* A line feed scrolls at the bottom margin; above it, it moves the cursor  *)
(* and leaves the lines alone.                                              *)
LEMMA LineFeedKeepsOthers ==
  ASSUME NEW v, Waiting(v)
  PROVE  LET feed   == FeedBytes(v, <<10>>)
             others == (0 .. v.rows - 1) \ (v.top .. v.bot)
         IN  /\ v.row = v.bot => feed = FeedBytes(v, Csi(<<49>>, 83))
             /\ Lines(feed, others) = Lines(v, others)
<1> DEFINE feed == FeedBytes(v, <<10>>)
           others == (0 .. v.rows - 1) \ (v.top .. v.bot)
<1>1. Usable(v) /\ v.row \in Nat /\ v.bot \in Nat
  BY UsableHas DEF Waiting
<1>2. /\ v.row >= v.bot => feed = Redrawn(v, UpCells(v, 1))
      /\ v.row < v.bot => feed.cells = v.cells /\ feed.cols = v.cols
  BY LineFeedFeeds
<1>3. FeedBytes(v, Csi(<<49>>, 83)) = Redrawn(v, UpCells(v, 1))
  <2>1. 1 \in 1 .. 9 /\ 48 + 1 = 49
    OBVIOUS
  <2>2. FeedBytes(v, Csi(<<48 + 1>>, 83)) = Redrawn(v, UpCells(v, 1))
    BY <2>1, ScrollFeeds
  <2> QED
    BY <2>1, <2>2
<1>4. Lines(Redrawn(v, UpCells(v, 1)), others) = Lines(v, others)
  <2>1. 1 \in Nat \ {0}
    OBVIOUS
  <2> QED
    BY <1>1, <2>1, ScrollKeepsOthers
<1>5. ASSUME v.row < v.bot
      PROVE  Lines(feed, others) = Lines(v, others)
  <2> HIDE DEF feed
  <2>1. \A r : Line(feed, r) = Line(v, r)
    BY <1>2, <1>5 DEF Line
  <2> QED
    BY <2>1 DEF Lines
<1> HIDE DEF feed, others
<1>6. v.row = v.bot => feed = FeedBytes(v, Csi(<<49>>, 83))
  BY <1>1, <1>2, <1>3
<1>7. Lines(feed, others) = Lines(v, others)
  BY <1>1, <1>2, <1>4, <1>5
<1> QED
  BY <1>6, <1>7 DEF feed, others

(* Scrolling, by CSI S, CSI T or a line feed on the bottom margin, shifts   *)
(* whole lines between the margins, blanks the ones that come free, and     *)
(* leaves every line outside the margins as it was (vt100_scroll_up,        *)
(* vt100_scroll_down, execute_control).                                     *)
THEOREM ScrollingIsByLines == Spec => []RegionScrolls
<1>1. VtInv => RegionScrolls
  <2> SUFFICES ASSUME VtInv, Ready, NEW n \in 1 .. 2
      PROVE  LET up     == FeedBytes(vt, Csi(<<48 + n>>, 83))
                 down   == FeedBytes(vt, Csi(<<48 + n>>, 84))
                 feed   == FeedBytes(vt, <<10>>)
                 height == Len(Region(vt))
                 blank  == [k \in 1 .. IF n < height THEN n ELSE height |->
                               [c \in 0 .. vt.cols - 1 |-> Blank]]
                 others == (0 .. vt.rows - 1) \ (vt.top .. vt.bot)
             IN  /\ Region(up) = SubSeq(Region(vt), n + 1, height) \o blank
                 /\ Region(down) = blank \o SubSeq(Region(vt), 1, height - n)
                 /\ vt.row = vt.bot => feed = FeedBytes(vt, Csi(<<49>>, 83))
                 /\ \A v \in {up, down, feed} : Lines(v, others) = Lines(vt, others)
    BY DEF RegionScrolls
  <2> DEFINE up     == FeedBytes(vt, Csi(<<48 + n>>, 83))
             down   == FeedBytes(vt, Csi(<<48 + n>>, 84))
             feed   == FeedBytes(vt, <<10>>)
             height == Len(Region(vt))
             blank  == [k \in 1 .. IF n < height THEN n ELSE height |-> BlankLine(vt)]
             others == (0 .. vt.rows - 1) \ (vt.top .. vt.bot)
  <2>1. Waiting(vt) /\ Usable(vt) /\ n \in Nat \ {0} /\ n \in 1 .. 9
    BY DEF VtInv, Ready, Waiting, Usable
  <2>2. up = Redrawn(vt, UpCells(vt, n)) /\ down = Redrawn(vt, DownCells(vt, n))
    BY <2>1, ScrollFeeds
  <2>3. /\ Region(Redrawn(vt, UpCells(vt, n))) = SubSeq(Region(vt), n + 1, height) \o blank
        /\ Region(Redrawn(vt, DownCells(vt, n)))
               = blank \o SubSeq(Region(vt), 1, height - n)
    BY <2>1, RegionShifts
  <2>4. /\ Lines(Redrawn(vt, UpCells(vt, n)), others) = Lines(vt, others)
        /\ Lines(Redrawn(vt, DownCells(vt, n)), others) = Lines(vt, others)
    BY <2>1, ScrollKeepsOthers
  <2>5. /\ vt.row = vt.bot => feed = FeedBytes(vt, Csi(<<49>>, 83))
        /\ Lines(feed, others) = Lines(vt, others)
    BY <2>1, LineFeedKeepsOthers
  <2> HIDE DEF up, down, feed, height, blank, others
  <2>6. /\ Region(up) = SubSeq(Region(vt), n + 1, height) \o blank
        /\ Region(down) = blank \o SubSeq(Region(vt), 1, height - n)
        /\ \A v \in {up, down, feed} : Lines(v, others) = Lines(vt, others)
    BY <2>2, <2>3, <2>4, <2>5
  <2> QED
    BY <2>5, <2>6 DEF up, down, feed, height, blank, others, BlankLine
<1> QED
  BY <1>1, ScreenInvariant, PTL

-----------------------------------------------------------------------------
(* The styles of CSI m.  Turns(a, ps, n) is handle_sgr's loop after n turns *)
(* over the parameters ps.                                                  *)
AttrShaped(x) == x = [f \in {"on", "fg", "bg"} |-> x[f]]
StyleOK(acc) == /\ acc = [f \in {"attr", "last", "params"} |-> acc[f]]
                /\ AttrShaped(acc.attr)

Styling == INSTANCE FoldFacts WITH Step <- SgrStep, Good <- StyleOK

UpTo(n)         == [i \in 1 .. n |-> i]
FirstTurn(a, ps) == [attr |-> a, last |-> 0, params |-> ps]
Turns(a, ps, n) == FoldLeft(SgrStep, FirstTurn(a, ps), UpTo(n))

LEMMA StyledOK ==
  ASSUME NEW a, AttrShaped(a), NEW c, NEW k
  PROVE  /\ AttrShaped(Styled(a, c, k))
         /\ c = 38 => Styled(a, c, k) = [a EXCEPT !.fg = k]
         /\ c = 48 => Styled(a, c, k) = [a EXCEPT !.bg = k]
<1>1. DOMAIN StyleOf = {1, 3, 4, 5, 7}
  BY DEF StyleOf
<1>2. AttrShaped(DefaultAttr)
  BY DEF AttrShaped, DefaultAttr
<1>3. ASSUME NEW x
      PROVE  /\ AttrShaped([a EXCEPT !.on = x]) /\ AttrShaped([a EXCEPT !.fg = x])
             /\ AttrShaped([a EXCEPT !.bg = x])
  BY DEF AttrShaped
<1>4. c = 38 => Styled(a, c, k) = [a EXCEPT !.fg = k]
  BY <1>1 DEF Styled
<1>5. c = 48 => Styled(a, c, k) = [a EXCEPT !.bg = k]
  BY <1>1 DEF Styled
<1>6. AttrShaped(Styled(a, c, k))
  <2> DEFINE on1 == a.on \cup {StyleOf[c]}
             on2 == a.on \ {StyleOff(c)}
  <2>1. Styled(a, c, k) \in {DefaultAttr, [a EXCEPT !.on = on1], [a EXCEPT !.on = on2],
                             [a EXCEPT !.fg = <<"16", c>>], [a EXCEPT !.bg = <<"16", c>>],
                             [a EXCEPT !.fg = k], [a EXCEPT !.bg = k], a}
    BY DEF Styled
  <2> HIDE DEF on1, on2
  <2> QED
    BY <1>2, <1>3, <2>1
<1> QED
  BY <1>4, <1>5, <1>6

LEMMA TurnIs ==
  ASSUME NEW acc, StyleOK(acc), NEW i
  PROVE  LET r     == SgrStep(acc, i)
             c     == acc.params[i]
             found == DecodeColor(acc.params, i)
         IN  /\ StyleOK(r) /\ r.params = acc.params
             /\ i <= acc.last => r = acc
             /\ ~(i <= acc.last) =>
                  /\ r.attr = Styled(acc.attr, c,
                                     IF c \in {38, 48} THEN found.color ELSE <<"NONE">>)
                  /\ r.last = IF c \in {38, 48} THEN found.last ELSE acc.last
<1> DEFINE r     == SgrStep(acc, i)
           c     == acc.params[i]
           found == DecodeColor(acc.params, i)
           k     == IF c \in {38, 48} THEN found.color ELSE <<"NONE">>
           l     == IF c \in {38, 48} THEN found.last ELSE acc.last
           a     == Styled(acc.attr, c, k)
<1>1. AttrShaped(a)
  BY StyledOK DEF StyleOK
<1>2. CASE i <= acc.last
  <2>1. r = acc
    BY <1>2 DEF SgrStep
  <2> QED
    BY <1>2, <2>1
<1>3. CASE ~(i <= acc.last)
  <2>1. r = [acc EXCEPT !.attr = a, !.last = l]
    <3>1. CASE c \in {38, 48}
      BY <1>3, <3>1 DEF SgrStep
    <3>2. CASE ~(c \in {38, 48})
      <4>1. r = [acc EXCEPT !.attr = a]
        BY <1>3, <3>2 DEF SgrStep
      <4>2. l = acc.last
        BY <3>2
      <4> HIDE DEF a, l, r
      <4>3. [acc EXCEPT !.attr = a] = [acc EXCEPT !.attr = a, !.last = l]
        BY <4>2 DEF StyleOK
      <4> QED
        BY <4>1, <4>3
    <3> QED
      BY <3>1, <3>2
  <2> HIDE DEF a, l, r
  <2>2. r.attr = a /\ r.last = l /\ r.params = acc.params /\ StyleOK(r)
    BY <1>1, <2>1 DEF StyleOK
  <2> QED
    BY <1>3, <2>2 DEF a, l, r
<1> QED
  BY <1>2, <1>3

LEMMA TurnsGoOn ==
  ASSUME NEW a, NEW ps, NEW n \in Nat
  PROVE  /\ Turns(a, ps, 0) = FirstTurn(a, ps)
         /\ Turns(a, ps, n + 1) = SgrStep(Turns(a, ps, n), n + 1)
<1>1. \A v, s : Styling!Folded(v, s) = FoldLeft(SgrStep, v, s)
  BY DEF Styling!Folded, FoldLeft, Styling!FoldLeft, MapThenFoldSet,
         Styling!MapThenFoldSet, Max, Styling!Max
<1>2. UpTo(0) = <<>>
  BY DEF UpTo
<1>3. UpTo(n) \in Seq(Nat) /\ n + 1 \in Nat /\ UpTo(n + 1) = Append(UpTo(n), n + 1)
  <2>1. UpTo(n) \in Seq(Nat) /\ Len(UpTo(n)) = n /\ \A i \in 1 .. n : UpTo(n)[i] = i
    BY DEF UpTo
  <2>2. UpTo(n + 1) \in Seq(Nat) /\ Len(UpTo(n + 1)) = n + 1
        /\ \A i \in 1 .. n + 1 : UpTo(n + 1)[i] = i
    BY DEF UpTo
  <2>3. /\ Append(UpTo(n), n + 1) \in Seq(Nat) /\ Len(Append(UpTo(n), n + 1)) = n + 1
        /\ \A i \in 1 .. n + 1 : Append(UpTo(n), n + 1)[i] = i
    BY <2>1, AppendProperties
  <2> QED
    BY <2>1, <2>2, <2>3, SeqEqual
<1>4. Styling!Folded(FirstTurn(a, ps), <<>>) = FirstTurn(a, ps)
  BY Styling!FoldedEmpty
<1>5. Styling!Folded(FirstTurn(a, ps), Append(UpTo(n), n + 1))
          = SgrStep(Styling!Folded(FirstTurn(a, ps), UpTo(n)), n + 1)
  BY <1>3, Styling!FoldedAppend
<1>6. Turns(a, ps, 0) = FirstTurn(a, ps)
  BY <1>1, <1>2, <1>4 DEF Turns
<1>7. Turns(a, ps, n + 1) = SgrStep(Turns(a, ps, n), n + 1)
  BY <1>1, <1>3, <1>5 DEF Turns
<1> QED
  BY <1>6, <1>7

LEMMA TurnsOK ==
  ASSUME NEW a, AttrShaped(a), NEW ps
  PROVE  \A n \in Nat : StyleOK(Turns(a, ps, n)) /\ Turns(a, ps, n).params = ps
<1> DEFINE T == {n \in Nat : StyleOK(Turns(a, ps, n)) /\ Turns(a, ps, n).params = ps}
<1>1. 0 \in T
  <2>1. StyleOK(FirstTurn(a, ps)) /\ FirstTurn(a, ps).params = ps
    BY DEF StyleOK, FirstTurn
  <2> QED
    BY <2>1, TurnsGoOn
<1>2. ASSUME NEW n \in Nat, n \in T
      PROVE  n + 1 \in T
  <2>1. StyleOK(Turns(a, ps, n)) /\ Turns(a, ps, n).params = ps
    BY <1>2
  <2>2. Turns(a, ps, n + 1) = SgrStep(Turns(a, ps, n), n + 1) /\ n + 1 \in Nat
    BY TurnsGoOn
  <2> QED
    BY <2>1, <2>2, TurnIs
<1> HIDE DEF T
<1>3. \A n \in Nat : n \in T
  BY <1>1, <1>2, Styling!SetInduction
<1> QED
  BY <1>3 DEF T

(* A list that is an extended colour and nothing else: 38 or 48, and 5 with *)
(* one number or 2 with three.                                              *)
WholeColour(ps) ==
    /\ ps \in Seq(Nat) /\ Len(ps) \in {3, 5} /\ ps[1] \in {38, 48}
    /\ ps[2] = IF Len(ps) = 3 THEN 5 ELSE 2

Rgb(ps, i) == <<"RGB">> \o [k \in 1 .. 3 |-> ps[i + 1 + k] % 256]

LEMMA Decoded ==
  ASSUME NEW ps \in Seq(Nat), NEW i \in Nat
  PROVE  LET found == DecodeColor(ps, i)
             one   == i + 2 <= Len(ps) /\ ps[i + 1] = 5
             three == i + 4 <= Len(ps) /\ ps[i + 1] = 2
         IN  /\ one => found.color = <<"256", ps[i + 2]>> /\ found.last = i + 2
             /\ three => found.color = Rgb(ps, i) /\ found.last = i + 4
             /\ ~one /\ ~three => found.color = <<"NONE">> /\ found.last = i
<1> DEFINE found == DecodeColor(ps, i)
           one   == i + 2 <= Len(ps) /\ ps[i + 1] = 5
           three == i + 4 <= Len(ps) /\ ps[i + 1] = 2
<1>1. ASSUME one
      PROVE  found.color = <<"256", ps[i + 2]>> /\ found.last = i + 2
  <2>1. ~three
    BY <1>1
  <2> DEFINE c == <<"256", ps[i + 2]>>
  <2>2. found = [color |-> c, last |-> i + 2]
    BY <1>1, <2>1 DEF DecodeColor
  <2> HIDE DEF c, found
  <2>3. found.color = c /\ found.last = i + 2
    BY <2>2
  <2> QED
    BY <2>3 DEF c, found
<1>2. ASSUME three
      PROVE  found.color = Rgb(ps, i) /\ found.last = i + 4
  <2>1. ~one
    BY <1>2
  <2>2. found = [color |-> Rgb(ps, i), last |-> i + 4]
    BY <1>2, <2>1 DEF DecodeColor, Rgb
  <2> HIDE DEF found
  <2>3. found.color = Rgb(ps, i) /\ found.last = i + 4
    BY <2>2
  <2> QED
    BY <2>3 DEF found
<1>3. ASSUME ~one, ~three
      PROVE  found.color = <<"NONE">> /\ found.last = i
  <2>1. found = [color |-> <<"NONE">>, last |-> i]
    BY <1>3 DEF DecodeColor
  <2> HIDE DEF found
  <2>2. found.color = <<"NONE">> /\ found.last = i
    BY <2>1
  <2> QED
    BY <2>2 DEF found
<1> QED
  BY <1>1, <1>2, <1>3

(* Its numbers are used up in the first turn, and the others change nothing, *)
(* whatever follows it.                                                     *)
LEMMA ColourTurns ==
  ASSUME NEW a, AttrShaped(a), NEW x, WholeColour(x),
         NEW ps \in Seq(Nat), Len(x) <= Len(ps), \A i \in 1 .. Len(x) : ps[i] = x[i]
  PROVE  LET acc == Turns(a, ps, Len(x))
         IN  /\ acc.attr = Styled(a, x[1], DecodeColor(x, 1).color)
             /\ acc.last = Len(x)
<1> DEFINE k == Len(x)
           found == DecodeColor(ps, 1)
<1>1. k \in {3, 5} /\ Len(ps) \in Nat /\ k <= Len(ps)
  BY LenProperties DEF WholeColour
<1>2. /\ ps[1] = x[1] /\ ps[2] = x[2] /\ x[1] \in {38, 48}
      /\ x[2] = IF k = 3 THEN 5 ELSE 2
  BY <1>1 DEF WholeColour
<1>3. found.color = DecodeColor(x, 1).color /\ found.last = k
  <2>1. CASE k = 3
    <3>1. ps[3] = x[3] /\ x[2] = 5
      BY <1>2, <2>1
    <3>2. /\ 1 + 2 = 3 /\ 1 + 1 = 2 /\ 1 \in Nat /\ 3 <= Len(ps) /\ 3 <= Len(x)
          /\ x \in Seq(Nat) /\ ps[2] = 5
      BY <1>1, <1>2, <2>1, <3>1 DEF WholeColour
    <3> HIDE DEF k
    <3>3. found.color = <<"256", ps[3]>> /\ found.last = 3
      BY <3>2, Decoded, SMTT(30)
    <3>4. DecodeColor(x, 1).color = <<"256", x[3]>>
      BY <3>1, <3>2, Decoded, SMTT(30)
    <3> QED
      BY <2>1, <3>1, <3>3, <3>4
  <2>2. CASE k = 5
    <3>1. /\ x[2] = 2 /\ ps[2] = 2 /\ 1 + 4 = 5 /\ 1 + 1 = 2 /\ 1 \in Nat
          /\ 5 <= Len(ps) /\ 5 <= Len(x) /\ x \in Seq(Nat)
      BY <1>1, <1>2, <2>2 DEF WholeColour
    <3>2. \A j \in 1 .. 3 : ps[1 + 1 + j] = x[1 + 1 + j]
      <4>1. \A j \in 1 .. 3 : 1 + 1 + j \in 1 .. k
        BY <2>2
      <4> QED
        BY <4>1
    <3>3. Rgb(ps, 1) = Rgb(x, 1)
      BY <3>2 DEF Rgb
    <3> HIDE DEF k
    <3>4. found.color = Rgb(ps, 1) /\ found.last = 1 + 4
      <4>1. ps \in Seq(Nat) /\ 1 \in Nat /\ 1 + 4 <= Len(ps) /\ ps[1 + 1] = 2
        BY <3>1
      <4> QED
        BY <4>1, Decoded
    <3>5. DecodeColor(x, 1).color = Rgb(x, 1)
      BY <3>1, Decoded
    <3> QED
      BY <2>2, <3>1, <3>3, <3>4, <3>5
  <2> QED
    BY <1>1, <2>1, <2>2
<1> DEFINE first == Turns(a, ps, 1)
<1>4. first.attr = Styled(a, x[1], DecodeColor(x, 1).color) /\ first.last = k
  <2> DEFINE acc == FirstTurn(a, ps)
  <2>1. Turns(a, ps, 0) = acc /\ Turns(a, ps, 0 + 1) = SgrStep(Turns(a, ps, 0), 0 + 1)
    BY TurnsGoOn
  <2>2. StyleOK(acc) /\ acc.params = ps /\ acc.last = 0 /\ acc.attr = a
    BY DEF StyleOK, FirstTurn
  <2>3. 0 + 1 = 1
    OBVIOUS
  <2>4. first = SgrStep(acc, 1)
    BY <2>1, <2>3
  <2> HIDE DEF acc, found, first, k
  <2>5. ~(1 <= acc.last)
    BY <2>2
  <2>6. /\ first.attr = Styled(acc.attr, acc.params[1],
                               IF acc.params[1] \in {38, 48}
                               THEN DecodeColor(acc.params, 1).color ELSE <<"NONE">>)
        /\ first.last = IF acc.params[1] \in {38, 48} THEN DecodeColor(acc.params, 1).last
                        ELSE acc.last
    BY <2>2, <2>4, <2>5, TurnIs
  <2> QED
    BY <1>2, <1>3, <2>2, <2>6 DEF found
<1> DEFINE T == {n \in Nat : n < k => Turns(a, ps, n + 1) = first}
<1>5. 0 \in T
  OBVIOUS
<1>6. ASSUME NEW n \in Nat, n \in T
      PROVE  n + 1 \in T
  <2> SUFFICES ASSUME n + 1 < k
               PROVE  Turns(a, ps, (n + 1) + 1) = first
    OBVIOUS
  <2>1. Turns(a, ps, n + 1) = first
    BY <1>1, <1>6
  <2> HIDE DEF first, k
  <2>2. n + 1 \in Nat /\ (n + 1) + 1 <= k
    BY <1>1
  <2>3. Turns(a, ps, (n + 1) + 1) = SgrStep(first, (n + 1) + 1)
    BY <2>1, <2>2, TurnsGoOn
  <2>4. StyleOK(first)
    BY <2>1, <2>2, TurnsOK
  <2> QED
    BY <1>4, <2>2, <2>3, <2>4, TurnIs
<1> HIDE DEF T, first
<1>7. \A n \in Nat : n \in T
  BY <1>5, <1>6, Styling!SetInduction
<1>8. k - 1 \in Nat /\ k - 1 < k /\ (k - 1) + 1 = k
  <2> HIDE DEF k
  <2> QED
    BY <1>1
<1>9. Turns(a, ps, k) = first
  <2>1. k - 1 \in T
    BY <1>7, <1>8
  <2> HIDE DEF k
  <2> QED
    BY <1>8, <2>1 DEF T
<1> QED
  BY <1>4, <1>9

(* A colour further on is found where it is, and reads the same numbers.    *)
LEMMA ColourBehind ==
  ASSUME NEW x \in Seq(Nat), NEW rest \in Seq(Nat), NEW i \in 1 .. Len(rest)
  PROVE  LET all == x \o rest
             there == DecodeColor(all, Len(x) + i)
             here == DecodeColor(rest, i)
         IN  /\ all[Len(x) + i] = rest[i]
             /\ there.color = here.color
             /\ here.last \in Nat /\ there.last = Len(x) + here.last
<1> DEFINE all == x \o rest
           k == Len(x)
           m == Len(rest)
<1>1. k \in Nat /\ m \in Nat /\ Len(all) = k + m
      /\ \A j \in 1 .. m : all[k + j] = rest[j]
  <2>1. /\ Len(all) = k + m /\ k \in Nat /\ m \in Nat
        /\ \A j \in 1 .. k + m : all[j] = IF j <= k THEN x[j] ELSE rest[j - k]
    BY ConcatProperties, LenProperties
  <2> HIDE DEF all, k, m
  <2>2. ASSUME NEW j \in 1 .. m PROVE all[k + j] = rest[j]
    <3>1. k + j \in 1 .. k + m /\ ~(k + j <= k) /\ (k + j) - k = j
      BY <2>1
    <3> QED
      BY <2>1, <3>1
  <2> QED
    BY <2>1, <2>2
<1>2. i \in Nat /\ i \in 1 .. m
  OBVIOUS
<1> DEFINE p == k + i
<1>3. all \in Seq(Nat)
  BY ConcatProperties
<1> HIDE DEF all, k, m
<1>4. all[p] = rest[i] /\ p \in Nat
  BY <1>1, <1>2
<1>5. ASSUME NEW d \in {1, 2, 3, 4}
      PROVE  /\ p + d <= Len(all) <=> i + d <= m
             /\ i + d <= m => all[p + d] = rest[i + d]
  <2>1. p + d = k + (i + d) /\ i + d \in Nat
    BY <1>1, <1>2
  <2>2. i + d <= m => i + d \in 1 .. m
    BY <1>1, <1>2
  <2> QED
    BY <1>1, <2>1, <2>2
<1> HIDE DEF p
<1>6. /\ p + 1 <= Len(all) <=> i + 1 <= m
      /\ p + 2 <= Len(all) <=> i + 2 <= m
      /\ p + 4 <= Len(all) <=> i + 4 <= m
      /\ i + 1 <= m => all[p + 1] = rest[i + 1]
      /\ i + 2 <= m => all[p + 2] = rest[i + 2]
  BY <1>5
<1>7. (i + 2 <= m \/ i + 4 <= m) => i + 1 <= m
  BY <1>1, <1>2
<1> DEFINE there == DecodeColor(all, p)
           here  == DecodeColor(rest, i)
<1>8. ASSUME i + 2 <= m, rest[i + 1] = 5
      PROVE  there.color = here.color /\ here.last = i + 2 /\ there.last = p + 2
  <2>1. p + 2 <= Len(all) /\ all[p + 1] = 5 /\ all[p + 2] = rest[i + 2]
    BY <1>6, <1>7, <1>8
  <2>2. there.color = <<"256", all[p + 2]>> /\ there.last = p + 2
    BY <1>3, <1>4, <2>1, Decoded
  <2>3. here.color = <<"256", rest[i + 2]>> /\ here.last = i + 2
    BY <1>2, <1>8, Decoded DEF m
  <2> QED
    BY <2>1, <2>2, <2>3
<1>9. ASSUME i + 4 <= m, rest[i + 1] = 2
      PROVE  there.color = here.color /\ here.last = i + 4 /\ there.last = p + 4
  <2>1. p + 4 <= Len(all) /\ all[p + 1] = 2
    BY <1>6, <1>7, <1>9
  <2>2. there.color = Rgb(all, p) /\ there.last = p + 4
    BY <1>3, <1>4, <2>1, Decoded
  <2>3. here.color = Rgb(rest, i) /\ here.last = i + 4
    BY <1>2, <1>9, Decoded DEF m
  <2>4. ASSUME NEW l \in 1 .. 3
        PROVE  all[p + 1 + l] = rest[i + 1 + l]
    <3>1. 1 + l \in {1, 2, 3, 4} /\ i + (1 + l) <= m
      BY <1>1, <1>2, <1>9
    <3>2. all[p + (1 + l)] = rest[i + (1 + l)]
      BY <1>5, <3>1
    <3>3. p + (1 + l) = p + 1 + l /\ i + (1 + l) = i + 1 + l
      BY <1>2, <1>4
    <3> QED
      BY <3>2, <3>3
  <2>5. Rgb(all, p) = Rgb(rest, i)
    BY <2>4 DEF Rgb
  <2> QED
    BY <2>2, <2>3, <2>5
<1>10. ASSUME ~(i + 2 <= m /\ rest[i + 1] = 5), ~(i + 4 <= m /\ rest[i + 1] = 2)
       PROVE  there.color = here.color /\ here.last = i /\ there.last = p
  <2>1. ~(p + 2 <= Len(all) /\ all[p + 1] = 5) /\ ~(p + 4 <= Len(all) /\ all[p + 1] = 2)
    BY <1>6, <1>7, <1>10
  <2>2. there.color = <<"NONE">> /\ there.last = p
    BY <1>3, <1>4, <2>1, Decoded
  <2>3. here.color = <<"NONE">> /\ here.last = i
    BY <1>2, <1>10, Decoded DEF m
  <2> QED
    BY <2>2, <2>3
<1> HIDE DEF there, here
<1>11. there.color = here.color
  BY <1>8, <1>9, <1>10
<1>12. here.last \in Nat /\ there.last = k + here.last
  <2>1. /\ p + 2 = k + (i + 2) /\ p + 4 = k + (i + 4) /\ p = k + i
        /\ i + 2 \in Nat /\ i + 4 \in Nat /\ i \in Nat
    BY <1>1, <1>2 DEF p
  <2> QED
    BY <1>8, <1>9, <1>10, <2>1
<1> QED
  BY <1>4, <1>11, <1>12 DEF there, here, p, all, k

LEMMA SgrIs ==
  ASSUME NEW a, NEW ps, ps # <<>>
  PROVE  Sgr(a, ps) = Turns(a, ps, Len(ps)).attr
BY DEF Sgr, Turns, FirstTurn, UpTo

(* The turns behind a colour are those of the list behind it, on the        *)
(* attributes that the colour leaves.                                       *)
LEMMA TurnsBehind ==
  ASSUME NEW a, AttrShaped(a), NEW x, WholeColour(x), NEW rest \in Seq(Nat),
         NEW b, b = Styled(a, x[1], DecodeColor(x, 1).color)
  PROVE  \A j \in 0 .. Len(rest) :
            Turns(a, x \o rest, Len(x) + j).attr = Turns(b, rest, j).attr
<1> DEFINE all == x \o rest
           k   == Len(x)
           m   == Len(rest)
           T   == {j \in Nat : j <= m =>
                      /\ Turns(a, all, k + j).attr = Turns(b, rest, j).attr
                      /\ Turns(b, rest, j).last \in Nat
                      /\ Turns(a, all, k + j).last = k + Turns(b, rest, j).last}
<1>1. /\ x \in Seq(Nat) /\ k \in Nat /\ m \in Nat /\ all \in Seq(Nat) /\ Len(all) = k + m
      /\ \A i \in 1 .. k : all[i] = x[i]
  <2>1. x \in Seq(Nat) /\ rest \in Seq(Nat)
    BY DEF WholeColour
  <2> QED
    BY <2>1, ConcatProperties, LenProperties
<1>2. AttrShaped(b)
  BY StyledOK
<1>3. \A i \in 1 .. m :
         /\ all[k + i] = rest[i]
         /\ DecodeColor(all, k + i).color = DecodeColor(rest, i).color
         /\ DecodeColor(rest, i).last \in Nat
         /\ DecodeColor(all, k + i).last = k + DecodeColor(rest, i).last
  <2> SUFFICES ASSUME NEW i \in 1 .. m
               PROVE  /\ all[k + i] = rest[i]
                      /\ DecodeColor(all, k + i).color = DecodeColor(rest, i).color
                      /\ DecodeColor(rest, i).last \in Nat
                      /\ DecodeColor(all, k + i).last = k + DecodeColor(rest, i).last
    OBVIOUS
  <2> QED
    BY <1>1, ColourBehind
<1>4. Turns(a, all, k).attr = b /\ Turns(a, all, k).last = k
  <2>1. Len(x) <= Len(all) /\ \A i \in 1 .. Len(x) : all[i] = x[i]
    BY <1>1
  <2> HIDE DEF all
  <2> QED
    BY <1>1, <2>1, ColourTurns
<1>5. Turns(b, rest, 0).attr = b /\ Turns(b, rest, 0).last = 0
  <2>1. Turns(b, rest, 0) = FirstTurn(b, rest) /\ 0 \in Nat
    BY TurnsGoOn
  <2> QED
    BY <2>1 DEF FirstTurn
<1> HIDE DEF all, k, m
<1>6. 0 \in T
  BY <1>1, <1>4, <1>5
<1>7. ASSUME NEW j \in Nat, j \in T
      PROVE  j + 1 \in T
  <2> DEFINE A1 == Turns(a, all, k + j)
             B1 == Turns(b, rest, j)
             A2 == Turns(a, all, k + (j + 1))
             B2 == Turns(b, rest, j + 1)
             i  == j + 1
  <2> SUFFICES ASSUME i <= m
               PROVE  A2.attr = B2.attr /\ B2.last \in Nat /\ A2.last = k + B2.last
    OBVIOUS
  <2>1. A1.attr = B1.attr /\ B1.last \in Nat /\ A1.last = k + B1.last
    BY <1>1, <1>7
  <2>2. k + j \in Nat /\ (k + j) + 1 = k + i /\ i \in 1 .. m /\ i \in Nat
    BY <1>1
  <2>3. A2 = SgrStep(A1, k + i) /\ B2 = SgrStep(B1, i)
    <3>1. Turns(a, all, (k + j) + 1) = SgrStep(Turns(a, all, k + j), (k + j) + 1)
      BY <2>2, TurnsGoOn
    <3>2. B2 = SgrStep(B1, i)
      BY TurnsGoOn
    <3> QED
      BY <2>2, <3>1, <3>2
  <2>4. StyleOK(A1) /\ A1.params = all /\ StyleOK(B1) /\ B1.params = rest
    BY <1>2, <2>2, TurnsOK
  <2>5. /\ all[k + i] = rest[i]
        /\ DecodeColor(all, k + i).color = DecodeColor(rest, i).color
        /\ DecodeColor(rest, i).last \in Nat
        /\ DecodeColor(all, k + i).last = k + DecodeColor(rest, i).last
    BY <1>3, <2>2
  <2> HIDE DEF A1, B1, A2, B2, i
  <2>6. k + i <= A1.last <=> i <= B1.last
    <3>1. \A p, q, r \in Nat : p + q <= p + r <=> q <= r
      OBVIOUS
    <3>2. k \in Nat /\ i \in Nat /\ B1.last \in Nat /\ A1.last = k + B1.last
      BY <1>1, <2>1, <2>2
    <3> QED
      BY <3>1, <3>2
  <2>7. CASE i <= B1.last
    <3>1. A2 = A1 /\ B2 = B1
      BY <2>3, <2>4, <2>6, <2>7, TurnIs
    <3> QED
      BY <2>1, <3>1
  <2>8. CASE ~(i <= B1.last)
    <3> DEFINE c == rest[i]
               here == DecodeColor(rest, i)
               there == DecodeColor(all, k + i)
    <3>1. /\ A2.attr = Styled(A1.attr, c, IF c \in {38, 48} THEN there.color ELSE <<"NONE">>)
          /\ A2.last = IF c \in {38, 48} THEN there.last ELSE A1.last
      BY <2>3, <2>4, <2>5, <2>6, <2>8, TurnIs
    <3>2. /\ B2.attr = Styled(B1.attr, c, IF c \in {38, 48} THEN here.color ELSE <<"NONE">>)
          /\ B2.last = IF c \in {38, 48} THEN here.last ELSE B1.last
      BY <2>3, <2>4, <2>8, TurnIs
    <3> HIDE DEF c
    <3>3. A2.attr = B2.attr
      BY <2>1, <2>5, <3>1, <3>2
    <3>4. B2.last \in Nat /\ A2.last = k + B2.last
      BY <2>1, <2>5, <3>1, <3>2
    <3> QED
      BY <3>3, <3>4
  <2> QED
    BY <2>7, <2>8
<1> HIDE DEF T
<1>8. \A j \in Nat : j \in T
  BY <1>6, <1>7, Styling!SetInduction
<1>9. \A j \in 0 .. m : Turns(a, all, k + j).attr = Turns(b, rest, j).attr
  BY <1>1, <1>8 DEF T
<1> QED
  BY <1>9 DEF all, k, m

(* A colour in front of a list does its own work and leaves the list its.   *)
LEMMA ColourComposes ==
  ASSUME NEW a, AttrShaped(a), NEW x, WholeColour(x), NEW rest \in Seq(Nat), rest # <<>>
  PROVE  /\ Sgr(a, x) = Styled(a, x[1], DecodeColor(x, 1).color)
         /\ Sgr(a, x \o rest) = Sgr(Sgr(a, x), rest)
<1> DEFINE b == Styled(a, x[1], DecodeColor(x, 1).color)
           all == x \o rest
           k == Len(x)
           m == Len(rest)
<1>1. x \in Seq(Nat) /\ k \in {3, 5} /\ m \in Nat \ {0} /\ all \in Seq(Nat) /\ Len(all) = k + m
  <2>1. x \in Seq(Nat) /\ k \in {3, 5}
    BY DEF WholeColour
  <2>2. m \in Nat /\ m # 0
    BY EmptySeq, LenProperties
  <2>3. all \in Seq(Nat) /\ Len(all) = k + m
    BY <2>1, ConcatProperties
  <2> QED
    BY <2>1, <2>2, <2>3
<1>2. x # <<>> /\ all # <<>>
  <2> HIDE DEF all, k, m
  <2>1. k # 0 /\ Len(all) # 0
    BY <1>1
  <2> QED
    BY <2>1, EmptySeq DEF k
<1>3. Sgr(a, x) = b
  <2>1. Len(x) <= Len(x) /\ \A i \in 1 .. Len(x) : x[i] = x[i]
    BY <1>1
  <2>2. Turns(a, x, Len(x)).attr = b
    BY <1>1, <2>1, ColourTurns
  <2> QED
    BY <1>2, <2>2, SgrIs
<1>4. Sgr(a, all) = Sgr(b, rest)
  <2> HIDE DEF b
  <2>1. \A j \in 0 .. Len(rest) : Turns(a, x \o rest, Len(x) + j).attr = Turns(b, rest, j).attr
    BY TurnsBehind DEF b
  <2>2. Turns(a, all, k + m).attr = Turns(b, rest, m).attr
    BY <1>1, <2>1
  <2>3. Sgr(b, rest) = Turns(b, rest, m).attr
    BY SgrIs
  <2>4. Sgr(a, all) = Turns(a, all, Len(all)).attr
    BY <1>2, SgrIs
  <2> QED
    BY <1>1, <2>2, <2>3, <2>4
<1> QED
  BY <1>3, <1>4

(* CSI m keeps the attributes a record of the style, foreground and         *)
(* background.                                                              *)
LEMMA SgrShaped ==
  ASSUME NEW a, AttrShaped(a), NEW ps, Len(ps) \in Nat
  PROVE  AttrShaped(Sgr(a, ps))
<1> DEFINE qs == IF ps = <<>> THEN <<0>> ELSE ps
<1>1. Sgr(a, ps) = Turns(a, qs, Len(qs)).attr
  BY DEF Sgr, Turns, FirstTurn, UpTo
<1>2. Len(qs) \in Nat
  OBVIOUS
<1> HIDE DEF qs
<1>3. StyleOK(Turns(a, qs, Len(qs)))
  BY <1>2, TurnsOK
<1> QED
  BY <1>1, <1>3 DEF StyleOK

(* An extended colour keeps its sub-parameters to itself: the styles and    *)
(* the other colour stay as they were, and a list behind it does what it    *)
(* does in a sequence of its own (handle_sgr, escape_decode_color).         *)
THEOREM SgrListsCompose == Spec => []SgrComposes
<1>1. SgrComposes
  <2> SUFFICES ASSUME NEW before \in {<<>>, <<1, 33>>, <<4, 7, 104>>},
                      NEW x \in {<<38, 5, n>> : n \in {1, 31}} \cup {<<48, 2, 1, 4, 31>>},
                      NEW rest \in {<< 1 >>, << 0 >>, <<22, 41>>, <<38, 5, 7>>},
                      vt = NewScreen(vt.cols, vt.rows)
               PROVE  LET a == Sgr(vt.attr, before)
                          b == Sgr(a, x)
                      IN  /\ b.on = a.on
                          /\ x[1] = 38 => b.bg = a.bg
                          /\ x[1] = 48 => b.fg = a.fg
                          /\ Sgr(a, x \o rest) = Sgr(b, rest)
    BY DEF SgrComposes
  <2> DEFINE a == Sgr(vt.attr, before)
             b == Sgr(a, x)
  <2>1. AttrShaped(vt.attr)
    <3>1. vt.attr = DefaultAttr
      BY DEF NewScreen
    <3> QED
      BY <3>1 DEF AttrShaped, DefaultAttr
  <2>2. Len(before) \in Nat
    OBVIOUS
  <2>3. WholeColour(x) /\ x[1] \in {38, 48}
    <3>1. ASSUME NEW n \in {1, 31}
          PROVE  WholeColour(<<38, 5, n>>) /\ <<38, 5, n>>[1] = 38
      <4>1. <<38, 5, n>> \in Seq(Nat) /\ Len(<<38, 5, n>>) = 3
        OBVIOUS
      <4> QED
        BY <4>1 DEF WholeColour
    <3>2. WholeColour(<<48, 2, 1, 4, 31>>) /\ <<48, 2, 1, 4, 31>>[1] = 48
      <4>1. <<48, 2, 1, 4, 31>> \in Seq(Nat) /\ Len(<<48, 2, 1, 4, 31>>) = 5
        OBVIOUS
      <4> QED
        BY <4>1 DEF WholeColour
    <3>3. x = <<48, 2, 1, 4, 31>> \/ \E n \in {1, 31} : x = <<38, 5, n>>
      OBVIOUS
    <3> QED
      BY <3>1, <3>2, <3>3
  <2>4. rest \in Seq(Nat) /\ rest # <<>>
    <3>1. /\ << 1 >> \in Seq(Nat) /\ << 0 >> \in Seq(Nat) /\ <<22, 41>> \in Seq(Nat)
          /\ <<38, 5, 7>> \in Seq(Nat)
      OBVIOUS
    <3>2. Len(<< 1 >>) = 1 /\ Len(<< 0 >>) = 1 /\ Len(<<22, 41>>) = 2 /\ Len(<<38, 5, 7>>) = 3
      OBVIOUS
    <3>3. Len(<<>>) = 0
      OBVIOUS
    <3>4. << 1 >> # <<>> /\ << 0 >> # <<>> /\ <<22, 41>> # <<>> /\ <<38, 5, 7>> # <<>>
      BY <3>2, <3>3
    <3>5. rest = << 1 >> \/ rest = << 0 >> \/ rest = <<22, 41>> \/ rest = <<38, 5, 7>>
      OBVIOUS
    <3> QED
      BY <3>1, <3>4, <3>5, ZenonT(40)
  <2>5. AttrShaped(a)
    BY <2>1, <2>2, SgrShaped
  <2> HIDE DEF a
  <2> DEFINE k == DecodeColor(x, 1).color
  <2>6. b = Styled(a, x[1], k) /\ Sgr(a, x \o rest) = Sgr(b, rest)
    BY <2>3, <2>4, <2>5, ColourComposes
  <2> HIDE DEF b, k
  <2>7. /\ x[1] = 38 => b = [a EXCEPT !.fg = k]
        /\ x[1] = 48 => b = [a EXCEPT !.bg = k]
    BY <2>5, <2>6, StyledOK
  <2>8. /\ x[1] = 38 => b.on = a.on /\ b.bg = a.bg
        /\ x[1] = 48 => b.on = a.on /\ b.fg = a.fg
    BY <2>5, <2>7 DEF AttrShaped
  <2> QED
    BY <2>3, <2>6, <2>8 DEF a, b
<1> QED
  BY <1>1, PTL

-----------------------------------------------------------------------------
(* The numbers and the strings that a sequence carries, byte by byte.       *)
Parsing == INSTANCE FoldFacts WITH Step <- NextParser, Good <- ParserOK
Joining == INSTANCE FoldFacts WITH Step <- JoinNumber, Good <- ParserOK

LEMMA ParseAppend ==
  ASSUME NEW p, NEW s \in Seq(Nat), NEW c \in Nat
  PROVE  /\ ParserAfter(p, Append(s, c)) = NextParser(ParserAfter(p, s), c)
         /\ ParserAfter(p, <<>>) = p
<1>1. \A w, t : Parsing!Folded(w, t) = ParserAfter(w, t)
  BY DEF Parsing!Folded, ParserAfter, FoldLeft, Parsing!FoldLeft, MapThenFoldSet,
         Parsing!MapThenFoldSet, Max, Parsing!Max
<1>2. Parsing!Folded(p, Append(s, c)) = NextParser(Parsing!Folded(p, s), c)
  BY Parsing!FoldedAppend
<1>3. Parsing!Folded(p, <<>>) = p
  BY Parsing!FoldedEmpty
<1> QED
  BY <1>1, <1>2, <1>3

LEMMA ParseConcat ==
  ASSUME NEW p, NEW s \in Seq(Nat)
  PROVE  \A t \in Seq(Nat) : ParserAfter(p, s \o t) = ParserAfter(ParserAfter(p, s), t)
<1> DEFINE T == {t \in Seq(Nat) : ParserAfter(p, s \o t) = ParserAfter(ParserAfter(p, s), t)}
<1>1. <<>> \in T
  <2>1. s \o <<>> = s /\ <<>> \in Seq(Nat)
    BY ConcatEmptySeq
  <2>2. ParserAfter(ParserAfter(p, s), <<>>) = ParserAfter(p, s)
    BY ParseAppend
  <2> QED
    BY <2>1, <2>2
<1>2. ASSUME NEW t \in Seq(Nat), NEW c \in Nat, t \in T
      PROVE  Append(t, c) \in T
  <2>1. s \o Append(t, c) = Append(s \o t, c) /\ s \o t \in Seq(Nat) /\ Append(t, c) \in Seq(Nat)
    BY ConcatAppend, ConcatProperties, AppendProperties
  <2>2. ParserAfter(p, Append(s \o t, c)) = NextParser(ParserAfter(p, s \o t), c)
    BY <2>1, ParseAppend
  <2>3. ParserAfter(ParserAfter(p, s), Append(t, c))
            = NextParser(ParserAfter(ParserAfter(p, s), t), c)
    BY ParseAppend
  <2>4. ParserAfter(p, s \o t) = ParserAfter(ParserAfter(p, s), t)
    BY <1>2
  <2> QED
    BY <2>1, <2>2, <2>3, <2>4
<1> HIDE DEF T
<1>3. \A t \in Seq(Nat) : t \in T
  BY <1>1, <1>2, Parsing!SequenceInduction
<1> QED
  BY <1>3 DEF T

LEMMA ParseOne ==
  ASSUME NEW p, NEW c \in Nat, NEW d \in Nat
  PROVE  /\ ParserAfter(p, <<c>>) = NextParser(p, c)
         /\ ParserAfter(p, <<c, d>>) = NextParser(NextParser(p, c), d)
<1>1. Append(<<>>, c) = <<c>> /\ Append(<<c>>, d) = <<c, d>>
  BY Tuples
<1>2. <<>> \in Seq(Nat) /\ <<c>> \in Seq(Nat)
  OBVIOUS
<1>3. ParserAfter(p, <<c>>) = NextParser(p, c)
  <2>1. /\ ParserAfter(p, Append(<<>>, c)) = NextParser(ParserAfter(p, <<>>), c)
        /\ ParserAfter(p, <<>>) = p
    BY <1>2, ParseAppend
  <2> QED
    BY <1>1, <2>1
<1>4. ParserAfter(p, <<c, d>>) = NextParser(ParserAfter(p, <<c>>), d)
  <2>1. ParserAfter(p, Append(<<c>>, d)) = NextParser(ParserAfter(p, <<c>>), d)
    BY <1>2, ParseAppend
  <2> QED
    BY <1>1, <2>1
<1> QED
  BY <1>3, <1>4

(* What a number leaves, and how a list grows by one.                       *)
TwoDigits(n, s) == \E d \in Digit, e \in Digit :
                       s = <<d, e>> /\ ((d - 48) * 10) + (e - 48) = n

LEMMA DecimalIs ==
  ASSUME NEW n \in 0 .. 99
  PROVE  /\ Decimal(n) \in Seq(Nat)
         /\ n = 0 => Decimal(n) = <<>>
         /\ n \in 1 .. 9 => Decimal(n) = <<48 + n>> /\ 48 + n \in Digit
         /\ n \in 10 .. 99 => TwoDigits(n, Decimal(n))
<1>1. CASE n = 0
  BY <1>1 DEF Decimal
<1>2. CASE n \in 1 .. 9
  <2>1. Decimal(n) = <<48 + n>> /\ 48 + n \in Digit
    BY <1>2 DEF Decimal, Digit
  <2> QED
    BY <1>2, <2>1
<1>3. CASE n \in 10 .. 99
  <2> DEFINE d == 48 + (n \div 10)
             e == 48 + (n % 10)
  <2>1. Decimal(n) = <<d, e>>
    BY <1>3 DEF Decimal
  <2>2. d \in Digit /\ e \in Digit /\ ((d - 48) * 10) + (e - 48) = n
    BY <1>3 DEF Digit
  <2> HIDE DEF d, e
  <2>3. Decimal(n) \in Seq(Nat)
    BY <2>1, <2>2 DEF Digit
  <2>4. TwoDigits(n, Decimal(n))
    BY <2>1, <2>2 DEF TwoDigits
  <2> QED
    BY <1>3, <2>3, <2>4
<1> QED
  BY <1>1, <1>2, <1>3

LEMMA JoinAppend ==
  ASSUME NEW ps \in Seq(0 .. 99), NEW e \in 0 .. 99
  PROVE  /\ Joined(<<>>) = <<>>
         /\ Joined(Append(ps, e)) =
                IF ps = <<>> THEN Decimal(e) ELSE (Joined(ps) \o <<Semicolon>>) \o Decimal(e)
<1>1. \A w, t : Joining!Folded(w, t) = FoldLeft(JoinNumber, w, t)
  BY DEF Joining!Folded, FoldLeft, Joining!FoldLeft, MapThenFoldSet,
         Joining!MapThenFoldSet, Max, Joining!Max
<1>2. Joined(<<>>) = <<>>
  BY DEF Joined
<1> DEFINE qs == Append(ps, e)
<1>3. qs \in Seq(0 .. 99) /\ qs # <<>> /\ Len(qs) = Len(ps) + 1
  BY AppendProperties, EmptySeq
<1>4. CASE ps = <<>>
  <2>1. qs = <<e>>
    BY <1>4
  <2>2. Head(<<e>>) = e /\ Tail(<<e>>) = <<>>
    OBVIOUS
  <2>3. FoldLeft(JoinNumber, Decimal(e), <<>>) = Decimal(e)
    BY <1>1, Joining!FoldedEmpty
  <2>4. Joined(qs) = Decimal(e)
    BY <1>3, <2>1, <2>2, <2>3 DEF Joined
  <2> QED
    BY <1>2, <1>4, <2>4
<1>5. CASE ps # <<>>
  <2>1. Head(qs) = Head(ps)
    BY <1>5, <1>3, AppendProperties, EmptySeq, HeadTailProperties
  <2>2. Tail(ps) \in Seq(0 .. 99) /\ Tail(qs) = Append(Tail(ps), e)
    BY <1>3, <1>5, HeadTailAppend, HeadTailProperties
  <2>3. FoldLeft(JoinNumber, Decimal(Head(ps)), Append(Tail(ps), e))
            = JoinNumber(FoldLeft(JoinNumber, Decimal(Head(ps)), Tail(ps)), e)
    BY <1>1, <2>2, Joining!FoldedAppend
  <2>4. Joined(qs) = FoldLeft(JoinNumber, Decimal(Head(ps)), Append(Tail(ps), e))
    BY <1>3, <2>1, <2>2 DEF Joined
  <2>5. Joined(ps) = FoldLeft(JoinNumber, Decimal(Head(ps)), Tail(ps))
    BY <1>5 DEF Joined
  <2>6. Joined(qs) = JoinNumber(Joined(ps), e)
    BY <2>3, <2>4, <2>5
  <2> HIDE DEF qs
  <2>7. Joined(qs) = (Joined(ps) \o <<Semicolon>>) \o Decimal(e)
    BY <2>6 DEF JoinNumber
  <2> QED
    BY <1>2, <1>5, <2>7 DEF qs
<1> QED
  BY <1>4, <1>5

(* A parser in the numbers of a control sequence: the list ps was read, and *)
(* its last number is still being read.                                     *)
Numbered(p, ps) ==
    /\ p \in ParserType /\ p.state \in {"CSI_ENTRY", "CSI_PARAM"}
    /\ p.state = "CSI_ENTRY" => p.params = <<>> /\ (ps = <<>> \/ ps = <<0>>)
    /\ IF ps = <<>> THEN p.state = "CSI_ENTRY" /\ p.current = 0
       ELSE /\ p.current = ps[Len(ps)]
            /\ Len(p.params) = IF Len(ps) - 1 < MaxParams THEN Len(ps) - 1 ELSE MaxParams
            /\ \A i \in 1 .. Len(p.params) : p.params[i] = ps[i]

WithDigit(p, d) ==
    [p EXCEPT !.state = "CSI_PARAM",
              !.current = IF p.state = "CSI_ENTRY" THEN d - 48 ELSE (p.current * 10) + (d - 48)]
WithNumber(p, n) == [p EXCEPT !.state = "CSI_PARAM", !.current = n]
Pushed(p) == [PushParam(p) EXCEPT !.state = "CSI_PARAM"]

LEMMA InNumbers ==
  ASSUME NEW p \in ParserType, p.state \in {"CSI_ENTRY", "CSI_PARAM"}
  PROVE  /\ \A d \in Digit : NextParser(p, d) = WithDigit(p, d)
         /\ NextParser(p, Semicolon) = Pushed(p)
<1>1. \A d \in Digit : /\ d \notin C0Control /\ d # Semicolon /\ d \notin FinalByte
                       /\ d \notin Intermediate /\ d \notin {CAN, SUB}
  BY DEF Digit, C0Control, Semicolon, FinalByte, Intermediate, CAN, SUB
<1>2. /\ Semicolon \notin C0Control /\ Semicolon \notin Digit /\ Semicolon \notin FinalByte
      /\ Semicolon \notin Intermediate /\ Semicolon \notin {CAN, SUB}
  BY DEF Digit, C0Control, Semicolon, FinalByte, Intermediate, CAN, SUB
<1>3. ASSUME NEW d \in Digit
      PROVE  NextParser(p, d) = WithDigit(p, d)
  <2>1. CASE p.state = "CSI_ENTRY"
    <3>1. ParserFeed(p, d) = InCsiEntry(p, d)
      BY <1>1, <2>1 DEF ParserFeed
    <3>2. InCsiEntry(p, d) = Quiet([p EXCEPT !.current = d - 48], "CSI_PARAM")
      BY <1>1 DEF InCsiEntry
    <3>3. NextParser(p, d) = [[p EXCEPT !.current = d - 48] EXCEPT !.state = "CSI_PARAM"]
      BY <3>1, <3>2 DEF NextParser, Quiet
    <3> QED
      BY <2>1, <3>3 DEF ParserType, WithDigit
  <2>2. CASE p.state = "CSI_PARAM"
    <3>1. ParserFeed(p, d) = InCsiParam(p, d)
      BY <1>1, <2>2 DEF ParserFeed
    <3>2. InCsiParam(p, d) = Quiet([p EXCEPT !.current = (@ * 10) + (d - 48)], "CSI_PARAM")
      BY <1>1 DEF InCsiParam
    <3>3. NextParser(p, d)
              = [[p EXCEPT !.current = (@ * 10) + (d - 48)] EXCEPT !.state = "CSI_PARAM"]
      BY <3>1, <3>2 DEF NextParser, Quiet
    <3> QED
      BY <2>2, <3>3 DEF ParserType, WithDigit
  <2> QED
    BY <2>1, <2>2
<1>4. NextParser(p, Semicolon) = Pushed(p)
  <2>1. CASE p.state = "CSI_ENTRY"
    <3>1. ParserFeed(p, Semicolon) = InCsiEntry(p, Semicolon)
      BY <1>2, <2>1 DEF ParserFeed
    <3>2. InCsiEntry(p, Semicolon) = Quiet(PushParam(p), "CSI_PARAM")
      BY <1>2 DEF InCsiEntry
    <3> QED
      BY <3>1, <3>2 DEF NextParser, Quiet, Pushed
  <2>2. CASE p.state = "CSI_PARAM"
    <3>1. ParserFeed(p, Semicolon) = InCsiParam(p, Semicolon)
      BY <1>2, <2>2 DEF ParserFeed
    <3>2. InCsiParam(p, Semicolon) = Quiet(PushParam(p), "CSI_PARAM")
      BY <1>2 DEF InCsiParam
    <3> QED
      BY <3>1, <3>2 DEF NextParser, Quiet, Pushed
  <2> QED
    BY <2>1, <2>2
<1> QED
  BY <1>3, <1>4

LEMMA NumberFields ==
  ASSUME NEW p \in ParserType, NEW n \in Nat
  PROVE  LET q == WithNumber(p, n)
         IN  /\ q \in ParserType /\ q.params = p.params /\ q.current = n
             /\ q.state = "CSI_PARAM"
<1>1. "CSI_PARAM" \in ParserState
  BY DEF ParserState
<1> QED
  BY <1>1 DEF ParserType, WithNumber

(* The digits of a number that begins make it the current one.              *)
LEMMA NumberRead ==
  ASSUME NEW p \in ParserType, p.state \in {"CSI_ENTRY", "CSI_PARAM"}, p.current = 0,
         NEW n \in 0 .. 99
  PROVE  LET q == ParserAfter(p, Decimal(n))
         IN  /\ q \in ParserType /\ q.params = p.params /\ q.current = n
             /\ q.state = IF n = 0 THEN p.state ELSE "CSI_PARAM"
<1>1. CASE n = 0
  <2>1. <<>> \in Seq(Nat) /\ 0 \in Nat
    OBVIOUS
  <2>2. Decimal(n) = <<>>
    BY <1>1, DecimalIs
  <2>3. ParserAfter(p, <<>>) = p
    BY <2>1, ParseAppend
  <2> QED
    BY <1>1, <2>2, <2>3
<1>2. ASSUME NEW d \in Digit
      PROVE  NextParser(p, d) = WithNumber(p, d - 48) /\ d - 48 \in Nat
  <2>1. d - 48 \in Nat /\ (0 * 10) + (d - 48) = d - 48
    BY DEF Digit
  <2>2. NextParser(p, d) = WithDigit(p, d)
    BY InNumbers
  <2>3. WithDigit(p, d) = WithNumber(p, d - 48)
    BY <2>1 DEF WithDigit, WithNumber
  <2> QED
    BY <2>1, <2>2, <2>3
<1>3. CASE n \in 1 .. 9
  <2> DEFINE d == 48 + n
  <2>1. d - 48 = n /\ n # 0 /\ d \in Nat /\ n \in Nat
    BY <1>3
  <2>2. Decimal(n) = <<d>> /\ d \in Digit
    BY <1>3, DecimalIs
  <2> HIDE DEF d
  <2>3. ParserAfter(p, <<d>>) = NextParser(p, d)
    BY <2>1, ParseOne
  <2>4. NextParser(p, d) = WithNumber(p, n)
    BY <1>2, <2>1, <2>2
  <2>5. /\ WithNumber(p, n) \in ParserType /\ WithNumber(p, n).params = p.params
        /\ WithNumber(p, n).current = n /\ WithNumber(p, n).state = "CSI_PARAM"
    BY <2>1, NumberFields
  <2>6. ParserAfter(p, Decimal(n)) = WithNumber(p, n)
    BY <2>2, <2>3, <2>4
  <2> QED
    BY <2>1, <2>5, <2>6
<1>4. CASE n \in 10 .. 99
  <2>0. TwoDigits(n, Decimal(n))
    BY <1>4, DecimalIs
  <2>1. PICK d \in Digit, e \in Digit :
           Decimal(n) = <<d, e>> /\ ((d - 48) * 10) + (e - 48) = n
    BY <2>0 DEF TwoDigits
  <2>2. d \in Nat /\ e \in Nat /\ n # 0 /\ n \in Nat
    BY <1>4 DEF Digit
  <2> DEFINE q == NextParser(p, d)
             r == NextParser(q, e)
  <2>3. ParserAfter(p, <<d, e>>) = r
    BY <2>2, ParseOne
  <2>4. q \in ParserType /\ q.params = p.params /\ q.current = d - 48 /\ q.state = "CSI_PARAM"
    <3> DEFINE m == d - 48
    <3>1. q = WithNumber(p, m) /\ m \in Nat
      BY <1>2
    <3> HIDE DEF q, m
    <3>2. q \in ParserType /\ q.params = p.params /\ q.current = m /\ q.state = "CSI_PARAM"
      BY <3>1, NumberFields
    <3> QED
      BY <3>2 DEF m
  <2> HIDE DEF q
  <2>5. r = WithDigit(q, e)
    BY <2>4, InNumbers
  <2> HIDE DEF r
  <2>6. r = WithNumber(q, n)
    BY <2>1, <2>4, <2>5 DEF WithDigit, WithNumber
  <2>7. r \in ParserType /\ r.params = p.params /\ r.current = n /\ r.state = "CSI_PARAM"
    BY <2>2, <2>4, <2>6, NumberFields
  <2> QED
    BY <2>1, <2>2, <2>3, <2>7
<1> QED
  BY <1>1, <1>3, <1>4

LEMMA PushedIs ==
  ASSUME NEW p \in ParserType
  PROVE  /\ Pushed(p) \in ParserType /\ Pushed(p).current = 0
         /\ Pushed(p).state = "CSI_PARAM"
         /\ Pushed(p).params = IF Len(p.params) < MaxParams THEN Append(p.params, p.current)
                               ELSE p.params
         /\ PushParam(p).params = Pushed(p).params
<1> DEFINE ps == IF Len(p.params) < MaxParams THEN Append(p.params, p.current) ELSE p.params
<1>1. ps \in Seq(Nat)
  <2>1. p.params \in Seq(Nat) /\ p.current \in Nat
    BY DEF ParserType
  <2> QED
    BY <2>1, AppendProperties
<1>2. PushParam(p) = [p EXCEPT !.params = ps, !.current = 0]
  BY DEF PushParam
<1>3. "CSI_PARAM" \in ParserState
  BY DEF ParserState
<1> HIDE DEF ps
<1>4. Pushed(p) = [p EXCEPT !.params = ps, !.current = 0, !.state = "CSI_PARAM"]
  BY <1>2 DEF Pushed
<1>5. p = [state |-> p.state, params |-> p.params, current |-> p.current, osc |-> p.osc]
      /\ p.osc \in Seq(Nat)
  BY DEF ParserType
<1>6. Pushed(p) = [state |-> "CSI_PARAM", params |-> ps, current |-> 0, osc |-> p.osc]
  BY <1>4, <1>5
<1>7. Pushed(p) \in ParserType
  BY <1>1, <1>3, <1>5, <1>6 DEF ParserType
<1>8. Pushed(p).current = 0 /\ Pushed(p).state = "CSI_PARAM" /\ Pushed(p).params = ps
  BY <1>6
<1>9. PushParam(p).params = ps
  <2>1. PushParam(p) = [state |-> p.state, params |-> ps, current |-> 0, osc |-> p.osc]
    BY <1>2, <1>5
  <2> QED
    BY <2>1
<1> QED
  BY <1>7, <1>8, <1>9 DEF ps

(* One number more.                                                         *)
LEMMA NumbersGrow ==
  ASSUME NEW ps \in Seq(0 .. 99), NEW e \in 0 .. 99, NEW p, Numbered(p, ps)
  PROVE  /\ ps = <<>> => Numbered(ParserAfter(p, Decimal(e)), Append(ps, e))
         /\ ps # <<>> => Numbered(ParserAfter(NextParser(p, Semicolon), Decimal(e)),
                                  Append(ps, e))
<1> DEFINE qs == Append(ps, e)
           n  == Len(ps)
<1>1. /\ n \in Nat /\ Len(qs) = n + 1 /\ qs[n + 1] = e /\ qs # <<>> /\ qs \in Seq(0 .. 99)
      /\ \A i \in 1 .. n : qs[i] = ps[i]
  BY AppendProperties, LenProperties, EmptySeq
<1>2. p \in ParserType /\ p.state \in {"CSI_ENTRY", "CSI_PARAM"} /\ MaxParams \in Nat \ {0}
  BY ParserAssumption DEF Numbered
<1>3. ASSUME ps = <<>>
      PROVE  Numbered(ParserAfter(p, Decimal(e)), qs)
  <2> DEFINE q == ParserAfter(p, Decimal(e))
  <2>1. p.state = "CSI_ENTRY" /\ p.current = 0 /\ p.params = <<>>
    BY <1>3 DEF Numbered
  <2>2. /\ q \in ParserType /\ q.params = p.params /\ q.current = e
        /\ q.state = IF e = 0 THEN p.state ELSE "CSI_PARAM"
    BY <1>2, <2>1, NumberRead
  <2>3. n = 0 /\ Len(qs) = 1 /\ qs[1] = e /\ Len(<<>>) = 0
    BY <1>1, <1>3, EmptySeq
  <2>4. e = 0 => qs = <<0>>
    BY <1>3
  <2> HIDE DEF q, qs, n
  <2> QED
    <3>1. q.state \in {"CSI_ENTRY", "CSI_PARAM"}
      BY <1>2, <2>2
    <3>2. q.state = "CSI_ENTRY" => q.params = <<>> /\ (qs = <<>> \/ qs = <<0>>)
      BY <2>1, <2>2, <2>4
    <3>3. q.current = qs[Len(qs)]
      BY <2>2, <2>3
    <3>4. Len(q.params) = IF Len(qs) - 1 < MaxParams THEN Len(qs) - 1 ELSE MaxParams
      BY <1>2, <2>1, <2>2, <2>3
    <3>5. \A i \in 1 .. Len(q.params) : q.params[i] = qs[i]
      BY <2>1, <2>2, <2>3
    <3>6. q \in ParserType /\ qs # <<>>
      BY <1>1, <2>2
    <3>7. Numbered(q, qs)
      BY <3>1, <3>2, <3>3, <3>4, <3>5, <3>6 DEF Numbered
    <3> QED
      BY <3>7 DEF q
<1>4. ASSUME ps # <<>>
      PROVE  Numbered(ParserAfter(NextParser(p, Semicolon), Decimal(e)), qs)
  <2> DEFINE r == NextParser(p, Semicolon)
             q == ParserAfter(r, Decimal(e))
             l == Len(p.params)
  <2>1. /\ p.current = ps[n] /\ l = IF n - 1 < MaxParams THEN n - 1 ELSE MaxParams
        /\ \A i \in 1 .. l : p.params[i] = ps[i]
    BY <1>4 DEF Numbered
  <2>2. n # 0
    BY <1>4, EmptySeq
  <2>3. /\ r \in ParserType /\ r.current = 0 /\ r.state = "CSI_PARAM"
        /\ r.params = IF l < MaxParams THEN Append(p.params, p.current) ELSE p.params
    BY <1>2, InNumbers, PushedIs
  <2> HIDE DEF r
  <2>4. q \in ParserType /\ q.params = r.params /\ q.current = e /\ q.state = "CSI_PARAM"
    BY <2>3, NumberRead, ZenonT(40)
  <2>5. l \in Nat /\ p.params \in Seq(Nat) /\ p.current \in Nat
    BY <1>2, LenProperties DEF ParserType
  <2>6. /\ Len(Append(p.params, p.current)) = l + 1
        /\ Append(p.params, p.current)[l + 1] = p.current
        /\ \A i \in 1 .. l : Append(p.params, p.current)[i] = p.params[i]
    BY <2>5, AppendProperties
  <2> HIDE DEF q, qs, n, l
  <2>7. Len(r.params) = IF n < MaxParams THEN n ELSE MaxParams
    <3>1. CASE l < MaxParams
      <4>1. l = n - 1 /\ l + 1 = n /\ n <= MaxParams
        BY <1>1, <1>2, <2>1, <2>2, <3>1
      <4> QED
        BY <1>1, <1>2, <2>3, <2>6, <3>1, <4>1
    <3>2. CASE ~(l < MaxParams)
      <4>1. l = MaxParams /\ ~(n < MaxParams)
        BY <1>1, <1>2, <2>1, <2>2, <2>5, <3>2
      <4> QED
        BY <2>3, <3>2, <4>1 DEF l
    <3> QED
      BY <3>1, <3>2
  <2>8. ASSUME NEW i \in 1 .. Len(r.params)
        PROVE  r.params[i] = qs[i]
    <3>1. i \in 1 .. n
      BY <1>1, <1>2, <2>7
    <3>2. CASE i <= l
      <4>1. r.params[i] = p.params[i]
        BY <2>3, <2>5, <2>6, <3>1, <3>2
      <4> QED
        BY <1>1, <2>1, <2>5, <3>1, <3>2, <4>1, SMTT(30)
    <3>3. CASE ~(i <= l)
      <4>1. l < MaxParams
        <5>1. CASE ~(l < MaxParams)
          <6>1. Len(r.params) = l
            BY <2>3, <5>1 DEF l
          <6> QED
            BY <1>1, <3>1, <3>3, <6>1
        <5> QED
          BY <5>1
      <4>2. l = n - 1 /\ i = n /\ l + 1 = n
        BY <1>1, <1>2, <2>1, <2>2, <2>5, <3>1, <3>3, <4>1
      <4>3. r.params[i] = p.current
        BY <2>3, <2>6, <4>1, <4>2
      <4> QED
        BY <1>1, <2>1, <3>1, <4>2, <4>3
    <3> QED
      BY <3>2, <3>3
  <2>9. (n + 1) - 1 = n
    BY <1>1
  <2>10. Numbered(q, qs)
    <3>1. q.current = qs[Len(qs)]
      BY <1>1, <2>4
    <3>2. Len(q.params) = IF Len(qs) - 1 < MaxParams THEN Len(qs) - 1 ELSE MaxParams
      BY <1>1, <2>4, <2>7, <2>9
    <3>3. \A i \in 1 .. Len(q.params) : q.params[i] = qs[i]
      BY <2>4, <2>8
    <3> QED
      BY <1>1, <2>4, <3>1, <3>2, <3>3 DEF Numbered
  <2> QED
    BY <2>10 DEF q, r
<1> QED
  BY <1>3, <1>4

(* A list of numbers is read number by number.                              *)
LEMMA NumbersParsed ==
  ASSUME NEW p, Numbered(p, <<>>)
  PROVE  \A ps \in Seq(0 .. 99) : /\ Joined(ps) \in Seq(Nat)
                                   /\ Numbered(ParserAfter(p, Joined(ps)), ps)
<1> DEFINE T == {ps \in Seq(0 .. 99) : /\ Joined(ps) \in Seq(Nat)
                                       /\ Numbered(ParserAfter(p, Joined(ps)), ps)}
<1>0. Semicolon \in Nat /\ <<>> \in Seq(Nat) /\ 0 \in Nat /\ 0 \in 0 .. 99
  BY DEF Semicolon
<1>1. <<>> \in T
  <2>1. <<>> \in Seq(0 .. 99)
    OBVIOUS
  <2>2. Joined(<<>>) = <<>>
    BY <1>0, <2>1, JoinAppend
  <2>3. ParserAfter(p, <<>>) = p
    BY <1>0, ParseAppend
  <2> QED
    BY <1>0, <2>1, <2>2, <2>3
<1>2. ASSUME NEW ps \in Seq(0 .. 99), NEW e \in 0 .. 99, ps \in T
      PROVE  Append(ps, e) \in T
  <2> DEFINE qs == Append(ps, e)
             q  == ParserAfter(p, Joined(ps))
  <2>1. qs \in Seq(0 .. 99)
    BY AppendProperties
  <2>2. Joined(ps) \in Seq(Nat) /\ Numbered(q, ps)
    BY <1>2
  <2>3. Decimal(e) \in Seq(Nat)
    BY DecimalIs
  <2>4. /\ ps = <<>> => Numbered(ParserAfter(q, Decimal(e)), qs)
        /\ ps # <<>> => Numbered(ParserAfter(NextParser(q, Semicolon), Decimal(e)), qs)
    BY <2>2, NumbersGrow
  <2>5. CASE ps = <<>>
    <3>1. Joined(qs) = Decimal(e) /\ Joined(ps) = <<>>
      BY <2>5, JoinAppend
    <3>2. q = p
      BY <1>0, <3>1, ParseAppend
    <3> QED
      BY <2>1, <2>3, <2>4, <2>5, <3>1, <3>2
  <2>6. CASE ps # <<>>
    <3> DEFINE head == Joined(ps) \o <<Semicolon>>
    <3>1. Joined(qs) = head \o Decimal(e)
      BY <2>6, JoinAppend
    <3>2. <<Semicolon>> \in Seq(Nat) /\ head \in Seq(Nat)
      BY <1>0, <2>2, ConcatProperties
    <3>3. ParserAfter(p, head) = ParserAfter(q, <<Semicolon>>)
      BY <2>2, <3>2, ParseConcat
    <3>4. ParserAfter(q, <<Semicolon>>) = NextParser(q, Semicolon)
      BY <1>0, ParseOne
    <3> HIDE DEF head
    <3>5. /\ ParserAfter(p, head \o Decimal(e)) = ParserAfter(ParserAfter(p, head), Decimal(e))
          /\ head \o Decimal(e) \in Seq(Nat)
      BY <2>3, <3>2, ParseConcat, ConcatProperties
    <3> HIDE DEF q, qs
    <3>6. Numbered(ParserAfter(p, Joined(qs)), qs) /\ Joined(qs) \in Seq(Nat)
      BY <2>4, <2>6, <3>1, <3>3, <3>4, <3>5
    <3> QED
      BY <2>1, <3>6 DEF qs
  <2> QED
    BY <2>5, <2>6
<1> HIDE DEF T
<1>3. \A ps \in Seq(0 .. 99) : ps \in T
  BY <1>1, <1>2, Parsing!SequenceInduction
<1> QED
  BY <1>3 DEF T

(* The first two bytes of a control sequence and of a string.               *)
ParserRecord(s, ps, n, text) == [state |-> s, params |-> ps, current |-> n, osc |-> text]

LEMMA RecordSteps ==
  ASSUME NEW s, NEW ps, NEW n, NEW text, NEW s2
  PROVE  LET p == ParserRecord(s, ps, n, text)
         IN  /\ p.state = s
             /\ ClearParams(p) = ParserRecord(s, <<>>, 0, text)
             /\ [p EXCEPT !.osc = <<>>] = ParserRecord(s, ps, n, <<>>)
             /\ Quiet(p, s2).parser = ParserRecord(s2, ps, n, text)
<1> DEFINE none == <<>>
           p    == ParserRecord(s, ps, n, text)
<1> HIDE DEF none
<1>1. p.state = s
  BY DEF ParserRecord
<1>2. [p EXCEPT !.params = none, !.current = 0] = ParserRecord(s, none, 0, text)
  <2>1. [p EXCEPT !.params = none] = ParserRecord(s, none, n, text)
    BY DEF ParserRecord
  <2>2. [ParserRecord(s, none, n, text) EXCEPT !.current = 0] = ParserRecord(s, none, 0, text)
    BY DEF ParserRecord
  <2> HIDE DEF p
  <2> QED
    BY <2>1, <2>2
<1>3. [p EXCEPT !.osc = none] = ParserRecord(s, ps, n, none)
  BY DEF ParserRecord
<1>4. [p EXCEPT !.state = s2] = ParserRecord(s2, ps, n, text)
  BY DEF ParserRecord
<1>5. Quiet(p, s2).parser = [p EXCEPT !.state = s2]
  BY DEF Quiet
<1> HIDE DEF p
<1>6. ClearParams(p) = [p EXCEPT !.params = none, !.current = 0]
  BY DEF ClearParams, none
<1> QED
  BY <1>1, <1>2, <1>3, <1>4, <1>5, <1>6 DEF p, none

LEMMA SequenceStarts ==
  /\ Numbered(ParserAfter(InitialParser, <<ESC, LeftBracket>>), <<>>)
  /\ LET q == ParserAfter(InitialParser, <<ESC, RightBracket>>)
     IN  q \in ParserType /\ q.state = "OSC_STRING" /\ q.osc = <<>>
<1> DEFINE ground  == ParserRecord("GROUND", <<>>, 0, <<>>)
           escaped == ParserRecord("ESCAPE", <<>>, 0, <<>>)
           numbers == ParserRecord("CSI_ENTRY", <<>>, 0, <<>>)
           text    == ParserRecord("OSC_STRING", <<>>, 0, <<>>)
<1>1. ESC \in Nat /\ LeftBracket \in Nat /\ RightBracket \in Nat
  BY DEF ESC, LeftBracket, RightBracket
<1>2. /\ ESC \notin C0Control /\ LeftBracket \notin C0Control /\ RightBracket \notin C0Control
      /\ LeftBracket # RightBracket /\ LeftBracket # 80 /\ LeftBracket # ESC
      /\ RightBracket # 80 /\ RightBracket # ESC
  BY DEF ESC, LeftBracket, RightBracket, C0Control
<1>3. InitialParser = ground
  BY DEF InitialParser, ParserRecord
<1>4. /\ ground.state = "GROUND" /\ ClearParams(ground) = ground
      /\ Quiet(ground, "ESCAPE").parser = escaped
  BY RecordSteps
<1>5. /\ escaped.state = "ESCAPE" /\ ClearParams(escaped) = escaped
      /\ [escaped EXCEPT !.osc = <<>>] = escaped
      /\ Quiet(escaped, "CSI_ENTRY").parser = numbers
      /\ Quiet(escaped, "OSC_STRING").parser = text
  BY RecordSteps
<1>6. Numbered(numbers, <<>>) /\ text \in ParserType /\ text.state = "OSC_STRING" /\ text.osc = <<>>
  <2>1. "CSI_ENTRY" \in ParserState /\ "OSC_STRING" \in ParserState
    BY DEF ParserState
  <2>2. numbers \in ParserType /\ text \in ParserType
    BY <2>1 DEF ParserType, ParserRecord
  <2>3. /\ numbers.state = "CSI_ENTRY" /\ numbers.params = <<>> /\ numbers.current = 0
        /\ text.state = "OSC_STRING" /\ text.osc = <<>>
    BY DEF ParserRecord
  <2> HIDE DEF numbers, text
  <2> QED
    BY <2>2, <2>3 DEF Numbered
<1> HIDE DEF ground, escaped, numbers, text
<1>7. NextParser(ground, ESC) = escaped
  <2>1. ParserFeed(ground, ESC) = InGround(ground, ESC)
    BY <1>2, <1>4 DEF ParserFeed
  <2>2. InGround(ground, ESC) = Quiet(ground, "ESCAPE")
    BY <1>4 DEF InGround
  <2> QED
    BY <1>4, <2>1, <2>2 DEF NextParser
<1>8. NextParser(escaped, LeftBracket) = numbers
  <2>1. ParserFeed(escaped, LeftBracket) = InEscape(escaped, LeftBracket)
    BY <1>2, <1>5 DEF ParserFeed
  <2>2. InEscape(escaped, LeftBracket) = Quiet(escaped, "CSI_ENTRY")
    BY <1>2, <1>5 DEF InEscape
  <2> QED
    BY <1>5, <2>1, <2>2 DEF NextParser
<1>9. NextParser(escaped, RightBracket) = text
  <2>1. ParserFeed(escaped, RightBracket) = InEscape(escaped, RightBracket)
    BY <1>2, <1>5 DEF ParserFeed
  <2>2. InEscape(escaped, RightBracket) = Quiet(escaped, "OSC_STRING")
    BY <1>2, <1>5 DEF InEscape
  <2> QED
    BY <1>5, <2>1, <2>2 DEF NextParser
<1>10. /\ ParserAfter(ground, <<ESC, LeftBracket>>) = numbers
       /\ ParserAfter(ground, <<ESC, RightBracket>>) = text
  BY <1>1, <1>7, <1>8, <1>9, ParseOne
<1> QED
  BY <1>3, <1>6, <1>10

(* The final byte hands over the numbers that were read.                    *)
LEMMA NumbersDispatched ==
  ASSUME NEW ps \in Seq(0 .. 99), NEW p, Numbered(p, ps)
  PROVE  LET end == ParserFeed(p, 72)
         IN  /\ end.action = "CSI_DISPATCH" /\ end.parser.state = "GROUND"
             /\ \A i \in 1 .. MaxParams :
                   GetParam(end.parser, i, 0) = IF i <= Len(ps) THEN ps[i] ELSE 0
<1> DEFINE end == ParserFeed(p, 72)
           n   == Len(ps)
<1>1. /\ p \in ParserType /\ p.state \in {"CSI_ENTRY", "CSI_PARAM"}
      /\ MaxParams \in Nat \ {0} /\ n \in Nat
  BY ParserAssumption, LenProperties DEF Numbered
<1>2. /\ 72 \notin C0Control /\ 72 \notin Digit /\ 72 # Semicolon /\ 72 \in FinalByte
      /\ 72 \notin Intermediate /\ 72 \notin {CAN, SUB}
  BY DEF Digit, C0Control, Semicolon, FinalByte, Intermediate, CAN, SUB
<1>3. CASE p.state = "CSI_ENTRY"
  <2>1. end = Emit(p, "GROUND", "CSI_DISPATCH")
    <3>1. end = InCsiEntry(p, 72)
      BY <1>2, <1>3 DEF ParserFeed
    <3> QED
      BY <1>2, <3>1 DEF InCsiEntry
  <2>2. p.params = <<>> /\ (ps = <<>> \/ ps = <<0>>)
    BY <1>3 DEF Numbered
  <2> HIDE DEF end
  <2>3. end.action = "CSI_DISPATCH" /\ end.parser.state = "GROUND" /\ end.parser.params = <<>>
    <3>1. end.parser = [p EXCEPT !.state = "GROUND"] /\ end.action = "CSI_DISPATCH"
      BY <2>1 DEF Emit
    <3>2. end.parser.state = "GROUND" /\ end.parser.params = p.params
      BY <1>1, <3>1 DEF ParserType
    <3> QED
      BY <2>2, <3>1, <3>2
  <2>4. ASSUME NEW i \in 1 .. MaxParams
        PROVE  GetParam(end.parser, i, 0) = IF i <= n THEN ps[i] ELSE 0
    <3>1. i > Len(end.parser.params)
      BY <2>3
    <3>2. GetParam(end.parser, i, 0) = 0
      BY <3>1 DEF GetParam
    <3>3. CASE ps = <<>>
      BY <3>2, <3>3
    <3>4. CASE ps = <<0>>
      <4>1. i <= n => i = 1
        BY <3>4
      <4> QED
        BY <3>2, <3>4, <4>1
    <3> QED
      BY <2>2, <3>3, <3>4
  <2> QED
    BY <2>3, <2>4 DEF end
<1>4. CASE p.state = "CSI_PARAM"
  <2> DEFINE q == PushParam(p)
             l == Len(p.params)
  <2>1. end = Emit(q, "GROUND", "CSI_DISPATCH")
    <3>1. end = InCsiParam(p, 72)
      BY <1>2, <1>4 DEF ParserFeed
    <3> QED
      BY <1>2, <3>1 DEF InCsiParam
  <2>2. q.params = IF l < MaxParams THEN Append(p.params, p.current) ELSE p.params
    BY <1>1, PushedIs
  <2>3. ps # <<>> /\ p.current = ps[n] /\ n # 0
    BY <1>4, EmptySeq DEF Numbered
  <2>4. /\ l = IF n - 1 < MaxParams THEN n - 1 ELSE MaxParams
        /\ \A i \in 1 .. l : p.params[i] = ps[i]
    BY <2>3 DEF Numbered
  <2>5. l \in Nat /\ p.params \in Seq(Nat) /\ p.current \in Nat
    BY <1>1, LenProperties DEF ParserType
  <2>6. /\ Len(Append(p.params, p.current)) = l + 1
        /\ Append(p.params, p.current)[l + 1] = p.current
        /\ \A i \in 1 .. l : Append(p.params, p.current)[i] = p.params[i]
    BY <2>5, AppendProperties
  <2> HIDE DEF end
  <2>7. end.action = "CSI_DISPATCH" /\ end.parser.state = "GROUND" /\ end.parser.params = q.params
    <3>1. end.parser = [q EXCEPT !.state = "GROUND"] /\ end.action = "CSI_DISPATCH"
      BY <2>1 DEF Emit
    <3>2. DOMAIN q = {"state", "params", "current", "osc"}
      BY <1>1 DEF PushParam, ParserType
    <3> HIDE DEF q
    <3>3. end.parser.state = "GROUND" /\ end.parser.params = q.params
      BY <3>1, <3>2
    <3> QED
      BY <3>1, <3>3
  <2> DEFINE xs == q.params
  <2>8. Len(xs) = IF n < MaxParams THEN n ELSE MaxParams
    <3> HIDE DEF q, n, l
    <3>1. CASE l < MaxParams
      <4>1. l = n - 1 /\ l + 1 = n /\ n <= MaxParams
        BY <1>1, <2>3, <2>4, <3>1
      <4> QED
        BY <1>1, <2>2, <2>6, <3>1, <4>1
    <3>2. CASE ~(l < MaxParams)
      <4>1. l = MaxParams /\ ~(n < MaxParams)
        BY <1>1, <2>3, <2>4, <2>5, <3>2
      <4> QED
        BY <2>2, <3>2, <4>1 DEF l
    <3> QED
      BY <3>1, <3>2
  <2>9. ASSUME NEW i \in 1 .. MaxParams, i <= n
        PROVE  xs[i] = ps[i] /\ i <= Len(xs)
    <3> HIDE DEF q, n, l
    <3>1. i <= Len(xs)
      BY <1>1, <2>8, <2>9
    <3>2. CASE i <= l
      <4>1. xs[i] = p.params[i]
        BY <2>2, <2>5, <2>6, <3>2
      <4> QED
        BY <2>4, <2>5, <3>1, <3>2, <4>1
    <3>3. CASE ~(i <= l)
      <4>1. l < MaxParams
        BY <2>5, <1>1, <3>3
      <4>2. l = n - 1 /\ i = n /\ l + 1 = n
        BY <1>1, <2>3, <2>4, <2>5, <2>9, <3>3, <4>1
      <4>3. xs[i] = p.current
        BY <2>2, <2>6, <4>1, <4>2
      <4> QED
        BY <2>3, <3>1, <4>2, <4>3
    <3> QED
      BY <3>2, <3>3
  <2> HIDE DEF xs, q, n, l
  <2>10. ASSUME NEW i \in 1 .. MaxParams
         PROVE  GetParam(end.parser, i, 0) = IF i <= n THEN ps[i] ELSE 0
    <3>1. end.parser.params = xs
      BY <2>7 DEF xs
    <3>2. CASE i <= n
      <4>1. xs[i] = ps[i] /\ i <= Len(xs)
        BY <2>9, <3>2
      <4>2. ~(i > Len(xs))
        BY <1>1, <2>8, <4>1
      <4> QED
        BY <3>1, <3>2, <4>1, <4>2 DEF GetParam
    <3>3. CASE ~(i <= n)
      <4>1. i > Len(xs)
        BY <1>1, <2>8, <3>3
      <4> QED
        BY <3>1, <3>3, <4>1 DEF GetParam
    <3> QED
      BY <3>2, <3>3
  <2> QED
    BY <2>7, <2>10 DEF end, n
<1> QED
  BY <1>1, <1>3, <1>4

(* A string: its text is kept as far as there is room, and ends with a BEL  *)
(* or with a backslash behind a kept ESC.                                   *)
LEMMA TextStep ==
  ASSUME NEW p \in ParserType, p.state = "OSC_STRING", NEW c \in Nat
  PROVE  LET q == NextParser(p, c)
         IN  /\ OscEnds(p, c) => q.state = "GROUND"
             /\ ~OscEnds(p, c) =>
                  /\ q \in ParserType /\ q.state = "OSC_STRING"
                  /\ q.osc = IF Len(p.osc) < OscMaxLen THEN Append(p.osc, OscByte(c)) ELSE p.osc
<1> DEFINE text == IF Len(p.osc) < OscMaxLen THEN Append(p.osc, OscByte(c)) ELSE p.osc
<1>1. ParserFeed(p, c) = InOscString(p, c)
  BY DEF ParserFeed
<1>2. ASSUME OscEnds(p, c)
      PROVE  NextParser(p, c).state = "GROUND"
  <2>1. NextParser(p, c) = [p EXCEPT !.state = "GROUND"]
    BY <1>1, <1>2 DEF NextParser, InOscString, Emit
  <2> QED
    BY <2>1 DEF ParserType
<1>3. ASSUME ~OscEnds(p, c)
      PROVE  /\ NextParser(p, c) \in ParserType /\ NextParser(p, c).state = "OSC_STRING"
             /\ NextParser(p, c).osc = text
  <2>1. InOscString(p, c) = Quiet([p EXCEPT !.osc = text], "OSC_STRING")
    BY <1>3 DEF InOscString
  <2>2. text \in Seq(Nat)
    <3>1. p.osc \in Seq(Nat)
      BY DEF ParserType
    <3>2. OscByte(c) \in Nat
      BY DEF OscByte, ESC
    <3> QED
      BY <3>1, <3>2, AppendProperties
  <2>3. p = ParserRecord(p.state, p.params, p.current, p.osc) /\ p.params \in Seq(Nat) /\ p.current \in Nat
    BY DEF ParserType, ParserRecord
  <2> HIDE DEF text
  <2> DEFINE q == ParserRecord("OSC_STRING", p.params, p.current, text)
  <2>4. NextParser(p, c) = q
    <3>1. [p EXCEPT !.osc = text] = ParserRecord(p.state, p.params, p.current, text)
      BY <2>3 DEF ParserRecord
    <3>2. Quiet(ParserRecord(p.state, p.params, p.current, text), "OSC_STRING").parser = q
      BY RecordSteps
    <3> QED
      BY <1>1, <2>1, <3>1, <3>2 DEF NextParser
  <2>5. q \in ParserType /\ q.state = "OSC_STRING" /\ q.osc = text
    <3>1. "OSC_STRING" \in ParserState
      BY DEF ParserState
    <3> QED
      BY <2>2, <2>3, <3>1 DEF ParserType, ParserRecord
  <2> QED
    BY <2>4, <2>5
<1> QED
  BY <1>2, <1>3

Texting(p, body) ==
    /\ p \in ParserType /\ p.state = "OSC_STRING" /\ p.osc \in Seq({0})
    /\ Len(p.osc) = IF Len(body) < OscMaxLen THEN Len(body) ELSE OscMaxLen

LEMMA NoEscKept ==
  ASSUME NEW p, p.osc \in Seq({0})
  PROVE  ~(p.osc # <<>> /\ Last(p.osc) = ESC)
<1> SUFFICES ASSUME p.osc # <<>>
             PROVE  Last(p.osc) # ESC
  OBVIOUS
<1>1. Len(p.osc) \in 1 .. Len(p.osc)
  BY LenProperties, EmptySeq
<1>2. p.osc[Len(p.osc)] \in {0}
  BY <1>1, ElementOfSeq
<1> QED
  BY <1>2 DEF Last, ESC

LEMMA TextKept ==
  ASSUME NEW p, p \in ParserType, p.state = "OSC_STRING", p.osc = <<>>
  PROVE  \A body \in Seq({10, 48, Backslash}) : Texting(ParserAfter(p, body), body)
<1> DEFINE S == {10, 48, Backslash}
           T == {body \in Seq(S) : Texting(ParserAfter(p, body), body)}
<1>0. OscMaxLen \in Nat \ {0} /\ 0 \in Nat /\ <<>> \in Seq(Nat)
  BY ParserAssumption
<1>1. <<>> \in T
  <2>1. ParserAfter(p, <<>>) = p
    BY <1>0, ParseAppend
  <2>2. <<>> \in Seq({0}) /\ Len(<<>>) = 0 /\ <<>> \in Seq(S)
    OBVIOUS
  <2>3. Texting(p, <<>>)
    BY <1>0, <2>2 DEF Texting
  <2> QED
    BY <2>1, <2>2, <2>3
<1>2. ASSUME NEW body \in Seq(S), NEW c \in S, body \in T
      PROVE  Append(body, c) \in T
  <2> DEFINE q  == ParserAfter(p, body)
             r  == NextParser(q, c)
             more == Append(body, c)
  <2>1. body \in Seq(Nat) /\ c \in Nat
    <3>1. S \subseteq Nat
      BY DEF Backslash
    <3> HIDE DEF S
    <3>2. body \in Seq(Nat)
      BY <3>1, SeqMonotonic
    <3> QED
      BY <3>1, <3>2
  <2>2. ParserAfter(p, more) = r
    BY <2>1, ParseAppend
  <2>3. Texting(q, body)
    BY <1>2
  <2> HIDE DEF q
  <2>4. ~OscEnds(q, c)
    <3>1. ~(q.osc # <<>> /\ Last(q.osc) = ESC)
      BY <2>3, NoEscKept DEF Texting
    <3>2. c # BEL
      BY DEF BEL, Backslash
    <3> QED
      BY <3>1, <3>2 DEF OscEnds
  <2>5. /\ r \in ParserType /\ r.state = "OSC_STRING"
        /\ r.osc = IF Len(q.osc) < OscMaxLen THEN Append(q.osc, OscByte(c)) ELSE q.osc
    BY <2>1, <2>3, <2>4, TextStep DEF Texting
  <2>6. OscByte(c) = 0
    BY DEF OscByte, ESC, Backslash
  <2>7. Len(more) = Len(body) + 1 /\ Len(body) \in Nat /\ more \in Seq(S)
    BY AppendProperties, LenProperties
  <2>8. /\ q.osc \in Seq({0})
        /\ Len(q.osc) = IF Len(body) < OscMaxLen THEN Len(body) ELSE OscMaxLen
    BY <2>3 DEF Texting
  <2>9. Append(q.osc, 0) \in Seq({0}) /\ Len(Append(q.osc, 0)) = Len(q.osc) + 1
    BY <2>8, AppendProperties
  <2> HIDE DEF r, more, T, S
  <2>10. Texting(r, more)
    <3>1. CASE Len(body) < OscMaxLen
      <4>1. Len(q.osc) = Len(body) /\ r.osc = Append(q.osc, 0)
        BY <2>5, <2>6, <2>8, <3>1
      <4>2. Len(more) = IF Len(more) < OscMaxLen THEN Len(more) ELSE OscMaxLen
        BY <1>0, <2>7, <3>1
      <4> QED
        BY <2>5, <2>7, <2>9, <4>1, <4>2 DEF Texting
    <3>2. CASE ~(Len(body) < OscMaxLen)
      <4>1. Len(q.osc) = OscMaxLen /\ r.osc = q.osc
        BY <1>0, <2>5, <2>8, <3>2
      <4>2. ~(Len(more) < OscMaxLen)
        BY <1>0, <2>7, <3>2
      <4> QED
        BY <2>5, <2>8, <4>1, <4>2 DEF Texting
    <3> QED
      BY <3>1, <3>2
  <2> QED
    BY <2>2, <2>7, <2>10 DEF T, more
<1> HIDE DEF T, S
<1>3. \A body \in Seq(S) : body \in T
  BY <1>1, <1>2, Parsing!SequenceInduction
<1> QED
  BY <1>3 DEF T, S

LEMMA TextEnds ==
  ASSUME NEW p, NEW body, Len(body) \in Nat, Texting(p, body)
  PROVE  /\ ParserAfter(p, <<BEL>>).state = "GROUND"
         /\ ParserAfter(p, <<ESC, Backslash>>).state =
                IF Len(body) < OscMaxLen THEN "GROUND" ELSE "OSC_STRING"
<1> DEFINE q == NextParser(p, ESC)
<1>1. BEL \in Nat /\ ESC \in Nat /\ Backslash \in Nat /\ ESC # BEL /\ ESC # Backslash
      /\ Backslash # BEL /\ OscByte(ESC) = ESC /\ OscMaxLen \in Nat \ {0}
  BY ParserAssumption DEF BEL, ESC, Backslash, OscByte
<1>2. /\ ParserAfter(p, <<BEL>>) = NextParser(p, BEL)
      /\ ParserAfter(p, <<ESC, Backslash>>) = NextParser(q, Backslash)
  BY <1>1, ParseOne
<1>3. /\ p \in ParserType /\ p.state = "OSC_STRING" /\ p.osc \in Seq({0})
      /\ Len(p.osc) = IF Len(body) < OscMaxLen THEN Len(body) ELSE OscMaxLen
  BY DEF Texting
<1>4. NextParser(p, BEL).state = "GROUND"
  BY <1>1, <1>3, TextStep DEF OscEnds
<1>5. ~OscEnds(p, ESC)
  BY <1>1 DEF OscEnds
<1>6. /\ q \in ParserType /\ q.state = "OSC_STRING"
      /\ q.osc = IF Len(p.osc) < OscMaxLen THEN Append(p.osc, ESC) ELSE p.osc
  BY <1>1, <1>3, <1>5, TextStep
<1> HIDE DEF q
<1>7. CASE Len(body) < OscMaxLen
  <2>1. q.osc = Append(p.osc, ESC)
    BY <1>3, <1>6, <1>7
  <2>2. p.osc \in Seq(Nat)
    BY <1>3 DEF ParserType
  <2>3. q.osc # <<>> /\ q.osc[Len(q.osc)] = ESC
    <3>1. /\ Append(p.osc, ESC) # <<>>
          /\ Append(p.osc, ESC)[Len(p.osc) + 1] = ESC /\ Len(Append(p.osc, ESC)) = Len(p.osc) + 1
      BY <1>1, <2>2, AppendProperties
    <3> QED
      BY <2>1, <3>1
  <2>4. OscEnds(q, Backslash)
    BY <2>3 DEF OscEnds, Last
  <2>5. NextParser(q, Backslash).state = "GROUND"
    BY <1>1, <1>6, <2>4, TextStep
  <2> QED
    BY <1>2, <1>4, <1>7, <2>5
<1>8. CASE ~(Len(body) < OscMaxLen)
  <2>1. q.osc = p.osc
    BY <1>1, <1>3, <1>6, <1>8
  <2>2. ~(q.osc # <<>> /\ Last(q.osc) = ESC)
    BY <1>3, <2>1, NoEscKept
  <2>3. ~OscEnds(q, Backslash)
    BY <1>1, <2>2 DEF OscEnds
  <2>4. NextParser(q, Backslash).state = "OSC_STRING"
    BY <1>1, <1>6, <2>3, TextStep
  <2> QED
    BY <1>2, <1>4, <1>8, <2>4
<1> QED
  BY <1>7, <1>8

(* A control sequence hands over exactly the numbers written in it, as many *)
(* as there is room for, and a string ends at its terminator unless the     *)
(* buffer was too full to keep the terminator's ESC (escape_parser_feed).   *)
THEOREM SequencesAreParsed == Spec => []SequencesParsed
<1>1. SequencesParsed
  <2> SUFFICES ASSUME vt = NewScreen(vt.cols, vt.rows)
               PROVE  SequencesParsed
    BY DEF SequencesParsed
  <2>1. vt.parser = InitialParser
    BY DEF NewScreen
  <2>2. ESC \in Nat /\ LeftBracket \in Nat /\ RightBracket \in Nat
    BY DEF ESC, LeftBracket, RightBracket
  <2>3. <<ESC, LeftBracket>> \in Seq(Nat) /\ <<ESC, RightBracket>> \in Seq(Nat)
    BY <2>2
  <2>4. ASSUME NEW n \in 0 .. MaxParams + 1, NEW ps \in [1 .. n -> {0, 2, 31}]
        PROVE  LET p == ParserAfter(vt.parser, <<ESC, LeftBracket>> \o Joined(ps))
                   end == ParserFeed(p, 72)
               IN  /\ end.action = "CSI_DISPATCH" /\ end.parser.state = "GROUND"
                   /\ \A i \in 1 .. MaxParams :
                        GetParam(end.parser, i, 0) = IF i <= Len(ps) THEN ps[i] ELSE 0
    <3> DEFINE start == ParserAfter(InitialParser, <<ESC, LeftBracket>>)
               text  == Joined(ps)
    <3>1. ps \in Seq(0 .. 99)
      <4>1. n \in Nat
        BY ParserAssumption
      <4>2. ps \in [1 .. n -> 0 .. 99]
        OBVIOUS
      <4> QED
        BY <4>1, <4>2
    <3>2. Numbered(start, <<>>)
      BY SequenceStarts
    <3> HIDE DEF start
    <3>3. text \in Seq(Nat) /\ Numbered(ParserAfter(start, text), ps)
      BY <3>1, <3>2, NumbersParsed
    <3> HIDE DEF text
    <3>4. ParserAfter(InitialParser, <<ESC, LeftBracket>> \o text) = ParserAfter(start, text)
      BY <2>3, <3>3, ParseConcat DEF start
    <3>5. Numbered(ParserAfter(vt.parser, <<ESC, LeftBracket>> \o Joined(ps)), ps)
      BY <2>1, <3>3, <3>4 DEF text
    <3> QED
      BY <3>1, <3>5, NumbersDispatched
  <2>5. ASSUME NEW n \in 0 .. OscMaxLen, NEW body \in [1 .. n -> {10, 48, Backslash}]
        PROVE  LET p == ParserAfter(vt.parser, <<ESC, RightBracket>> \o body)
               IN  /\ p.state = "OSC_STRING"
                   /\ ParserAfter(p, <<BEL>>).state = "GROUND"
                   /\ ParserAfter(p, <<ESC, Backslash>>).state =
                        IF Len(body) < OscMaxLen THEN "GROUND" ELSE "OSC_STRING"
    <3> DEFINE start == ParserAfter(InitialParser, <<ESC, RightBracket>>)
    <3>1. body \in Seq({10, 48, Backslash}) /\ Len(body) \in Nat
      <4>1. n \in Nat
        BY ParserAssumption
      <4>2. body \in Seq({10, 48, Backslash})
        BY <4>1
      <4> QED
        BY <4>2, LenProperties
    <3>2. body \in Seq(Nat)
      BY <3>1 DEF Backslash
    <3>3. start \in ParserType /\ start.state = "OSC_STRING" /\ start.osc = <<>>
      BY SequenceStarts
    <3> HIDE DEF start
    <3>4. Texting(ParserAfter(start, body), body)
      BY <3>1, <3>3, TextKept
    <3>5. ParserAfter(InitialParser, <<ESC, RightBracket>> \o body) = ParserAfter(start, body)
      BY <2>3, <3>2, ParseConcat DEF start
    <3>6. Texting(ParserAfter(vt.parser, <<ESC, RightBracket>> \o body), body)
      BY <2>1, <3>4, <3>5
    <3>7. ParserAfter(vt.parser, <<ESC, RightBracket>> \o body).state = "OSC_STRING"
      BY <3>6 DEF Texting
    <3> QED
      BY <3>1, <3>6, <3>7, TextEnds
  <2> QED
    BY <2>4, <2>5 DEF SequencesParsed
<1> QED
  BY <1>1, PTL
=============================================================================
