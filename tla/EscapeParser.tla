---------------------------- MODULE EscapeParser ----------------------------
(***************************************************************************)
(* terminal/escape_parser.c: the state machine that turns bytes into       *)
(* actions.  A parser is a record; ParserFeed(p, c) is the parser after    *)
(* one byte and the action it hands to its callback (at most one, which    *)
(* always comes last but for the change of state, so that the callback     *)
(* reads the parameters of the returned parser).  The intermediate bytes   *)
(* are stored by the code and never read, and left out.  Parameters stay   *)
(* far below the range of int.                                             *)
(***************************************************************************)
EXTENDS Naturals, Sequences, SequencesExt

CONSTANTS MaxParams,  \* ESC_MAX_PARAMS
          OscMaxLen   \* ESC_OSC_MAX_LEN

ASSUME ParserAssumption == MaxParams \in Nat \ {0} /\ OscMaxLen \in Nat \ {0}

ParserState == {"GROUND", "ESCAPE", "CSI_ENTRY", "CSI_PARAM",
                "CSI_INTERMEDIATE", "CSI_IGNORE", "OSC_STRING", "DCS_ENTRY"}
ActionKind == {"NONE", "PRINT", "EXECUTE", "ESC_DISPATCH", "CSI_DISPATCH",
               "OSC_DISPATCH"}

BEL == 7    CAN == 24    SUB == 26    ESC == 27
Semicolon == 59    LeftBracket == 91    Backslash == 92    RightBracket == 93
Digit        == 48 .. 57
FinalByte    == 64 .. 126
Intermediate == 32 .. 47
C0Control    == (0 .. 31) \ {ESC, CAN, SUB}

InitialParser == [state |-> "GROUND", params |-> <<>>, current |-> 0, osc |-> <<>>]

-----------------------------------------------------------------------------
ClearParams(p) == [p EXCEPT !.params = <<>>, !.current = 0]

(* Mutant: the parameter being read is not reset. *)
PushParamKeeps(p) ==
    [p EXCEPT !.params = IF Len(@) < MaxParams THEN Append(@, p.current) ELSE @]

(* The parameters beyond the last slot are dropped. *)
PushParam(p) ==
    [p EXCEPT !.params = IF Len(@) < MaxParams THEN Append(@, p.current) ELSE @,
              !.current = 0]

Quiet(p, s)     == [parser |-> [p EXCEPT !.state = s], action |-> "NONE"]
Emit(p, s, act) == [parser |-> [p EXCEPT !.state = s], action |-> act]

InGround(p, c) ==
    IF c = ESC THEN Quiet(ClearParams(p), "ESCAPE") ELSE Emit(p, "GROUND", "PRINT")

InEscape(p, c) ==
    LET q == ClearParams(p)
    IN  CASE c = LeftBracket  -> Quiet(q, "CSI_ENTRY")
          [] c = RightBracket -> Quiet([q EXCEPT !.osc = <<>>], "OSC_STRING")
          [] c = 80           -> Quiet(q, "DCS_ENTRY")     \* 'P'
          [] c = ESC          -> Quiet(q, "ESCAPE")
          [] OTHER            -> Emit(q, "GROUND", "ESC_DISPATCH")

InCsiEntry(p, c) ==
    CASE c \in Digit        -> Quiet([p EXCEPT !.current = c - 48], "CSI_PARAM")
      [] c = Semicolon      -> Quiet(PushParam(p), "CSI_PARAM")
      [] c \in FinalByte    -> Emit(p, "GROUND", "CSI_DISPATCH")
      [] c \in Intermediate -> Quiet(p, "CSI_INTERMEDIATE")
      [] OTHER              -> Quiet(p, "CSI_ENTRY")    \* '?', ESC: no effect

InCsiParam(p, c) ==
    CASE c \in Digit        -> Quiet([p EXCEPT !.current = @ * 10 + (c - 48)], "CSI_PARAM")
      [] c = Semicolon      -> Quiet(PushParam(p), "CSI_PARAM")
      [] c \in FinalByte    -> Emit(PushParam(p), "GROUND", "CSI_DISPATCH")
      [] c \in Intermediate -> Quiet(PushParam(p), "CSI_INTERMEDIATE")
      [] c \in {CAN, SUB}   -> Emit(p, "GROUND", "EXECUTE")
      [] OTHER              -> Quiet(p, "CSI_PARAM")

InCsiIntermediate(p, c) ==
    CASE c \in FinalByte    -> Emit(p, "GROUND", "CSI_DISPATCH")
      [] c \in Intermediate -> Quiet(p, "CSI_INTERMEDIATE")
      [] OTHER              -> Quiet(p, "CSI_IGNORE")

InCsiIgnore(p, c) ==
    Quiet(p, IF c \in FinalByte THEN "GROUND" ELSE "CSI_IGNORE")

OscEnds(p, c) ==
    \/ c = BEL
    \/ c = Backslash /\ p.osc # <<>> /\ Last(p.osc) = ESC

(* Of the string's text only the ESC is told apart. *)
OscByte(c) == IF c = ESC THEN ESC ELSE 0

(* The ESC of a terminator is kept in the buffer, when there is room. *)
InOscString(p, c) ==
    IF OscEnds(p, c) THEN Emit(p, "GROUND", "OSC_DISPATCH")
    ELSE Quiet([p EXCEPT !.osc = IF Len(@) < OscMaxLen THEN Append(@, OscByte(c)) ELSE @],
               "OSC_STRING")

InDcs(p, c) == Quiet(p, IF c = ESC THEN "ESCAPE" ELSE "DCS_ENTRY")

(* escape_parser_feed. *)
ParserFeed(p, c) ==
    IF c \in C0Control /\ p.state # "OSC_STRING" THEN Emit(p, p.state, "EXECUTE")
    ELSE CASE p.state = "GROUND"           -> InGround(p, c)
           [] p.state = "ESCAPE"           -> InEscape(p, c)
           [] p.state = "CSI_ENTRY"        -> InCsiEntry(p, c)
           [] p.state = "CSI_PARAM"        -> InCsiParam(p, c)
           [] p.state = "CSI_INTERMEDIATE" -> InCsiIntermediate(p, c)
           [] p.state = "CSI_IGNORE"       -> InCsiIgnore(p, c)
           [] p.state = "OSC_STRING"       -> InOscString(p, c)
           [] p.state = "DCS_ENTRY"        -> InDcs(p, c)

(* escape_parser_get_param, the index counted from 1. *)
GetParam(p, i, def) ==
    IF i > Len(p.params) \/ p.params[i] = 0 THEN def ELSE p.params[i]

-----------------------------------------------------------------------------
(* escape_decode_color on 38 or 48 at position i: the colour and the       *)
(* position of its last sub-parameter.  A truncated one is no colour.      *)
DecodeColor(params, i) ==
    CASE i + 2 <= Len(params) /\ params[i + 1] = 5 ->
           [color |-> <<"256", params[i + 2]>>, last |-> i + 2]
      [] i + 4 <= Len(params) /\ params[i + 1] = 2 ->
           [color |-> <<"RGB">> \o [k \in 1 .. 3 |-> params[i + 1 + k] % 256], last |-> i + 4]
      [] OTHER -> [color |-> <<"NONE">>, last |-> i]
=============================================================================
