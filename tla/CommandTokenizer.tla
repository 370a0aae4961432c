-------------------------- MODULE CommandTokenizer --------------------------
(***************************************************************************)
(* shell/command_tokenizer.c, shell/shell_quote.c and alias_expand of      *)
(* shell/alias_engine.c: pure functions of a line, which is a sequence of  *)
(* one-character strings.  The tokenizer and alias_expand read the lines   *)
(* that jni/terminal_jni.cpp hands them; what shell_quote writes goes into *)
(* a command that a shell reads (net/http_client.c, crypto/pgp_verify.c,   *)
(* package/repo_manager.c), never to the tokenizer.                        *)
(***************************************************************************)
EXTENDS Integers, Sequences, SequencesExt

CONSTANTS MaxTokens,    \* MAX_TOKENS
          TokenMaxLen,  \* TOKEN_MAX_LEN
          WordSize,     \* of alias_expand's word
          OutSize       \* of the buffer that nativeAliasExpand gives it

ASSUME TokenAssumption ==
    /\ MaxTokens \in Nat \ {0} /\ TokenMaxLen \in Nat \ {0, 1}
    /\ WordSize \in Nat \ {0} /\ OutSize \in Nat \ {0}

SingleQuote == "'"    DoubleQuote == "\""    Escape == "\\"
SpaceChar   == {" ", "\t"}   \* of isspace's
(* The operators of two characters, and of one. *)
Operator2 == {<<"|", "|">>, <<"&", "&">>, <<"&", ">">>, <<">", ">">>}
Operator1 == {"|", "&", ";", ">", "<"}

Word(text) == [type |-> "WORD", value |-> text]
Op(text)   == [type |-> "OPERATOR", value |-> text]

(* add_token: what does not fit is dropped. *)
AddToken(s, token) ==
    [s EXCEPT !.tokens = IF Len(@) < MaxTokens THEN Append(@, token) ELSE @]

(* A word of no characters is no token, quoted or not. *)
Flush(s) == IF s.buf = <<>> THEN s ELSE [AddToken(s, Word(s.buf)) EXCEPT !.buf = <<>>]

Put(s, c)   == [s EXCEPT !.buf = IF Len(@) < TokenMaxLen - 1 THEN Append(@, c) ELSE @]
Quote(s, q) == [s EXCEPT !.quote = q]

(* The characters of a line, each with the one behind it, "" at the end. *)
Ahead(line) ==
    [i \in DOMAIN line |-> <<line[i], IF i < Len(line) THEN line[i + 1] ELSE "">>]

(* The turn takes the next character as well. *)
Skip(s) == [s EXCEPT !.skip = TRUE]

(* One turn of tokenize's loop, for a character c and the next.  A         *)
(* backslash at the very end of the line stands for itself.                *)
Take(s, c, next) ==
    LET escaped == c = Escape /\ next # ""
    IN  CASE s.quote = SingleQuote -> IF c = SingleQuote THEN Quote(s, "") ELSE Put(s, c)
          [] s.quote = DoubleQuote /\ c = DoubleQuote -> Quote(s, "")
          [] s.quote # SingleQuote /\ escaped -> Skip(Put(s, next))
          [] s.quote = DoubleQuote /\ c # DoubleQuote /\ ~escaped -> Put(s, c)
          [] s.quote = "" /\ c \in {SingleQuote, DoubleQuote} -> Quote(s, c)
          [] s.quote = "" /\ c \in SpaceChar -> Flush(s)
          [] s.quote = "" /\ <<c, next>> \in Operator2 ->
               Skip(AddToken(Flush(s), Op(<<c, next>>)))
          [] s.quote = "" /\ c \in Operator1 /\ <<c, next>> \notin Operator2 ->
               AddToken(Flush(s), Op(<<c>>))
          [] OTHER -> Put(s, c)

Turn(s, at) == IF s.skip THEN [s EXCEPT !.skip = FALSE] ELSE Take(s, at[1], at[2])

Start      == [tokens |-> <<>>, buf |-> <<>>, quote |-> "", skip |-> FALSE]
Scan(line) == FoldLeft(Turn, Start, Ahead(line))

(* tokenize. *)
Tokenize(line) == Flush(Scan(line)).tokens

(* token_list_first_word. *)
FirstWord(tokens) ==
    LET i == SelectInSeq(tokens, LAMBDA t : t.type = "WORD")
    IN  IF i = 0 THEN <<>> ELSE tokens[i].value

-----------------------------------------------------------------------------
(* Mutant: a single quote is copied like any other character. *)
QuotedCharPlain(c) == <<c>>

QuotedChar(c) ==
    IF c = SingleQuote THEN <<SingleQuote, Escape, SingleQuote, SingleQuote>> ELSE <<c>>

PutQuoted(out, c) == out \o QuotedChar(c)

Failed == <<"fails">>

(* shell_quote, into a buffer of size characters; it fails when that is     *)
(* full.                                                                   *)
ShellQuote(text, size) ==
    LET quoted == Append(FoldLeft(PutQuoted, <<SingleQuote>>, text), SingleQuote)
    IN  IF Len(quoted) < size THEN quoted ELSE Failed

(* shell_is_safe_token, of the characters used here. *)
SafeChar == {"a", "b", "-", "/"}
IsSafeToken(text) == text # <<>> /\ Range(text) \subseteq SafeChar

(* External: how the shell of system(), popen() and bash -c divides a       *)
(* command into words: quotes and backslashes are removed, a word may be   *)
(* empty if it was quoted.  Outside of quotes any other character than a   *)
(* safe one or a space may make it do more ("active").                     *)
Reader(words, word, mode) == [words |-> words, word |-> word, mode |-> mode]

EndWord(r) ==
    IF r.mode = "word" THEN Reader(Append(r.words, r.word), <<>>, "between") ELSE r

ShellTurn(r, c) ==
    LET becomes(mode) == Reader(r.words, r.word, mode)
        takes(mode)   == Reader(r.words, Append(r.word, c), mode)
        outside       == r.mode \in {"between", "word"}
    IN  CASE r.mode = "quoted" /\ c # SingleQuote -> takes("quoted")
          [] r.mode = "quoted" /\ c = SingleQuote -> becomes("word")
          [] r.mode = "escaped" -> takes("word")
          [] outside /\ c = SingleQuote -> becomes("quoted")
          [] outside /\ c = Escape -> becomes("escaped")
          [] outside /\ c \in SpaceChar -> EndWord(r)
          [] outside /\ c \in SafeChar -> takes("word")
          [] OTHER -> becomes("active")

(* The command is not over, or is more than words. *)
Unread == <<Failed>>

ShellWords(command) ==
    LET r == EndWord(FoldLeft(ShellTurn, Reader(<<>>, <<>>, "between"), command))
    IN  IF r.mode = "between" THEN r.words ELSE Unread

-----------------------------------------------------------------------------
SkipSpaces(text) ==
    LET i == SelectInSeq(text, LAMBDA c : c # " ")
    IN  IF i = 0 THEN <<>> ELSE SubSeq(text, i, Len(text))

UpToSpace(text) ==
    LET i == SelectInSeq(text, LAMBDA c : c = " ")
    IN  IF i = 0 THEN text ELSE SubSeq(text, 1, i - 1)

(* The line's first word, by spaces alone, and what is behind it. *)
FirstBySpaces(line) == UpToSpace(SkipSpaces(line))
RestBySpaces(line) ==
    LET text == SkipSpaces(line)
    IN  SkipSpaces(SubSeq(text, Len(FirstBySpaces(line)) + 1, Len(text)))

(* Mutant: the expansion and the rest are written without a space. *)
ExpandedUnspaced(line, value) == value \o RestBySpaces(line)

(* The text that alias_expand writes for a line. *)
Expanded(line, value) ==
    LET rest == RestBySpaces(line)
    IN  IF rest = <<>> THEN value ELSE value \o <<" ">> \o rest

(* snprintf: what the buffer has no room for is not written. *)
Written(text) == SubSeq(text, 1, IF Len(text) < OutSize THEN Len(text) ELSE OutSize - 1)

(* alias_expand, and the line itself where it returns 0: there is no word,  *)
(* or a longer one than its buffer, or one that is no alias.  expansion    *)
(* maps the names that are aliases.                                        *)
AliasExpand(line, expansion) ==
    LET word == FirstBySpaces(line)
    IN  IF word = <<>> \/ Len(word) >= WordSize \/ word \notin DOMAIN expansion THEN line
        ELSE Written(Expanded(line, expansion[word]))
=============================================================================
