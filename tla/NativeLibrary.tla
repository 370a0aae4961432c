--------------------------- MODULE NativeLibrary ---------------------------
(***************************************************************************)
(* The shell part of the native library as jni/terminal_jni.cpp keeps it   *)
(* in one process: the history and the tables of aliases and variables,    *)
(* with the pure functions on command lines, paths and messages that       *)
(* jni/terminal_jni.cpp and jni/fs_jni.cpp expose.  The calls come from    *)
(* one thread; the process may die between any two of them, and in the     *)
(* middle of a save.                                                       *)
(***************************************************************************)
EXTENDS HistoryManager, CommandTokenizer, PathResolver, Digest

CONSTANTS AliasName, Expansion, MaxAliases, DefaultAliases,
          Variable, Setting, MaxVariables,
          Char, MaxLine,     \* bound: the lines whose tokens are looked at
          Part, MaxDepth,    \* bound: the paths that are looked at
          MaxMessage         \* bound: the messages that are digested

VARIABLES aliases,   \* alias_table and alias_count
          variables  \* env_table and env_count

vars == <<hist, histReady, file, saving, aliases, variables>>

Alias == INSTANCE KeyTable WITH Name <- AliasName, Value <- Expansion,
            MaxEntries <- MaxAliases, Defaults <- DefaultAliases, table <- aliases
Env   == INSTANCE KeyTable WITH Name <- Variable, Value <- Setting,
            MaxEntries <- MaxVariables, Defaults <- <<>>, table <- variables

ASSUME LibraryAssumption ==
    /\ Alias!TableAssumption /\ Env!TableAssumption
    /\ MaxLine \in Nat /\ MaxDepth \in Nat /\ MaxMessage \in Nat
    /\ "" \notin Char /\ \A e \in Expansion : e \in Seq(Range(e)) /\ "" \notin Range(e)

Init == HistInit /\ Alias!Init /\ Env!Init

HistoryStep ==
    /\ UNCHANGED <<aliases, variables>>
    /\ \/ \E max \in 0 .. MaxHistory : HistoryInit(max)
       \/ \E cmd \in Command : HistoryAdd(cmd)
       \/ HistoryPrev \/ HistoryNext \/ HistoryClear \/ SaveBegin \/ SaveEnd

(* alias_init, alias_set, alias_unset, alias_destroy. *)
AliasStep ==
    /\ ~saving /\ UNCHANGED <<histVars, variables>>
    /\ \/ Alias!AddDefaults \/ Alias!Destroy
       \/ \E n \in AliasName : Alias!Unset(n) \/ \E e \in Expansion : Alias!Set(n, e)

(* env_init and env_destroy, env_set, env_unset. *)
EnvStep ==
    /\ ~saving /\ UNCHANGED <<histVars, aliases>>
    /\ \/ Env!Destroy
       \/ \E n \in Variable : Env!Unset(n) \/ \E s \in Setting : Env!Set(n, s)

(* The process dies: of all this only the file is left. *)
Die == Crash /\ aliases' = <<>> /\ variables' = <<>>

Next == HistoryStep \/ AliasStep \/ EnvStep \/ Die

Spec == Init /\ [][Next]_vars

-----------------------------------------------------------------------------
(* Types; the history's position is one of its entries, and in no table is *)
(* a name twice.                                                           *)
LibraryTypeOK == HistTypeOK /\ Alias!TableOK /\ Env!TableOK

(* Each table is a partial function of names, whatever calls it has seen:  *)
(* every call changes its own name and no other.                           *)
TablesAreMaps == [][Alias!CallKept /\ Env!CallKept]_<<aliases, variables>>

(* The pure functions are looked at in the state the process begins with.  *)
Begun == hist = Empty(0) /\ file = <<>> /\ aliases = <<>> /\ variables = <<>>

Line(n)  == UNION {[1 .. k -> Char] : k \in 0 .. n}
Quoted(s) == ShellQuote(s, 4 * Len(s) + 3)
Plain(line) == Range(line) \subseteq {" "} \cup SafeChar
(* As many tokens as there is room for. *)
Kept(tokens) == SubSeq(tokens, 1, IF Len(tokens) < MaxTokens THEN Len(tokens) ELSE MaxTokens)

(* The line leaves no quote open and no word behind a space. *)
Closed(line) == LET s == Scan(Append(line, " ")) IN s.quote = "" /\ s.buf = <<>>

(* What shell_quote writes, the shell reads as the one word it was given,   *)
(* whatever characters that has, empty or not, alone or in front of        *)
(* another as in curl -o dest url; a buffer of four characters for each    *)
(* and three more is enough, and in a smaller one the quoting is whole or  *)
(* fails.  A safe token needs no quotes.                                   *)
QuotedIsOneWord ==
    Begun =>
    /\ \A s \in Line(MaxLine) :
          /\ ShellWords(Quoted(s)) = <<s>>
          /\ \A size \in 3 .. 4 * MaxLine + 3 :
                ShellQuote(s, size) # Failed => ShellWords(ShellQuote(s, size)) = <<s>>
          /\ IsSafeToken(s) => ShellWords(s) = <<s>>
    /\ \A s \in Line(2), t \in Line(MaxLine - 1) :
          ShellWords(Quoted(s) \o <<" ">> \o Quoted(t)) = <<s, t>>

(* nativeAliasExpand and nativeGetFirstWord divide a plain line in the same *)
(* way: the word that alias_expand looks up is the first word of the       *)
(* tokens, if a token has room for it; and of the tokens the expansion     *)
(* replaces the first and no other, if the word is short enough for an     *)
(* alias, the buffer has room for the new line, and the expansion has a    *)
(* word and closes its quotes.                                             *)
WordsSurvive ==
    Begun =>
    \A line \in Line(MaxLine) : Plain(line) =>
       LET words == Tokenize(line)
           word  == FirstBySpaces(line)
       IN  Len(word) < TokenMaxLen =>
           /\ FirstWord(words) = word
           /\ words # <<>> =>
              \A e \in Expansion :
                 Closed(e) /\ Tokenize(e) # <<>> /\ Len(Expanded(line, e)) < OutSize =>
                   Tokenize(AliasExpand(line, [w \in {word} |-> e]))
                       = IF Len(word) < WordSize THEN Kept(Tokenize(e) \o Tail(words)) ELSE words

Path(n) == UNION {[1 .. k -> Part] : k \in 1 .. n}

(* A guest path becomes a path below the rootfs, without dots, whatever     *)
(* dots it has; the way back gives its normal form; normalizing once is     *)
(* enough, a name and ".." behind it cancel out as long as there is room    *)
(* for both, and a path is its directory joined with its name.              *)
PathsStayInRoot ==
    Begun =>
    \A path \in Path(MaxDepth) :
        LET host == GuestToHost(path)
        IN  /\ IsPrefix(Rootfs, host)
            /\ Range(From(host, Len(Rootfs) + 1)) \cap {".", ".."} = {}
            /\ HostToGuest(host) = Normalize(<<"">> \o path)
            /\ Normalize(Normalize(path)) = Normalize(path)
            /\ path # <<"">> /\ Len(path) + 1 < MaxParts =>
                 Normalize(path \o <<"a", "..">>) = Normalize(path)
            /\ Last(path) # "" => Join(Dirname(path), Basename(path)) = Normalize(path)

Joined(bytes, block) == bytes \o block

(* What SHA-256 digests is the message and the padding of the standard, at *)
(* every length around the boundaries of a block.                          *)
PaddingIsStandard ==
    Begun => \A n \in 0 .. MaxMessage :
        FoldLeft(Joined, <<>>, Sha256(Message(n))) = Padded(n, BigEndian)
=============================================================================
