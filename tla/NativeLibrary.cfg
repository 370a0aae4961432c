SPECIFICATION Spec
CONSTANTS
    Command <- MCCommand
    MaxHistory = 2
    Torn = "t"
    MaxTokens = 2
    TokenMaxLen = 4
    WordSize = 3
    OutSize = 8
    Rootfs <- MCRootfs
    MaxParts = 4
    Sibling <- MCSibling
    AliasName = {"ll", "la", "l"}
    Expansion <- MCExpansion
    MaxAliases = 2
    DefaultAliases <- MCDefaults
    Variable = {"HOME", "PATH"}
    Setting = {"x"}
    MaxVariables = 1
    Char <- MCChar
    MaxLine = 4
    Part = {"", ".", "..", "a", "b"}
    MaxDepth = 5
    Block = 16
    MaxMessage = 36
INVARIANTS
    LibraryTypeOK
    HistoryNavigation
    SavedHistoryReloads
    QuotedIsOneWord
    WordsSurvive
    PathsStayInRoot
    PaddingIsStandard
PROPERTY
    TablesAreMaps
