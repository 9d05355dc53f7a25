CONSTANTS
    Options <- MCOptions
    Exclusives <- MCExclusives
    Dependencies <- MCDependencies
    Positionals <- MCPositionals
    Tokens <- MCTokens
    MaxTokens = 4
    Delimiter = "_"
    Blank = " "
    Letters = {"a", "b"}
    Bytes = {0, 1, 170, 255}
    WordBits = 22
    MaxText = 6
    MaxBytes = 6
    DrawnBytes = {0, 9, 10, 159, 165, 250, 255}
SPECIFICATION MCSpec
CHECK_DEADLOCK FALSE
INVARIANT ParserSound
INVARIANT TextExact
