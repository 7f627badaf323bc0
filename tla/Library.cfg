SPECIFICATION Spec
CONSTANTS
    MemSize = 12
    Dword = 4
    MaxText = 5
    MaxFormat = 5
    Text <- Texts
    Accept = {47}
    NULL = NULL
    Formats <- DirectiveFormats
    Word = 256
    Numbers = {0, 9, 100, 127, 128, 255}
    Words <- PassedStrings
    Behind <- BytesBehind
    MaxWidth = 33
    max_size = 5
    Items = {1, 2, 3}
INVARIANTS
    TokensAreWords
    FieldsReadBack
    ScanEndsAtNul
    ArraySorted
PROPERTY
    CopiesWhole
CHECK_DEADLOCK FALSE
