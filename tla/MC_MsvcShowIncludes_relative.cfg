CONSTANTS
    Words <- MCWordsReal
    StdioWords <- MCStdioWords
    Exists <- MCExists
    Outputs <- MCCompilerOut
    MaxWords = 3
    None = None
INIT Init
NEXT Next
INVARIANTS
    DetectsNotePrefix
