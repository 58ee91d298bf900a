CONSTANTS
    Words <- MCWords
    StdioWords <- MCStdioWords
    Exists <- MCExists
    Outputs <- MCOutputs
    MaxWords = 3
    None = None
INIT Init
NEXT Next
INVARIANTS
    TypeOK
    DetectMatchesContract
