CONSTANTS
    Jobs = {j1, j2}
    Words <- MCWords
    StdioWords <- MCStdioWords
    Exists <- MCExists
    MaxWords = 5
    None = None
    CompilerOut <- MCCompilerOut
    NotePrefix <- MCNotePrefix
    Paths <- MCPaths
    Diagnostics <- MCDiagnostics
    MaxDepth = 3
    MaxLines = 2
SPECIFICATION Spec
INVARIANT NotesRecognised
