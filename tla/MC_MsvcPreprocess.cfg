CONSTANTS
    Spellings <- MCSpellings
    Norm <- MCNorm
    Spacey <- MCSpacey
    MaxLines = 4
    None = None
SPECIFICATION Spec
INVARIANT TypeOK DepfileMatchesIncludes DiagnosticsKept
