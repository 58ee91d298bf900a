CONSTANTS
    Path <- MCPath
    Finals <- MCFinalsUNC
    NUL = NUL
    Lone = "Lone"
    MaxRenames = 0
    None = None
SPECIFICATION Spec
INVARIANT NormpathNamesTheFile
