CONSTANTS
    Path <- MCPath
    Finals <- MCFinalsDrive
    NUL = NUL
    Lone = "Lone"
    MaxRenames = 1
    None = None
SPECIFICATION Spec
INVARIANT NormpathNamesTheFile
