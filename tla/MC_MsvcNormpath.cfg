CONSTANTS
    Path <- MCPath
    Finals <- MCFinals
    NUL = NUL
    Lone = "Lone"
    MaxRenames = 2
    None = None
SPECIFICATION Spec
INVARIANT NormpathCanonical
