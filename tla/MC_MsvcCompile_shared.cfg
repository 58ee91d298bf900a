CONSTANTS
    Jobs = {j1, j2}
    PdbPaths = {p1}
    None = None
    Outside = Outside
    SharePdbs = TRUE
SPECIFICATION Spec
INVARIANT PdbNotShared
