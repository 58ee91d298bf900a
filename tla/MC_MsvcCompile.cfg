CONSTANTS
    Jobs = {j1, j2, j3}
    PdbPaths = {p1, p2}
    None = None
    Outside = Outside
    SharePdbs = FALSE
SPECIFICATION Spec
INVARIANT TypeOK FallbackOnlyAfterFailure
