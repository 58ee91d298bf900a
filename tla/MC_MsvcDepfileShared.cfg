CONSTANTS
    Jobs = {j1, j2}
    Content <- MCContent
    Old <- MCOld
    Hole = Hole
    None = None
SPECIFICATION Spec
INVARIANT OkDepfileIntact
