CONSTANTS
    None = None
    Vals <- MCVals
    Ext <- MCExt
    Lists <- MCListsListing
SPECIFICATION Spec
INVARIANT NoUntrackedOutputs
CHECK_DEADLOCK FALSE
