CONSTANTS
    None = None
    Vals <- MCVals
    Ext <- MCExt
    Lists <- MCLists
SPECIFICATION Spec
INVARIANT TypeOK UnitTestsAgree
PROPERTY Refines
CHECK_DEADLOCK FALSE
