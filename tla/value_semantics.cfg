CONSTANTS
    a = a
    b = b
    d1 = d1
    d2 = d2
    ZeroElem = ZeroElem
    Vars <- MCVars
    Elems <- MCElems
    MaxLen = 3
    MaxArrays = 4
SPECIFICATION Spec
INVARIANT ValueSemantics
