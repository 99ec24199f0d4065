CONSTANTS
    Structs <- MCClosedStructs
    ForeignTags <- MCForeignTags
    Nil = Nil
SPECIFICATION Spec
INVARIANT ExhaustiveMatch
