CONSTANTS
    Structs <- MCClosedStructs
    ForeignTags <- MCForeignTags
    Nil = Nil
SPECIFICATION Spec
INVARIANT TypeOK
INVARIANT PayloadBelongs
