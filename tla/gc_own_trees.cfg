CONSTANTS
    Obj = {1, 2, 3, 9, 11, 12, 13, 14, 21, 22, 23, 24, 31, 32, 33, 34}
    Child <- FlatChild
    Users = {1, 2, 3}
    Edits <- OwnEdits
    Empty = 9
    EntryVersions <- FlatVersions
    Crashes = FALSE
    MaxWrites = 16
SPECIFICATION Spec
INVARIANTS
    IndexClosure
PROPERTIES
    GCSpec
