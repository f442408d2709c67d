CONSTANTS
    Obj = {1, 2, 3, 9, 11, 12}
    Child <- FlatChild
    Users = {1, 2}
    Edits <- SharedEdits
    Empty = 9
    EntryVersions <- FlatVersions
    Crashes = FALSE
    MaxWrites = 16
SPECIFICATION Spec
PROPERTIES
    GCSpec
