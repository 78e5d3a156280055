SPECIFICATION FairSpec
CONSTANTS
    a = a
    b = b
    v1 = v1
    v2 = v2
    Name = {a, b}
    Version = {v1, v2}
    Nothing = Nothing
    Unknown = Unknown
    Absent = Absent
    Unreadable = Unreadable
    Inactive = Inactive
    Nameless = Nameless
    NFiles = 2
    Writable <- Contents
    CanRemove = TRUE
    MaxEdits = 2
INVARIANTS
    TypeOK
    UpToDate
PROPERTIES
    NoSpuriousDrop
    CatchesUp
CHECK_DEADLOCK FALSE
