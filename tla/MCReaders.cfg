SPECIFICATION Readers
CONSTANTS
    Replies <- ClientReplies
    MaxTries = 3
    LabelMax = 2
    NameMax = 6
    SignBit = 8
INVARIANTS
    NameRead
    SectionsRead
    
PROPERTIES
    Terminates
    LookupAnswered
