\* Three snapshot operations, two changes of the notes, one redaction.
SPECIFICATION Spec
CONSTANTS
    MaxTransactions = 3
    MaxNotes = 2
    MaxRedactions = 1
INVARIANTS
    TypeOK
    SettledIsDescribed
    SnapshotImmutableUnlessRedacted
PROPERTIES
    ImplementsTransaction
    NotesNeverTakenBack
CHECK_DEADLOCK FALSE
