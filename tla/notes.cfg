SPECIFICATION Spec
CONSTANTS
    Records <- SomeRecords
    NoImage = NoImage
    Sizes = {1}
INVARIANTS
    NotesAreShown
CHECK_DEADLOCK FALSE
