SPECIFICATION Spec
CONSTANTS
    Records <- SomeRecords
    NoImage = NoImage
    Sizes = {1, 3}
INVARIANTS
    WrappingIsSound
    LinesAreFewest
    
    SignatureFits
    TextsReadBack
    FileIsReadable
PROPERTIES
    ListFits
CHECK_DEADLOCK FALSE
