CONSTANTS
    Unit = 2
    Handlers <- WriteAndSign
    Spelling <- SpellingOf
    Bodies <- BodiesFor
    Room <- RoomFor
    KeyLen = 2
    IdLimit = 2
    Fixed = 8
SPECIFICATION Spec
INVARIANTS
    TypeOK
    DecodesExactly
    FieldsAreFound
    FiledIsWhatWasSent
    SoundIsFiled
CHECK_DEADLOCK FALSE
