SPECIFICATION Spec
CONSTANT
    max_properties = 3
    Bytes <- MCBytes
    PropertyKeys <- MCPropertyKeys
    SqlChars <- MCSqlChars
    DdlWords <- MCDdlWords
    DdlPhrases <- MCDdlPhrases
    MaxPieces <- MCMaxPieces
INVARIANTS
    Utf8Exact
    PropertiesSound
    NoiseStripped
    CheckFound
