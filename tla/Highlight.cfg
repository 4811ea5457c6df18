\* A line of five bytes is too long, and so is a file of more than
\* 14 bytes, its newlines with them, or of four lines.
SPECIFICATION ReadingSpec
CONSTANTS
    Scopes <- MCScopes
    Names <- MCNames
    Languages <- MCLanguages
    Syntaxes <- MCSyntaxes
    WellKnown <- MCWellKnown
    Lower <- MCLower
    MaxBytes = 14
    MaxLines = 3
    MaxLineChars = 4
    Files <- MCFiles
INVARIANTS
    ReadingIsWhole
    SpansFollowTheScopes
