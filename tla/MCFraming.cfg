\* Two messages on one connection.
CONSTANTS
    Base = 8
    Width = 2
    MaxMessage = 15
    MaxBlob = 15
    MaxIdentities = 2
    KnownTypes = {1, 2, 3}
    AnswerType = 2
    SignType = 3
    Malformed = {7}
    Replacement <- MCReplacement
    Error = Error
    Bodies <- MCBodies

SPECIFICATION Spec

CHECK_DEADLOCK FALSE

INVARIANTS
    TypeOK
    DeliveredAsSent
    RebuiltReadsBack
    ParsedIsInAnswer
    SignNamesListedKey
