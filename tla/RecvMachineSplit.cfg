\* The header of an empty message may arrive in pieces.
CONSTANTS
    Messages <- MCMessages
    MaxMessages = 3
    BufferSize = 7
    SplitsEmpty = TRUE
SPECIFICATION Spec
INVARIANT Framed
