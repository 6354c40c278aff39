\* Every empty message arrives with its header whole.
CONSTANTS
    Messages <- MCMessages
    MaxMessages = 4
    BufferSize = 9
    SplitsEmpty = FALSE
SPECIFICATION Spec
INVARIANTS Framed
