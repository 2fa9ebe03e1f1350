SPECIFICATION Spec
CONSTANTS
    MaxChannels = 2
    AmtWindows = {1}
    CiraWindow = 2
    Bytes = 3
    Replies = 2
    MaxWritten <- McWritten
    MaxReplied <- McReplied
INVARIANTS StreamIntact CreditKept EndsAgree
PROPERTIES WrittenIsReceived
CHECK_DEADLOCK FALSE
