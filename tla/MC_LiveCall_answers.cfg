SPECIFICATION LiveFairSpec
CONSTANTS
    Clients <- TwoCalls
    Settings <- SocketThenHelper
    MaxReconnect = 1
    BufferMax = 2
    MaxChunks = 3
    Voiced <- FirstAndLast
    ContextSize = 1
    None = None
INVARIANTS AudioStaysInItsCall AnswerFitsObjection
PROPERTIES ReconnectionSettles
CHECK_DEADLOCK FALSE
