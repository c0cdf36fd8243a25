\* Every answer the server can give, each one also behind another one; three pieces at most
\* of a file, and one line more than the limit.
SPECIFICATION FairSpec
CONSTANTS
    Says <- MCSays
    Length <- MCLength
    Files <- MCFiles
    Nil = Nil
    READ_CHUNKSIZE = 2
    MAX_HEADER_LINES = 2
    MaxRequests = 2
INVARIANTS TypeOK AnswerIsAsked
PROPERTIES AnsweredOrClosed
