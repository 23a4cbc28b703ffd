\* A peer that sends records back to back without waiting for the replies,
\* and replies written into a 3-byte line-buffered output stream.
CONSTANTS
    Bound = 4
    InitBufSize = 5
    Lines <- MCLines
    Garbage <- MCGarbage
    MaxFrames = 3
    Pipelined = TRUE
    BufSize = 3
    Replies <- MCReplies
    MaxBytes = 21
SPECIFICATION Spec
INVARIANT NoOverrun
