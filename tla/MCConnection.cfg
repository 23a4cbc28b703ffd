\* A lock-step peer, three requests of the sizes above or malformed input,
\* replies written into a 3-byte line-buffered output stream.  MaxBytes is
\* MaxFrames times the longest reply, so it never stops a reply.
CONSTANTS
    Bound = 4
    InitBufSize = 5
    Lines <- MCLines
    Garbage <- MCGarbage
    MaxFrames = 3
    Pipelined = FALSE
    BufSize = 3
    Replies <- MCReplies
    MaxBytes = 21
SPECIFICATION Spec
INVARIANT TypeOK
INVARIANT DeliveredInOrder
INVARIANT NoBufferOverrun
INVARIANT ReplyIntact
INVARIANT LinesFlushed
PROPERTY RequestsAnswered
PROPERTY MalformedRejected
