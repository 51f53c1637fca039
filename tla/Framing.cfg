\* Well-formed and malformed replies, sent line by line, read call by call.
SPECIFICATION FairSpec
CONSTANTS
    MaxReplies = 3
    Replies <- MCReplies
INVARIANTS
    RightVerdict
    RefusalSeen
PROPERTIES
    WholeReplies
    ReaderReturns
