\* With PIPELINING, a caller that keeps the transport after a negative reply.
SPECIFICATION Spec
CONSTANTS
    e1 = e1
    e2 = e2
    NoEmail = NoEmail
    Emails <- MCEmails
    RcptCount <- MCRcptCount31
    EmptyMessages = {}
    UnreadableMessages = {}
    Features <- MCPipeliningOnly
    Pipelining = TRUE
    SmtpUtf8 = FALSE
    Challenges = 1
    Reuse <- NegativeReplies
    Window = 5
    MaxConns = 1
    MaxFaults = 0
INVARIANT
    SentOkDelivered
