\* A pipelined batch larger than the buffers of the connection.
SPECIFICATION FairSpec
CONSTANTS
    e1 = e1
    e2 = e2
    NoEmail = NoEmail
    Emails <- MCEmails
    RcptCount <- MCRcptCount31
    EmptyMessages = {}
    UnreadableMessages = {}
    Features <- MCPipeliningOnly
    Pipelining = TRUE
    SmtpUtf8 = FALSE
    Challenges = 1
    Reuse = {}
    Window = 2
    MaxConns = 1
    MaxFaults = 0
PROPERTY
    CallReturns
