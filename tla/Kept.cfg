\* A caller that keeps its transport after every error it can, and every call it
\* drops: for how long may it?
SPECIFICATION KeptSpec
CONSTANTS
    e1 = e1
    e2 = e2
    NoEmail = NoEmail
    Emails <- MCEmails
    RcptCount <- MCRcptCount
    EmptyMessages <- SecondEmail
    UnreadableMessages <- MCEmails
    Features <- MCPipeliningOnly
    Pipelining = TRUE
    SmtpUtf8 = FALSE
    Challenges = 2
    Reuse <- EveryError
    Window = 3
    MaxConns = 2
    MaxFaults = 1
CONSTRAINT
    OnlySendsAfter
INVARIANTS
    TypeOK
    KeptInStep
PROPERTIES
    KeptAsAddressed
    KeptOkTaken
