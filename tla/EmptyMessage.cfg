\* An email whose message is empty, then another one on the same transport.
SPECIFICATION Spec
CONSTANTS
    e1 = e1
    e2 = e2
    NoEmail = NoEmail
    Emails <- MCEmails
    RcptCount <- MCRcptCount
    EmptyMessages <- SecondEmail
    UnreadableMessages = {}
    Features <- MCFeatures
    Pipelining = FALSE
    SmtpUtf8 = FALSE
    Challenges = 1
    Reuse = {}
    Window = 4
    MaxConns = 1
    MaxFaults = 0
INVARIANT
    AwaitsOwnReply
