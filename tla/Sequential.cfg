\* Pipelining is off and the caller goes on with the transport after a negative
\* reply, or after dropping the future of `send` between two of its commands.
SPECIFICATION Spec
CONSTANTS
    e1 = e1
    e2 = e2
    NoEmail = NoEmail
    Emails <- MCEmails
    RcptCount <- MCRcptCount
    EmptyMessages = {}
    UnreadableMessages <- SecondEmail
    Features <- MCFeatures
    Pipelining = FALSE
    SmtpUtf8 = FALSE
    Challenges = 2
    Reuse <- NegativeOrBetween
    Window = 1
    MaxConns = 2
    MaxFaults = 1
INVARIANTS
    AwaitsOwnReply
    SentOkDelivered
    RejectedNotDelivered
    DeliveredIntact
    NoStall
