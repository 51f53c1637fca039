\* Pipelining is on, as by default, and the caller drops the transport on its
\* first error, as the example in the crate's README does.  The reader of one
\* email may fail.
SPECIFICATION FairSpec
CONSTANTS
    e1 = e1
    e2 = e2
    NoEmail = NoEmail
    Emails <- MCEmails
    RcptCount <- MCRcptCount
    EmptyMessages = {}
    UnreadableMessages <- SecondEmail
    Features <- MCOptions
    Pipelining = TRUE
    SmtpUtf8 = TRUE
    Challenges = 2
    Reuse = {}
    Window = 4
    MaxConns = 2
    MaxFaults = 1
INVARIANTS
    AwaitsOwnReply
    SyncInv
    SentOkDelivered
    RejectedNotDelivered
    NoStall
    OptionsOffered
PROPERTIES
    KeepsPromise
    CallReturns
