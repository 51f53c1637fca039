\* EHLO and two more commands, written in any pieces and cut anywhere.
SPECIFICATION Spec
CONSTANTS
    EhloReplies <- MCEhloReplies
    ClientIds <- MCClientIds
    Addresses <- MCAddresses
    SmtpUtf8 = TRUE
    OtherCommands <- MCOtherCommands
    MaxCommands = 3
INVARIANTS
    ReadAsMeant
    CutIsRefused
    FeaturesRead
    ParametersOffered
    OneLineEach
PROPERTIES
    WholeCommands
