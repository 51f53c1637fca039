\* Up to three calls of try_login or auth, or a later command, on one transport.
SPECIFICATION FairSpec
CONSTANTS
    Accepted <- MCAccepted
    Challenges = 10
    MaxCalls = 3
INVARIANTS
    TypeOK
    LoginOutcome
    OkMeansLogin
PROPERTY
    AuthReturns
