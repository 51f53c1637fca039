\* A login, and what follows it on the same transport.
SPECIFICATION Spec
CONSTANTS
    Accepted <- MCAccepted
    Challenges = 10
    MaxCalls = 2
INVARIANT
    CommandsAreCommands
