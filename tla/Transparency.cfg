\* Every message the codec is made for, up to a length.
SPECIFICATION Spec
CONSTANTS
    MaxLength = 6
    Messages <- MCFaithful
INVARIANTS
    TypeOK
    Transparent
    EndsOnce
