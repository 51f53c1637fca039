\* Every message, a first dot included.
SPECIFICATION Spec
CONSTANTS
    MaxLength = 4
    Messages <- MCAll
INVARIANT
    Transparent
