CONSTANTS
    a = a
    b = b
    a1 = a1
    a2 = a2
    b1 = b1
    b2 = b2
    Users = {a, b}
    Tokens <- MCTokens
    Owner <- MCOwner
SPECIFICATION SessionsSpec
INVARIANT PreviousEvicted
