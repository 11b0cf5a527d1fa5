SPECIFICATION MCSpec
CONSTANTS
    a = a
    b = b
    c = c
    a1 = a1
    a2 = a2
    b1 = b1
    c1 = c1
    osu = osu
    multiplayer = multiplayer
    other = other
    Known = {osu, multiplayer}
    Unknown = other
    AutoJoin = {osu}
    Entered = {multiplayer}
    Users = {a, b, c}
    Tokens <- MCTokens
    Owner <- MCOwner
    Limit = 1
    MaxMessages = 2
INVARIANT WarnedFirst
CHECK_DEADLOCK FALSE
