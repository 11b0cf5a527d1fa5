\* One player with two logins, which may overlap, and two rooms; or two
\* players with one login each and one room at a time.
CONSTANTS
    a = a
    b = b
    a1 = a1
    a2 = a2
    b1 = b1
    Users = {a, b}
    Tokens <- MCTokens
    Owner <- MCOwner
    NoUser = NoUser
    NSlots = 2
    MaxMatchId = 2
SPECIFICATION MCSpec
INVARIANTS TokensLead OneSessionEach SeatsOnline HostsOnline
PROPERTIES SilentLeave PendingDrained
