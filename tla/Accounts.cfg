SPECIFICATION MCSpec
CONSTANTS
    ada = ada
    taggedAda = taggedAda
    bob = bob
    cai = cai
    dan = dan
    secret = secret
    other = other
    card = card
    disk = disk
    c1 = c1
    c2 = c2
    Blank = Blank
    Names <- MCNames
    Clean <- MCClean
    Passwords = {secret, other}
    Machines <- MCMachines
    Clients <- MCClients
    AutoRegister = TRUE
    AntiMulti = TRUE
    MaxPerMachine = 1
    MaxUsers = 3
SYMMETRY MCSymmetry
CONSTRAINT MCNeverWaived
INVARIANTS
    EntersOwn
    LimitNearlyKept
