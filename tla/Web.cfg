SPECIFICATION MCSpec
CONSTANTS
    root = root
    ada = ada
    c1 = c1
    c2 = c2
    cat = cat
    dog = dog
    junk = junk
    old = old
    Users = {root, ada}
    Operator = root
    Nobody = Nobody
    Seeded <- MCSeeded
    Tags = {"OG"}
    Files = {image}
    OwnHosts = {own}
    OtherHosts = {foreign}
    NoHost = NoHost
    Ttl = 1
    Clients <- MCClients
    Uploaders <- MCClients
    Pictures <- MCPictures
    Junk = junk
    Old = old
    JpegPieces <- MCJpegPieces
    PngChunks <- MCPngChunks
    WebpChunks <- MCWebpChunks
    MaxBytes = 11
    MaxChunks = 5
    MaxTime = 2
    MaxPassword = 1
    MaxBadges = 2
SYMMETRY MCSymmetry
CONSTRAINT MCOneKind
INVARIANTS
    DeadStaysOut
    AsAnswered
    OnlyMetadataGoes
PROPERTIES
    OnlyAdminsChange
    RefusedKeepsAvatar
CHECK_DEADLOCK FALSE
