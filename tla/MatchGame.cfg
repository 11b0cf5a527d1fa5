SPECIFICATION MCSpec
CONSTANTS
    ann = ann
    bob = bob
    cat = cat
    g1 = g1
    g2 = g2
    Players <- MCPlayers
    Nobody = nobody
    NSlots = 3
    Scores <- MCScores
    MaxGames = 2
    Scorers <- MCPlayers
    Games <- MCGames
    MaxMatchId = 2
    MaxVersion = 3
    MaxTasks = 4
SYMMETRY MCSymmetry
CONSTRAINT MCStudies
INVARIANTS
    ScoresOfThisGame
    AllLoadedTold
    VerdictByScores
    RowsOfTheirMatch
    RowsFollowRooms
CHECK_DEADLOCK FALSE
