SPECIFICATION MCSpec
CONSTANTS
    Plays <- MCMixed
    Legacy <- MCLegacy
    Accounted = {0, 3}
    Handlers <- MCHandlers
    Weight <- MCWeight
    Bonus <- MCBonus
    PpCap = 13
    Requests <- MCRequests
    MaxKept = 2
    MaxTime = 3
    h1 = h1
    h2 = h2
    r1 = r1
    r2 = r2
SYMMETRY MCSymmetry
CONSTRAINT MCTwo
INVARIANTS
    CountedOnce
    NeverOverstated
    AnswerRises
    StartsRepair
    AnswersWhatIsKnown
    LatestIsKept
