\* Three users, in one room of three slots (full rooms, locked slots, games of
\* one, two and three players with latecomers and deserters) or in two, of
\* which the last slots stay open and none is locked.  The third room created wraps the match id,
\* onto a live room or onto a free id.
CONSTANTS
    u1 = u1
    u2 = u2
    u3 = u3
    Users = {u1, u2, u3}
    NoUser = NoUser
    NSlots = 3
    MaxMatchId = 2
SPECIFICATION Spec
SYMMETRY Symmetry
CONSTRAINT MCSmall
INVARIANTS SeatingOK RecordsOK
PROPERTIES HostKept LocksRespected FinishInterruptsNobody StallsOnlyUnchecked
