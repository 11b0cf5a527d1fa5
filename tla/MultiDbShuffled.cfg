CONSTANTS
    MaxMatchId = 2
    MaxVersion = 4
    MaxTasks = 4
SPECIFICATION CopySpec
INVARIANT OnlyActiveRooms
