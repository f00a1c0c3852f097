SPECIFICATION Spec
CONSTANTS
    Witness = {1, 2, 3}
    MaxWitnesses = 2
    MaxVoted = 1
    Required = 2
    BlocksPerDay = 2
    Window = 3
    Word = 32
    Lap = 5
    NumHardforks = 1
    StartVotes <- NoVotes
    MaxVote = 1
    Worlds <- AllWorlds
INVARIANTS NotInThePast SlotsCounted
PROPERTIES ScheduleByVotes HardforkBacked
