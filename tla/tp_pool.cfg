SPECIFICATION FairSpec
CONSTANTS
    Worker = {"u", "v", "w"}
    Task = {"a", "b", "c", "d", "spawned"}
    Spawns <- FirstSpawns
    Client = {"c1", "c2"}
    Owner = "owner"
    Empty = "empty"
    NullTask = "null"
INVARIANT TypeOK
INVARIANT PoolAddsUp
PROPERTY JoinMeansDone
PROPERTY PoolComesToRest
