SPECIFICATION FairSpec
CONSTANTS
    Worker = {w1, w2, w3}
    Main = Main
    parent = parent
    child = child
    other = other
    Task <- MCTask
    Spawns <- MCSpawns
    None = None
    MaxSpurious = 1
INVARIANTS
    TypeOK
    TasksNotRaced
    AsyncOnlyWhileEnabled
\* A client that destroyed the pool, or that calls nothing, stops the system;
\* CallsReturn and TasksAreRun find it stopped anywhere else.
CHECK_DEADLOCK FALSE
PROPERTIES
    PoolKeepsPromises
    TasksAreRun
    CallsReturn
