\* Two readers, two chunks, four objects: the ring wraps around twice, and the second
\* object goes over the socket.
SPECIFICATION MQFairSpec
CONSTANTS
    n_reader = 2
    max_chunks = 2
    Big <- MCBig
    MaxObjects = 4
    Stopping = {2}
INVARIANTS
    ChunkExclusive
PROPERTIES
    Broadcast
    EveryObjectArrives
    ShutdownWakes
CHECK_DEADLOCK FALSE
