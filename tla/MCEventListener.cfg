\* Chunks of two in a chain of three blocks: the last chunk is cut short. Two
\* kinds, so that a fetch fails or the process dies between them.
CONSTANTS
    Kinds = 2
    Chunk = 2
    MaxBlock = 3
    MaxInterrupts = 2
SPECIFICATION FairListenerSpec
INVARIANTS
    HandledOrUnfetched
    RepeatsOnlyAfterInterrupt
PROPERTIES
    EveryBlockScanned
CHECK_DEADLOCK FALSE
