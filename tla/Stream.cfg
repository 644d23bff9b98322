\* Both families, stopped anywhere.
SPECIFICATION FairStreamSpec
CONSTANTS
    NumTensors = 4
    Tiled = {4}
    NumTiles = 2
    Sizings <- SomeSizings
    MaxShardBytes = 2
    MaxStops = 2
INVARIANTS RecordedIsOnDisk PublishedIsWhole
PROPERTIES KeepsConverted Converts
CHECK_DEADLOCK FALSE
