\* The publisher in --mode both listens; its connection may break once.
CONSTANTS
    Count = 1
    MaxDrops = 1
    Foreign = {}
    PubModes = {"both"}
    RetainFlags = {FALSE}
    BufferLen = 2
    SaveFlags = {FALSE}

SPECIFICATION Spec

PROPERTY PubResubscribes
