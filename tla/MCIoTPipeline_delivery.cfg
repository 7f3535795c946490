\* The publisher in --mode publish and the visualizer with --save, one
\* broken connection of either client, a payload from another
\* client of the public broker whose "time" datetime.fromtimestamp rejects.
CONSTANTS
    Count = 1
    MaxDrops = 1
    Foreign <- MCBadForeign
    PubModes = {"publish"}
    RetainFlags = {FALSE}
    BufferLen = 2
    SaveFlags = {TRUE}

SPECIFICATION Spec

PROPERTY VizResubscribes
PROPERTY PublishedIsDisplayed
