\* The publisher in --mode both (publish, subscribe, listen until Ctrl+C),
\* the visualizer with --save, one broken connection of either client, and
\* no payload from other clients (their effect is in the delivery run).
CONSTANTS
    Count = 1
    MaxDrops = 1
    Foreign = {}
    PubModes = {"publish", "both"}
    RetainFlags = {FALSE}
    BufferLen = 2
    SaveFlags = {TRUE}

SPECIFICATION Spec

INVARIANT TypeOK
INVARIANT PubEchoOnlyRetained
PROPERTY DeliveryRefinesChannel
